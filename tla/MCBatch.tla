-------------------------------- MODULE MCBatch --------------------------------
(* The task of a batch of files, an album of two, then a cached file and a streamed one; and the  *)
(* queue that its message is edited through, with three submitters.                              *)
EXTENDS BatchTask

CONSTANTS g1, g2, c, s, album,
          Parts,    \* which of "task" and "queue" may run
          N, ActiveLimit, Finisher, MaxBytes, MaxFree, Nothing

VARIABLES part,
          item, calls, lock, lately, lastText, done,
          pc, job, pending, slot, runner, editing, submitted

M == INSTANCE BatchMessage

messageVars == <<item, calls, lock, lately, lastText, done, pc, job, pending, slot, runner, editing, submitted>>

MCOrder == <<g1, g2, c, s>>
MCKey == [e \in {g1, g2, c, s} |-> IF e \in {g1, g2} THEN album ELSE None]

(* The cached file alone. *)
MCOne == <<c>>
MCNoKey == [e \in {c} |-> None]

MCInit == part \in Parts /\ Init /\ M!MessageInit
MCNext ==
  \/ part = "task" /\ Next /\ UNCHANGED <<part, messageVars>>
  \/ part = "queue" /\ (M!FreeNext \/ M!QueueNext) /\ UNCHANGED <<part, vars>>

(* The fairness of BatchTask and of BatchMessage, each in its part. *)
On(p) == part = p
TaskFairness ==
  /\ WF_vars(On("task") /\ MainStep)
  /\ \A e \in Elems :
       /\ WF_vars(On("task") /\ MarkProcessing(e)) /\ WF_vars(On("task") /\ (DownloadFails(e) \/ Downloaded(e)))
       /\ WF_vars(On("task") /\ Attempt(e)) /\ WF_vars(On("task") /\ (Saved(e) \/ SaveFails(e)))
       /\ WF_vars(On("task") /\ (TryAgain(e) \/ GiveUp(e))) /\ WF_vars(On("task") /\ ReadChunk(e))
       /\ SF_vars(On("task") /\ (SendEnds(e) \/ SendFails(e))) /\ WF_vars(On("task") /\ StreamEnds(e))
       /\ WF_vars(On("task") /\ PipeClosed(e) /\ SaverStep(e))
QueueFairness ==
  /\ WF_messageVars(On("queue") /\ M!Receive) /\ WF_messageVars(On("queue") /\ M!Perform)
  /\ \A x \in M!Callers : WF_messageVars(On("queue") /\ M!Submit(x))

MCSpec ==
  /\ MCInit /\ [][MCNext]_<<part, vars, messageVars>>
  /\ TaskFairness /\ QueueFairness

(* BatchMessage: a final edit is performed, and after all others. *)
FinalPerformed == M!FinalPerformed

(* BatchTask: Execute returns, but for a stream whose Save left the pipe unread. *)
TaskReturns == On("task") => ExecuteReturns
=============================================================================
