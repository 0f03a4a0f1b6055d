----------------------------- MODULE BatchMessage ------------------------------
(* The status message of a batch: core/tasks/batchtfile/progress.go renders it from the items'  *)
(* progress, and the edits go through the queue of common/utils/tgutil/progress_edit.go, whose  *)
(* one goroutine sends them to Telegram and may be held up for minutes by a FLOOD_WAIT.         *)
(*                                                                                              *)
(* The goroutines of the items and Finisher, the one that ends Execute, render under updateMu   *)
(* (lock). Free submitters call the queue without it, as its own test does. A text is what the  *)
(* template shows: the counts, the visible items and the two summaries; RenderHTML does not     *)
(* fail, as every value in the template is escaped.                                             *)
EXTENDS Naturals, FiniteSets

CONSTANTS
  N,           \* the items of the batch
  ActiveLimit, \* visibleActiveItems(): how many transfers the message shows
  Finisher,    \* the goroutine of Execute
  MaxBytes,    \* bound: the bytes of an item
  MaxFree,     \* bound: the jobs of a free submitter
  Nothing      \* an empty slot, an unheld lock

Items == 1..N
Callers == Items \union {Finisher}

VARIABLES
  item,      \* per item, its phase and its bytes
  calls,     \* per caller, the render it has to make: "no", "priority" or "throttled"
  lock,      \* the holder of updateMu
  lately,    \* less than progressRenderInterval has passed since lastUpdateAt
  lastText, done,
  pc,        \* per caller, where it is in Submit: "out", "send", "take" or "put"
  job,       \* per caller, the job it submits
  pending,   \* per caller, the job it took out of the slot
  slot,      \* the channel of capacity 1
  runner,    \* the queue's goroutine: "none", "waits", "edits" or "stopped"
  editing,   \* the job it performs, or performed last
  submitted  \* the jobs of the free submitters so far
progressVars == <<item, calls, lock, lately, lastText, done>>
queueVars == <<pc, job, pending, slot, runner, editing>>
messageVars == <<progressVars, queueVars, submitted>>

(* ---- the text ---- *)
Phases == {"waiting", "transferring", "downloaded", "confirming", "completed", "failed", "stopped"}
InPhase(phases) == {i \in Items : item[i].phase \in phases}

\* visibleBatchItems: the first transfers, and a lone item in confirmation if there is room.
Visible ==
  LET transfers == InPhase({"transferring"})
      confirms  == InPhase({"confirming"})
      first     == {i \in transfers : Cardinality({j \in transfers : j < i}) < ActiveLimit}
      lone      == Cardinality(confirms) = 1 /\ Cardinality(first) < ActiveLimit
  IN [items      |-> IF lone THEN first \union confirms ELSE first,
      hidden     |-> Cardinality(transfers) - Cardinality(first),
      confirming |-> IF lone THEN 0 ELSE Cardinality(confirms)]

ItemCounts ==
  [p \in {"completed", "waiting", "downloaded", "failed"} |-> Cardinality(InPhase({p}))]

ProgressText ==
  [counts     |-> ItemCounts,
   lines      |-> [i \in Visible.items |-> item[i]],
   hidden     |-> Visible.hidden,
   confirming |-> Visible.confirming,
   final      |-> FALSE]

DoneText == [counts |-> ItemCounts, final |-> TRUE]
NoText == [final |-> FALSE]

Counts == [{"completed", "waiting", "downloaded", "failed"} -> Nat]
Lines == UNION {[shown -> [phase : Phases, bytes : Nat]] : shown \in SUBSET Items}
Texts == [counts : Counts, lines : Lines, hidden : Nat, confirming : Nat, final : {FALSE}]
           \union [counts : Counts, final : {TRUE}]

\* The items are numbered, and what stands for nothing is neither a caller nor a text.
ASSUME BatchMessageAssumption ==
  /\ N \in Nat /\ ActiveLimit \in Nat
  /\ Finisher \notin Items /\ Nothing \notin Callers /\ Nothing \notin Texts

(* ---- what the goroutines of the items report ---- *)
MessageInit ==
  /\ item = [i \in Items |-> [phase |-> "waiting", bytes |-> 0]]
  /\ calls = [c \in Callers |-> "no"]
  /\ lock = Nothing /\ lately = FALSE /\ lastText = NoText /\ done = FALSE
  /\ pc = [c \in Callers |-> "out"]
  /\ job = [c \in Callers |-> Nothing] /\ pending = [c \in Callers |-> Nothing]
  /\ slot = Nothing /\ runner = "none" /\ editing = Nothing
  /\ submitted = [c \in Callers |-> 0]

NextPhases(phase) ==
  CASE phase = "waiting"      -> {"transferring", "failed"}
    [] phase = "transferring" -> {"downloaded", "confirming", "failed"}
    [] phase = "downloaded"   -> {"transferring"}
    [] phase = "confirming"   -> {"completed", "transferring"}
    [] OTHER                  -> {}

Settled == \A i \in Items : item[i].phase \in {"completed", "failed", "stopped"}

\* finishItems: an end with an error, once the goroutines have returned, stops what is not settled.
StopItems ==
  /\ ~Settled /\ \A i \in Items : calls[i] = "no" /\ pc[i] = "out"
  /\ item' = [i \in Items |-> IF item[i].phase \in {"completed", "failed"} THEN item[i]
                                ELSE [item[i] EXCEPT !.phase = "stopped"]]
  /\ UNCHANGED <<calls, lock, lately, lastText, done, queueVars, submitted>>

\* A change of phase is announced with OnStateChange, which is not throttled.
ChangePhase(i) ==
  /\ calls[i] = "no" /\ pc[i] = "out"
  /\ \E phase \in NextPhases(item[i].phase) : item' = [item EXCEPT ![i].phase = phase]
  /\ calls' = [calls EXCEPT ![i] = "priority"]
  /\ UNCHANGED <<lock, lately, lastText, done, queueVars, submitted>>

\* Bytes are announced with OnProgress or OnUploadProgress.
AddBytes(i) ==
  /\ calls[i] = "no" /\ pc[i] = "out"
  /\ item[i].phase = "transferring" /\ item[i].bytes < MaxBytes
  /\ item' = [item EXCEPT ![i].bytes = @ + 1]
  /\ calls' = [calls EXCEPT ![i] = "throttled"]
  /\ UNCHANGED <<lock, lately, lastText, done, queueVars, submitted>>

(* ---- render and OnDone, up to the call of Submit ---- *)
Skips(c) ==
  \/ done
  \/ calls[c] = "throttled" /\ lately
  \/ ProgressText = lastText

RenderSkipped(c) ==
  /\ calls[c] \in {"priority", "throttled"} /\ lock = Nothing /\ Skips(c)
  /\ calls' = [calls EXCEPT ![c] = "no"]
  /\ UNCHANGED <<item, lock, lately, lastText, done, queueVars, submitted>>

Render(c) ==
  /\ calls[c] \in {"priority", "throttled"} /\ lock = Nothing /\ ~Skips(c)
  /\ lastText' = ProgressText /\ lately' = TRUE
  /\ calls' = [calls EXCEPT ![c] = "no"]
  /\ lock' = c
  /\ pc' = [pc EXCEPT ![c] = "send"] /\ job' = [job EXCEPT ![c] = ProgressText]
  /\ runner' = IF runner = "none" THEN "waits" ELSE runner
  /\ UNCHANGED <<item, done, pending, slot, editing, submitted>>

\* Execute reports the end when its goroutines are done; a late upload callback may still render.
OnDone ==
  /\ Settled /\ ~done /\ lock = Nothing
  /\ done' = TRUE /\ lastText' = DoneText
  /\ lock' = Finisher
  /\ pc' = [pc EXCEPT ![Finisher] = "send"] /\ job' = [job EXCEPT ![Finisher] = DoneText]
  /\ runner' = IF runner = "none" THEN "waits" ELSE runner
  /\ UNCHANGED <<item, calls, lately, pending, slot, editing, submitted>>

IntervalPasses ==
  /\ lately /\ lately' = FALSE
  /\ UNCHANGED <<item, calls, lock, lastText, done, queueVars, submitted>>

(* ---- Submit ---- *)
Leave(c) ==
  /\ pc' = [pc EXCEPT ![c] = "out"]
  /\ lock' = IF lock = c THEN Nothing ELSE lock
  /\ UNCHANGED <<item, calls, lately, lastText, done>>

SubmitSends(c) ==
  /\ pc[c] = "send" /\ slot = Nothing
  /\ slot' = job[c] /\ job' = [job EXCEPT ![c] = Nothing]
  /\ Leave(c)
  /\ UNCHANGED <<pending, runner, editing, submitted>>

SlotFull(c) ==
  /\ pc[c] = "send" /\ slot # Nothing
  /\ pc' = [pc EXCEPT ![c] = "take"]
  /\ UNCHANGED <<progressVars, job, pending, slot, runner, editing, submitted>>

SubmitGivesWay(c) ==
  /\ pc[c] = "take" /\ (slot # Nothing => ~slot.final)
  /\ job' = [job EXCEPT ![c] = Nothing] /\ Leave(c)
  /\ UNCHANGED <<pending, slot, runner, editing, submitted>>

SubmitReplaces(c) ==
  /\ pc[c] = "take" /\ (slot # Nothing => ~slot.final)
  /\ slot' = Nothing
  /\ pc' = [pc EXCEPT ![c] = "send"]
  /\ UNCHANGED <<progressVars, job, pending, runner, editing, submitted>>

SubmitMeetsFinal(c) ==
  /\ pc[c] = "take" /\ slot # Nothing /\ slot.final
  /\ pending' = [pending EXCEPT ![c] = slot] /\ slot' = Nothing
  /\ pc' = [pc EXCEPT ![c] = "put"]
  /\ UNCHANGED <<progressVars, job, runner, editing, submitted>>

PutBackIfRoom(c) ==
  /\ pc[c] = "put"
  /\ slot' = IF slot = Nothing THEN pending[c] ELSE slot
  /\ pending' = [pending EXCEPT ![c] = Nothing] /\ job' = [job EXCEPT ![c] = Nothing]
  /\ Leave(c)
  /\ UNCHANGED <<runner, editing, submitted>>

PutBack(c) ==
  /\ pc[c] = "put" /\ slot = Nothing
  /\ slot' = pending[c] /\ pending' = [pending EXCEPT ![c] = Nothing]
  /\ job' = [job EXCEPT ![c] = Nothing]
  /\ Leave(c)
  /\ UNCHANGED <<runner, editing, submitted>>

(* ---- the queue's goroutine ---- *)
Receive ==
  /\ runner = "waits" /\ slot # Nothing
  /\ editing' = slot /\ slot' = Nothing /\ runner' = "edits"
  /\ UNCHANGED <<progressVars, pc, job, pending, submitted>>

\* The edit succeeds, or fails or panics and is logged: the goroutine goes on either way.
Perform ==
  /\ runner = "edits"
  /\ runner' = IF editing.final THEN "stopped" ELSE "waits"
  /\ UNCHANGED <<progressVars, pc, job, pending, slot, editing, submitted>>

(* ---- the queue alone: submitters that share no lock, one of them with the final edit ---- *)
FreeJob(c) == IF c = Finisher THEN DoneText ELSE [final |-> FALSE, from |-> c]

FreeSubmit(c) ==
  /\ pc[c] = "out" /\ submitted[c] < (IF c = Finisher THEN 1 ELSE MaxFree)
  /\ submitted' = [submitted EXCEPT ![c] = @ + 1]
  /\ pc' = [pc EXCEPT ![c] = "send"] /\ job' = [job EXCEPT ![c] = FreeJob(c)]
  /\ runner' = IF runner = "none" THEN "waits" ELSE runner
  /\ UNCHANGED <<progressVars, pending, slot, editing>>

Submit(c) ==
  SubmitSends(c) \/ SlotFull(c) \/ SubmitReplaces(c) \/ SubmitMeetsFinal(c) \/ PutBack(c)

ProgressNext ==
  \/ \E i \in Items : ChangePhase(i) \/ AddBytes(i) \/ RenderSkipped(i) \/ Render(i)
  \/ StopItems \/ OnDone \/ IntervalPasses
QueueNext == Receive \/ Perform \/ \E c \in Callers : Submit(c)
FreeNext == \E c \in Callers : FreeSubmit(c)

\* The goroutines run, the editor's calls return, and a batch whose items are settled ends.
Fairness ==
  /\ WF_messageVars(OnDone) /\ WF_messageVars(Receive) /\ WF_messageVars(Perform)
  /\ \A c \in Callers : WF_messageVars(Submit(c)) /\ WF_messageVars(c \in Items /\ (RenderSkipped(c) \/ Render(c)))

Spec == MessageInit /\ [][ProgressNext \/ QueueNext]_messageVars /\ Fairness
FreeSpec == MessageInit /\ [][FreeNext \/ QueueNext]_messageVars /\ Fairness

-----------------------------------------------------------------------------
(* Replacing the job in the slot never loses the newest text: outside Submit, the last text     *)
(* rendered is the one that waits in the slot or, when the slot is empty, the one being edited  *)
(* (progress.go:91 marks it as told before it is).                                              *)
NewestKept ==
  lock = Nothing /\ lastText # NoText =>
    lastText = IF slot # Nothing THEN slot ELSE editing

(* The rendered texts account for every item: each is counted, shown on a line of its own or    *)
(* part of one of the two summaries, and none twice (progress.go:299-345).                      *)
TextCoversItems ==
  lastText # NoText /\ ~lastText.final =>
    /\ lastText.counts.completed + lastText.counts.waiting + lastText.counts.downloaded
         + lastText.counts.failed + Cardinality(DOMAIN lastText.lines) + lastText.hidden
         + lastText.confirming = N
    /\ Cardinality(DOMAIN lastText.lines) <= ActiveLimit

(* What the message of a batch promises: no newer text gives way to an older one, and the text  *)
(* leaves no item out.                                                                          *)
MessageInv == NewestKept /\ TextCoversItems

(* A final edit that a submitter holds or that waits in the slot is performed, and is the last: *)
(* taking it out of the slot to look at it loses it to nobody (progress_edit.go:68-72).         *)
FinalPerformed ==
  (\E c \in Callers : job[c] # Nothing /\ job[c].final) ~> (runner = "stopped" /\ editing.final)
=============================================================================
