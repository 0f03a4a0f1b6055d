------------------------------- MODULE RelayTalk -------------------------------
(***************************************************************************)
(* The conversations of the bot relay with its target bots, one after the  *)
(* other: a /start is sent, the answers come through the handler of the    *)
(* user client and a channel, and their files become a task.               *)
(*                                                                         *)
(* Bots answer when they like, also a request that is over.  The numbers   *)
(* of messages matter only for whether an answer is newer than the /start  *)
(* of the request at work and to which /start it replies, so an answer     *)
(* carries the two: "after", and "reply", which is the present one, an     *)
(* earlier one or none.  Updates are handled at once, each by a goroutine. *)
(***************************************************************************)
EXTENDS Naturals, Sequences

CONSTANTS Targets, Handlers, Capacity, Nobody

Answers == [from : Targets, after : BOOLEAN, reply : {"present", "earlier", "none"}]

ASSUME RelayTalkAssumption ==
  /\ Targets # {} /\ Nobody \notin Targets /\ Nobody \notin Answers
  /\ Capacity \in Nat \ {0}              \* relayResponseBufferSize

VARIABLES
  talk,          \* where process is
  target,        \* the target of the request
  activeTarget,  \* whom the handler listens to
  spoken,        \* targets to which a /start has been sent
  coming,        \* the answer that each goroutine of the handler has, or is about to get
  checked,       \* those whose answer has passed the handler's checks
  responses,     \* the channel
  files          \* answers with files taken for the request

talkVars == <<talk, target, activeTarget, spoken, coming, checked, responses, files>>

TalkInit ==
  /\ talk = "idle" /\ target = Nobody /\ activeTarget = Nobody /\ spoken = {}
  /\ coming = [h \in Handlers |-> Nobody] /\ checked = {} /\ responses = <<>> /\ files = {}

-----------------------------------------------------------------------------
(* processRelayPayload: the status message is sent, and process begins to listen. *)
Begin(t) ==
  /\ talk = "idle"
  /\ talk' = "sending" /\ target' = t /\ activeTarget' = t
  /\ UNCHANGED <<spoken, coming, checked, responses, files>>

(* process returns: nobody is listened to.  What is left in the channel stays there. *)
End ==
  /\ talk' = "idle" /\ target' = Nobody /\ activeTarget' = Nobody /\ files' = {}

(* Every answer there is becomes one from before this /start. *)
Aged(a) ==
  IF a = Nobody THEN Nobody
  ELSE [a EXCEPT !.after = FALSE, !.reply = IF @ = "present" THEN "earlier" ELSE @]

SendStart ==
  /\ talk = "sending"
  /\ \/ /\ talk' = "waiting"
        /\ spoken' = spoken \union {target}
        /\ coming' = [h \in Handlers |-> Aged(coming[h])]
        /\ responses' = [i \in DOMAIN responses |-> Aged(responses[i])]
        /\ UNCHANGED <<target, activeTarget, files>>
     \/ /\ End                              \* an error, after which the bot may have the /start or not
        /\ spoken' \in {spoken, spoken \union {target}}
        /\ UNCHANGED <<coming, responses>>
  /\ UNCHANGED checked

(* A bot sends a message. *)
BotSends(t, h) ==
  /\ t \in spoken /\ coming[h] = Nobody
  /\ \E reply \in {"present", "earlier", "none"} :
       /\ reply = "present" => talk \in {"waiting", "adding"} /\ t = target
       /\ coming' = [coming EXCEPT ![h] = [from |-> t, after |-> talk \in {"waiting", "adding"}, reply |-> reply]]
  /\ UNCHANGED <<talk, target, activeTarget, spoken, checked, responses, files>>

(* handleUpdate, up to its select: an answer from elsewhere is not the relay's. *)
HandleUpdate(h) ==
  /\ coming[h] # Nobody /\ h \notin checked
  /\ IF coming[h].from = activeTarget
       THEN checked' = checked \union {h} /\ UNCHANGED coming
       ELSE coming' = [coming EXCEPT ![h] = Nobody] /\ UNCHANGED checked
  /\ UNCHANGED <<talk, target, activeTarget, spoken, responses, files>>

(* It waits for room in the channel. *)
PutResponse(h) ==
  /\ h \in checked /\ Len(responses) < Capacity
  /\ responses' = Append(responses, coming[h])
  /\ coming' = [coming EXCEPT ![h] = Nobody] /\ checked' = checked \ {h}
  /\ UNCHANGED <<talk, target, activeTarget, spoken, files>>

(* relayResponseMatches. *)
MatchesReply(a) == a.reply \in {"present", "none"}
Matches(a) == a.after /\ a.reply \in {"present", "none"}

(* An answer without media, or with media that is not a file, is passed over. *)
TakeResponse ==
  /\ talk = "waiting" /\ responses # <<>>
  /\ responses' = Tail(responses)
  /\ \/ Matches(Head(responses)) /\ files' = files \union {Head(responses)}
     \/ UNCHANGED files
  /\ UNCHANGED <<talk, target, activeTarget, spoken, coming, checked>>

(* The time for an answer is over, or with files the quiet time after the last one. *)
TimeOver ==
  /\ talk = "waiting"
  /\ IF files # {}
       THEN talk' = "adding" /\ UNCHANGED <<target, activeTarget, files>>
       ELSE End
  /\ UNCHANGED <<spoken, coming, checked, responses>>

(* addTasks, which succeeds or fails. *)
AddTasks ==
  /\ talk = "adding"
  /\ End
  /\ UNCHANGED <<spoken, coming, checked, responses>>

(* The program is started again: what a bot is still to send comes after that. *)
StartAgain ==
  /\ End
  /\ coming' = [h \in Handlers |-> Nobody] /\ checked' = {} /\ responses' = <<>>
  /\ UNCHANGED spoken

Process == SendStart \/ TakeResponse \/ TimeOver \/ AddTasks
TalkNext ==
  \/ \E t \in Targets : Begin(t)
  \/ \E t \in Targets, h \in Handlers : BotSends(t, h)
  \/ \E h \in Handlers : HandleUpdate(h) \/ PutResponse(h)
  \/ Process \/ StartAgain
TalkSpec == TalkInit /\ [][TalkNext]_talkVars

-----------------------------------------------------------------------------
TalkTypeOK ==
  /\ talk \in {"idle", "sending", "waiting", "adding"}
  /\ target \in Targets \union {Nobody} /\ activeTarget \in Targets \union {Nobody}
  /\ spoken \subseteq Targets
  /\ coming \in [Handlers -> Answers \union {Nobody}] /\ checked \subseteq Handlers
  /\ responses \in Seq(Answers) /\ Len(responses) <= Capacity
  /\ files \subseteq Answers

(* Scans are serial so that the answers of different bots do not mix: every file of a task comes  *)
(* from the bot the request was sent to, although the handler looks at the target long before the *)
(* answer is taken and the channel may still hold what an earlier request left.                   *)
AnswersBelong == \A a \in files : a.from = target
=============================================================================
