------------------------------ MODULE ChatWatch ------------------------------
(***************************************************************************)
(* Saving what appears in a watched chat.  The user client debounces each  *)
(* media message behind a timer (client/user/watch.go) and sends an event  *)
(* to a channel; one listener (client/bot/handlers/watch.go) takes the     *)
(* events and, for each user who watches the chat, queues a task or, under *)
(* a NEW-FOR-ALBUM rule, hands the file to a collector of its own          *)
(* (GroupCollector, one group per chat and user), whose callback queues    *)
(* the files of each album it finds complete.                              *)
(*                                                                         *)
(* One chat is modelled: every map of the code is keyed by it.  A message  *)
(* may be delivered more than once by Telegram; <<m, n>> is the n-th       *)
(* delivery of message m, the timer it arms and the file object made of it.*)
(***************************************************************************)
EXTENDS Naturals, Sequences, FiniteSets

CONSTANTS Msgs,         \* the media messages
          Deliveries,   \* how often each message may be delivered
          AlbumOf,      \* the album of each message, or NoAlbum
          NoAlbum,
          Users,
          AlbumUsers,   \* the users with the rule IS-ALBUM true <storage> NEW-FOR-ALBUM
          ChanCap,      \* capacity of mediaMessageCh
          NoEvent       \* neither a file nor a timer

Files == UNION {{<<m, n>> : n \in 1 .. Deliveries[m]} : m \in Msgs}
Copies == Files \X Users
Empty(m) == <<m, 0>>    \* what a callback sends when the map holds no event

ASSUME ChatWatchAssumption ==
  /\ Deliveries \in [Msgs -> Nat] /\ ChanCap \in Nat
  /\ NoEvent \notin Files /\ NoEvent \notin Copies

VARIABLES
  deliveries,   \* deliveries so far
  events,       \* the event kept for each message: the number of a delivery, 0 if none
  msgTimers,    \* the timer remembered for each message, 0 if none
  msgPhase,     \* what became of the timer of each delivery
  payload,      \* the event each callback is about to send
  channel,      \* mediaMessageCh
  current,      \* the event the listener handles, NoEvent between events
  todo,         \* the users it still has to handle
  watching,     \* the users who watch the chat
  fate,         \* what became of each user's copy of a file
  crashed,      \* whether the listener panicked, which ends the process
  received,     \* history: how often each file reached the listener
  late,         \* history: the messages one of whose timers was stopped too late
  userGroups, albumTimers, albumPhase, userTaken, userSeen, userHanded, userRaced    \* the album collector

Album == INSTANCE GroupCollector WITH
           Items <- Copies, Keys <- Users, KeyOf <- [c \in Copies |-> c[2]],
           None <- NoEvent, groups <- userGroups, timers <- albumTimers, phase <- albumPhase,
           taken <- userTaken, seen <- userSeen, handed <- userHanded, raced <- userRaced

debounceVars == <<deliveries, events, msgTimers, msgPhase, payload, late>>
listenerVars == <<current, todo, received, crashed>>
albumVars == <<userGroups, albumTimers, albumPhase, userTaken, userSeen, userHanded, userRaced>>
watchVars == <<debounceVars, channel, listenerVars, watching, fate, albumVars>>

WatchInit ==
  /\ deliveries = [m \in Msgs |-> 0]
  /\ events = [m \in Msgs |-> 0]
  /\ msgTimers = [m \in Msgs |-> 0]
  /\ msgPhase = [f \in Files |-> "unused"]
  /\ payload = [f \in Files |-> Empty(f[1])]
  /\ late = {}
  /\ channel = <<>>
  /\ current = NoEvent /\ todo = {} /\ crashed = FALSE
  /\ received = [f \in Files |-> 0]
  /\ watching \in SUBSET Users
  /\ fate = [c \in Copies |-> "none"]
  /\ Album!CollectorInit

-----------------------------------------------------------------------------
(* client/user/watch.go *)

StopOnly(m, n) ==
  [f \in Files |-> CASE f = <<m, n>> -> IF msgTimers[m] = 0 THEN "armed" ELSE "stopped"
                     [] f = <<m, msgTimers[m]>> /\ msgPhase[f] = "armed" -> "stopped"
                     [] OTHER -> msgPhase[f]]

(* timer.Stop() on the message's timer, then time.AfterFunc for the n-th delivery. *)
Restart(m, n) ==
  [f \in Files |-> CASE f = <<m, n>> -> "armed"
                     [] f = <<m, msgTimers[m]>> /\ msgPhase[f] = "armed" -> "stopped"
                     [] OTHER -> msgPhase[f]]

SendMediaMessageEvent(m) ==
  LET n == deliveries[m] + 1 IN
  /\ n <= Deliveries[m]
  /\ deliveries' = [deliveries EXCEPT ![m] = n]
  /\ events' = IF msgTimers[m] = 0 THEN [events EXCEPT ![m] = n] ELSE events
  /\ msgPhase' = Restart(m, n)
  /\ msgTimers' = [msgTimers EXCEPT ![m] = n]
  /\ late' = IF \E f \in Files : f[1] = m /\ msgPhase[f] = "fired" THEN late \union {m} ELSE late
  /\ UNCHANGED <<payload, channel, listenerVars, watching, fate, albumVars>>

EventTimerExpires(f) ==
  /\ msgPhase[f] = "armed"
  /\ msgPhase' = [msgPhase EXCEPT ![f] = "fired"]
  /\ UNCHANGED <<deliveries, events, msgTimers, payload, late, channel, listenerVars, watching, fate, albumVars>>

KeepEvent(m) == events

DropEvent(m) == [events EXCEPT ![m] = 0]

(* The callback's critical section.  A map without the key yields the zero event. *)
TakeEvent(f) ==
  LET m == f[1] IN
  /\ msgPhase[f] = "fired"
  /\ msgPhase' = [msgPhase EXCEPT ![f] = "sending"]
  /\ payload' = [payload EXCEPT ![f] = <<m, events[m]>>]
  /\ events' = DropEvent(m)
  /\ msgTimers' = [msgTimers EXCEPT ![m] = 0]
  /\ UNCHANGED <<deliveries, late, channel, listenerVars, watching, fate, albumVars>>

(* mediaMessageCh <- event, outside the mutex; it blocks while the channel is full. *)
SendEvent(f) ==
  /\ msgPhase[f] = "sending"
  /\ Len(channel) < ChanCap
  /\ channel' = Append(channel, payload[f])
  /\ msgPhase' = [msgPhase EXCEPT ![f] = "done"]
  /\ UNCHANGED <<deliveries, events, msgTimers, payload, late, listenerVars, watching, fate, albumVars>>

-----------------------------------------------------------------------------
(* client/bot/handlers/watch.go *)

(* The listener takes an event.  The zero event has no file: event.File.Name() panics.      *)
(* Otherwise it reads who watches the chat.                                                  *)
Receive ==
  /\ current = NoEvent
  /\ channel # <<>>
  /\ channel' = Tail(channel)
  /\ IF Head(channel)[2] = 0
       THEN /\ crashed' = TRUE
            /\ UNCHANGED <<current, todo, received>>
       ELSE /\ current' = Head(channel)
            /\ todo' = watching
            /\ received' = [received EXCEPT ![Head(channel)] = @ + 1]
            /\ UNCHANGED crashed
  /\ UNCHANGED <<debounceVars, watching, fate, albumVars>>

(* The database query failed: the event is dropped. *)
ReceiveFails ==
  /\ current = NoEvent
  /\ channel # <<>>
  /\ Head(channel)[2] # 0
  /\ channel' = Tail(channel)
  /\ received' = [received EXCEPT ![Head(channel)] = @ + 1]
  /\ UNCHANGED <<debounceVars, current, todo, crashed, watching, fate, albumVars>>

NextEvent ==
  /\ current # NoEvent /\ todo = {}
  /\ current' = NoEvent
  /\ UNCHANGED <<debounceVars, channel, todo, received, crashed, watching, fate, albumVars>>

(* The filter rejects the message, or the user has no usable default storage. *)
SkipUser(u) ==
  /\ u \in todo
  /\ todo' = todo \ {u}
  /\ fate' = [fate EXCEPT ![<<current, u>>] = "skipped"]
  /\ UNCHANGED <<debounceVars, channel, current, received, crashed, watching, albumVars>>

NeedsAlbum(u) == u \in AlbumUsers /\ AlbumOf[current[1]] # NoAlbum

CollectForAlbum(u) ==
  /\ u \in todo /\ NeedsAlbum(u)
  /\ todo' = todo \ {u}
  /\ Album!AddFile(<<current, u>>)
  /\ fate' = [fate EXCEPT ![<<current, u>>] = "collecting"]
  /\ UNCHANGED <<debounceVars, channel, current, received, crashed, watching>>

SaveFile(u) ==
  /\ u \in todo /\ ~NeedsAlbum(u)
  /\ todo' = todo \ {u}
  /\ fate' = [fate EXCEPT ![<<current, u>>] = "saved"]
  /\ UNCHANGED <<debounceVars, channel, current, received, crashed, watching, albumVars>>

(* The rule's storage or the task queue refuses the file. *)
SaveFileFails(u) ==
  /\ u \in todo /\ ~NeedsAlbum(u)
  /\ todo' = todo \ {u}
  /\ fate' = [fate EXCEPT ![<<current, u>>] = "failed"]
  /\ UNCHANGED <<debounceVars, channel, current, received, crashed, watching, albumVars>>

AlbumTimerExpires(c) ==
  /\ Album!Expire(c)
  /\ UNCHANGED <<debounceVars, channel, listenerVars, watching, fate>>

AlbumTaken(c) ==
  /\ Album!TakeGroup(c)
  /\ UNCHANGED <<debounceVars, channel, listenerVars, watching, fate>>

Batch(c) == {userTaken[c][i] : i \in DOMAIN userTaken[c]}

(* The files of the same album among those whose storage the rules found. *)
SameAlbum(d, usable) == {e \in usable : AlbumOf[e[1][1]] = AlbumOf[d[1][1]]}

WorthSaving(d, usable) == Cardinality(SameAlbum(d, usable)) > 1

(* processWatchMediaGroup: an album of which only one file is there is passed over. *)
ProcessWatchMediaGroup(c) ==
  /\ albumPhase[c] = "done"
  /\ \E d \in Batch(c) : fate[d] = "collecting"
  /\ \E usable \in SUBSET Batch(c) : \E refused \in SUBSET usable :
       fate' = [d \in Copies |->
            CASE d \notin Batch(c) -> fate[d]
              [] d \in Batch(c) \ usable -> "failed"
              [] d \in usable /\ ~WorthSaving(d, usable) -> "dropped"
              [] d \in refused /\ WorthSaving(d, usable) -> "failed"
              [] OTHER -> "saved"]
  /\ UNCHANGED <<debounceVars, channel, listenerVars, watching, albumVars>>

(* /watch and /unwatch, whose writes UserSettings has step by step. *)
ToggleWatch(u) ==
  /\ watching' = IF u \in watching THEN watching \ {u} ELSE watching \union {u}
  /\ UNCHANGED <<debounceVars, channel, listenerVars, fate, albumVars>>

Listen == Receive \/ ReceiveFails \/ NextEvent
HandleUser(u) == SkipUser(u) \/ CollectForAlbum(u) \/ SaveFile(u) \/ SaveFileFails(u)
Callback(f) == EventTimerExpires(f) \/ TakeEvent(f) \/ SendEvent(f)
AlbumCallback(c) == AlbumTimerExpires(c) \/ AlbumTaken(c) \/ ProcessWatchMediaGroup(c)

WatchNext ==
  /\ ~crashed
  /\ \/ \E m \in Msgs : SendMediaMessageEvent(m)
     \/ \E f \in Files : Callback(f)
     \/ Listen
     \/ \E u \in Users : HandleUser(u) \/ ToggleWatch(u)
     \/ \E c \in Copies : AlbumCallback(c)

WatchSpec == WatchInit /\ [][WatchNext]_watchVars

(* The process runs on: timers expire, their callbacks run and the listener takes its turns. *)
WatchFairSpec ==
  /\ WatchSpec
  /\ \A f \in Files : WF_watchVars(~crashed /\ Callback(f))
  /\ WF_watchVars(~crashed /\ Listen)
  /\ \A u \in Users : WF_watchVars(~crashed /\ HandleUser(u))

-----------------------------------------------------------------------------
Fates == {"none", "skipped", "collecting", "saved", "dropped", "failed"}

WatchTypes ==
  /\ \A m \in Msgs : deliveries[m] \in 0 .. Deliveries[m] /\ events[m] \in 0 .. deliveries[m] /\ msgTimers[m] \in 0 .. deliveries[m]
  /\ msgPhase \in [Files -> {"unused", "armed", "stopped", "fired", "sending", "done"}]
  /\ Len(channel) <= ChanCap
  /\ current \in Files \union {NoEvent} /\ todo \subseteq Users
  /\ fate \in [Copies -> Fates]

(* The zero event, on which the listener panics, needs a timer that was stopped too late:    *)
(* a message delivered again between the expiry of its timer and the callback.               *)
EmptyNeedsRace ==
  /\ \A f \in Files : msgPhase[f] = "sending" /\ payload[f][2] = 0 => f[1] \in late
  /\ crashed => late # {}

(* However deliveries, expiries and callbacks interleave, the listener sees a file once. *)
ReceivedOnce == \A f \in Files : received[f] <= 1

(* What the listener of a watched chat is given: one event for a file, and none that is empty *)
(* but after the race.                                                                        *)
WatchInv == WatchTypes /\ EmptyNeedsRace /\ ReceivedOnce

(* A message that is delivered reaches the listener, unless the process dies. *)
MessageReceived ==
  \A m \in Msgs : (deliveries[m] > 0) ~> (crashed \/ \E f \in Files : f[1] = m /\ received[f] > 0)
=============================================================================
