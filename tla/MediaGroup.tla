----------------------------- MODULE MediaGroup -----------------------------
(***************************************************************************)
(* Albums sent to the bot: client/bot/handlers/media_group.go collects the *)
(* files of an album (GroupCollector, one group per album) and, once the   *)
(* timer has taken them, saves them at once (silent mode) or asks for a    *)
(* storage.  The silent branch calls the shortcuts of                      *)
(* client/bot/handlers/utils/shortcut/tftask.go, which apply the user's    *)
(* rules; the rule of interest is IS-ALBUM with NEW-FOR-ALBUM, a folder of *)
(* its own for each album.                                                 *)
(***************************************************************************)
EXTENDS GroupCollector

CONSTANT AlbumRule      \* whether the user has the rule "IS-ALBUM true <storage> NEW-FOR-ALBUM"

ASSUME AlbumRuleAssumption == AlbumRule \in BOOLEAN

VARIABLES place         \* what became of each file: see Places

vars == <<collectorVars, place>>

(* A file is saved below a folder named after a file, below the folder the rule's word       *)
(* literally names, or in the default folder; or its fate is in the user's hands, or an      *)
(* error was reported.                                                                       *)
Folders == Items \union {"NEW-FOR-ALBUM", "default"}
Places == Folders \union {"collecting", "asked", "failed"}

Init == CollectorInit /\ place = [i \in Items |-> "collecting"]

(* handleGroupMediaMessage, from the critical section on. *)
HandleGroupMediaMessage(i) == AddFile(i) /\ UNCHANGED place

TimerExpires(i) == Expire(i) /\ UNCHANGED place

(* processMediaGroup takes the items; with none it returns. *)
ProcessMediaGroup(i) == TakeGroup(i) /\ UNCHANGED place

(* CreateAndAddTGFileTaskWithEdit uses the rule's path as it stands. *)
SingleFolder(batch) == IF AlbumRule THEN "NEW-FOR-ALBUM" ELSE "default"

(* CreateAndAddBatchTGFileTaskWithEdit names the folder after the album's first file. *)
AlbumFolder(batch) == IF AlbumRule THEN Head(batch) ELSE "default"

FirstSettled(i, fate) == [place EXCEPT ![taken[i][1]] = fate]
Settle(i, fate) == [j \in Items |-> IF \E n \in DOMAIN taken[i] : taken[i][n] = j THEN fate ELSE place[j]]

Unsettled(i) ==
  /\ phase[i] = "done"
  /\ taken[i] # <<>>
  /\ place[taken[i][1]] = "collecting"

(* Silent mode: one file becomes a file task, several become a batch task. *)
SaveSilently(i) ==
  /\ Unsettled(i)
  /\ place' = Settle(i, IF Len(taken[i]) = 1 THEN SingleFolder(taken[i]) ELSE AlbumFolder(taken[i]))
  /\ UNCHANGED collectorVars

AskForStorage(i) ==
  /\ Unsettled(i)
  /\ place' = Settle(i, "asked")
  /\ UNCHANGED collectorVars

(* The reply, the keyboard, the user's record or the task queue failed. *)
GiveUp(i) ==
  /\ Unsettled(i)
  /\ place' = Settle(i, "failed")
  /\ UNCHANGED collectorVars

Finish(i) == SaveSilently(i) \/ AskForStorage(i) \/ GiveUp(i)

Next == \E i \in Items : HandleGroupMediaMessage(i) \/ TimerExpires(i) \/ ProcessMediaGroup(i) \/ Finish(i)

Spec == Init /\ [][Next]_vars

(* A timer expires and its callback runs to its end.  Nothing says that a file arrives. *)
FairSpec ==
  /\ Spec
  /\ \A i \in Items : WF_vars(TimerExpires(i)) /\ WF_vars(ProcessMediaGroup(i)) /\ WF_vars(Finish(i))

-----------------------------------------------------------------------------
TypeOK == CollectorTypes /\ place \in [Items -> Places]

(* Every file that arrives is saved, put to the user, or reported as failed. *)
EveryFileSettles == \A i \in Items : (phase[i] # "unused") ~> (place[i] # "collecting")
=============================================================================
