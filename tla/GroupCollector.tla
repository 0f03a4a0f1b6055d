--------------------------- MODULE GroupCollector ---------------------------
(***************************************************************************)
(* Collecting the files of one album behind a timer.  Telegram delivers an *)
(* album as separate messages, so the handlers append each file to a group *)
(* under a mutex and restart the group's timer; the timer's callback takes *)
(* the group.  The same code stands twice in the repository, in            *)
(* client/bot/handlers/media_group.go (one group per chat, sender and      *)
(* album) and in client/bot/handlers/watch.go (one group per chat and      *)
(* user): the key is a parameter here.                                     *)
(*                                                                         *)
(* time.AfterFunc arms one timer for each file, so the file names its      *)
(* timer.  Timer.Stop does not wait for a callback that has started: a     *)
(* timer that has "fired" runs its callback whatever happens later.        *)
(***************************************************************************)
EXTENDS Sequences, SequencesExt

CONSTANTS Items,    \* the files that may arrive
          Keys,     \* the groups
          KeyOf,    \* the group of each file
          None      \* no timer

ASSUME KeyOfAssumption == KeyOf \in [Items -> Keys]
ASSUME NoTimerAssumption == None \notin Items

VARIABLES groups,   \* the files waiting in each group
          timers,   \* the timer each group remembers
          phase,    \* what became of the timer of each file
          taken,    \* the files each callback took
          seen,     \* history: the arrivals of each group
          handed,   \* history: the files of each group that were taken
          raced     \* history: groups a file reached after an expiry and before its callback

collectorVars == <<groups, timers, phase, taken, seen, handed, raced>>

Phases == {"unused", "armed", "stopped", "fired", "done"}

CollectorInit ==
  /\ groups = [k \in Keys |-> <<>>]
  /\ timers = [k \in Keys |-> None]
  /\ phase = [i \in Items |-> "unused"]
  /\ taken = [i \in Items |-> <<>>]
  /\ seen = [k \in Keys |-> <<>>]
  /\ handed = [k \in Keys |-> <<>>]
  /\ raced = {}

-----------------------------------------------------------------------------
(* Rearm without its Stop, for comparison. *)
NeverStopped(t, i) == [phase EXCEPT ![i] = "armed"]

(* timer.Stop() on the group's timer t, then time.AfterFunc for file i. *)
Rearm(t, i) ==
  [j \in Items |-> CASE j = i -> "armed"
                     [] j = t /\ phase[j] = "armed" -> "stopped"
                     [] OTHER -> phase[j]]

(* The critical section that adds file i to its group. *)
AddFile(i) ==
  LET k == KeyOf[i] IN
  /\ phase[i] = "unused"
  /\ groups' = [groups EXCEPT ![k] = Append(@, i)]
  /\ phase' = Rearm(timers[k], i)
  /\ timers' = [timers EXCEPT ![k] = i]
  /\ seen' = [seen EXCEPT ![k] = Append(@, i)]
  /\ raced' = IF \E j \in Items : KeyOf[j] = k /\ phase[j] = "fired" THEN raced \union {k} ELSE raced
  /\ UNCHANGED <<taken, handed>>

(* The timer of file i expires: its callback starts and waits for the mutex. *)
Expire(i) ==
  /\ phase[i] = "armed"
  /\ phase' = [phase EXCEPT ![i] = "fired"]
  /\ UNCHANGED <<groups, timers, taken, seen, handed, raced>>

KeepsGroup(k) == groups[k]
Emptied(k) == <<>>

Grabbed(k) == groups[k]

(* The critical section of the callback: it takes the group and forgets the group's timer,   *)
(* which may by now be the timer of a later file.                                            *)
TakeGroup(i) ==
  LET k == KeyOf[i] IN
  /\ phase[i] = "fired"
  /\ taken' = [taken EXCEPT ![i] = Grabbed(k)]
  /\ handed' = [handed EXCEPT ![k] = @ \o Grabbed(k)]
  /\ groups' = [groups EXCEPT ![k] = Emptied(k)]
  /\ timers' = [timers EXCEPT ![k] = None]
  /\ phase' = [phase EXCEPT ![i] = "done"]
  /\ UNCHANGED <<seen, raced>>

CollectorNext == \E i \in Items : AddFile(i) \/ Expire(i) \/ TakeGroup(i)

CollectorFairness == \A i \in Items : WF_collectorVars(Expire(i)) /\ WF_collectorVars(TakeGroup(i))

CollectorSpec == CollectorInit /\ [][CollectorNext]_collectorVars /\ CollectorFairness

-----------------------------------------------------------------------------
CollectorTypes ==
  /\ groups \in [Keys -> Seq(Items)]
  /\ timers \in [Keys -> Items \union {None}]
  /\ phase \in [Items -> Phases]
  /\ taken \in [Items -> Seq(Items)]
  /\ seen \in [Keys -> Seq(Items)]
  /\ handed \in [Keys -> Seq(Items)]
  /\ raced \subseteq Keys

(* Each file that arrived is waiting or was taken, exactly once and in the order of arrival, *)
(* however the handlers of an album interleave with the callbacks of its timers.             *)
NothingLost == \A k \in Keys : seen[k] = handed[k] \o groups[k]

(* A group that holds files has a callback on its way: a timer of the group is armed or has  *)
(* fired, so a Stop that came too late, or a callback that forgets the timer of a later      *)
(* file, never strands the files of an album.                                                *)
NeverStranded ==
  \A k \in Keys : groups[k] # <<>> => \E i \in Items : KeyOf[i] = k /\ phase[i] \in {"armed", "fired"}

(* No file of an album is lost or left behind, whatever its handlers and timers do. *)
AlbumInv == NothingLost /\ NeverStranded

(* The timeout counts from the newest file: a group is taken by the timer of its last file,  *)
(* unless a file slipped in between an expiry and its callback.                              *)
CountsFromNewest ==
  \A i \in Items : taken[i] # <<>> /\ KeyOf[i] \notin raced => Last(taken[i]) = i
=============================================================================
