--------------------------- MODULE TelegramProofs ---------------------------
(***************************************************************************)
(* Files that Telegram delivers one by one, behind timers that are stopped *)
(* too late.                                                               *)
(*                                                                         *)
(* The collector of albums loses no file, hands none out twice, never      *)
(* strands a group and counts its timeout from the newest file, for every  *)
(* set of files and groups.  The inductive invariant says who still has a  *)
(* timer: Awaited, that the newest file of a waiting group does; Lone,     *)
(* that in a group no race has touched nobody else does.                   *)
(*                                                                         *)
(* The debounce of a watched chat hands each event on once.  An event is   *)
(* in the map, with a callback, in the channel or received, in one place   *)
(* (InOnePlace); which timers may run without an event is what a late stop *)
(* leaves behind (TimersKeepEvents).                                       *)
(***************************************************************************)
EXTENDS MediaGroup, ChatWatch, TLAPS, SequenceTheorems

USE KeyOfAssumption, NoTimerAssumption DEF KeyOfAssumption, NoTimerAssumption

(* The files of a group and the timer it remembers belong to it. *)
OwnFiles ==
  /\ \A k \in Keys : \A n \in DOMAIN groups[k] : KeyOf[groups[k][n]] = k
  /\ \A k \in Keys : timers[k] # None => KeyOf[timers[k]] = k

Awaited == \A k \in Keys : groups[k] # <<>> => phase[Last(groups[k])] \in {"armed", "fired"}

Lone ==
  \A i \in Items : phase[i] \in {"armed", "fired"} /\ KeyOf[i] \notin raced =>
    /\ groups[KeyOf[i]] # <<>>
    /\ i = Last(groups[KeyOf[i]])
    /\ phase[i] = "armed" => timers[KeyOf[i]] = i

IInv == CollectorTypes /\ NothingLost /\ OwnFiles /\ Awaited /\ Lone /\ CountsFromNewest

LEMMA AppendFacts ==
  ASSUME NEW S, NEW s \in Seq(S), NEW x \in S
  PROVE  /\ Append(s, x) \in Seq(S)
         /\ Append(s, x) # <<>>
         /\ Last(Append(s, x)) = x
         /\ \A n \in DOMAIN Append(s, x) : Append(s, x)[n] = x \/ (n \in DOMAIN s /\ Append(s, x)[n] = s[n])
<1>1. /\ Append(s, x) \in Seq(S) /\ Len(Append(s, x)) = Len(s) + 1
      /\ Append(s, x)[Len(s) + 1] = x
      /\ \A n \in 1 .. Len(s) : Append(s, x)[n] = s[n]
  OBVIOUS
<1>2. DOMAIN Append(s, x) = 1 .. Len(s) + 1 /\ DOMAIN s = 1 .. Len(s) /\ Len(s) \in Nat
  BY <1>1
<1>3. Append(s, x) # <<>>
  BY <1>1
<1>4. Last(Append(s, x)) = x
  BY <1>1 DEF Last
<1>5. \A n \in DOMAIN Append(s, x) : Append(s, x)[n] = x \/ (n \in DOMAIN s /\ Append(s, x)[n] = s[n])
  BY <1>1, <1>2
<1> QED
  BY <1>1, <1>3, <1>4, <1>5

LEMMA LastInside ==
  ASSUME NEW S, NEW s \in Seq(S), s # <<>>
  PROVE  Len(s) \in DOMAIN s /\ Last(s) = s[Len(s)] /\ Last(s) \in S
<1>1. Len(s) \in Nat \ {0} /\ DOMAIN s = 1 .. Len(s)
  BY EmptySeq, LenProperties
<1> QED
  BY <1>1, ElementOfSeq DEF Last

-----------------------------------------------------------------------------
LEMMA CollectorStarts == CollectorInit => IInv
<1> SUFFICES ASSUME CollectorInit PROVE IInv
  OBVIOUS
<1>1. CollectorTypes
  BY DEF CollectorInit, CollectorTypes, Phases
<1>2. NothingLost
  BY ConcatEmptySeq DEF CollectorInit, NothingLost
<1>3. OwnFiles /\ Awaited /\ Lone /\ CountsFromNewest
  BY DEF CollectorInit, OwnFiles, Awaited, Lone, CountsFromNewest
<1> QED
  BY <1>1, <1>2, <1>3 DEF IInv

LEMMA AddFilePreserves ==
  ASSUME IInv, NEW i \in Items, AddFile(i)
  PROVE  IInv'
<1> DEFINE k == KeyOf[i]
           g == Append(groups[k], i)
<1> USE DEF IInv
<1>0. /\ k \in Keys
      /\ groups[k] \in Seq(Items)
      /\ timers[k] \in Items \union {None}
      /\ phase[i] = "unused"
  BY DEF CollectorTypes, AddFile
<1>1. /\ groups' = [groups EXCEPT ![k] = g]
      /\ timers' = [timers EXCEPT ![k] = i]
      /\ seen' = [seen EXCEPT ![k] = Append(seen[k], i)]
      /\ taken' = taken /\ handed' = handed
      /\ raced \subseteq raced'
      /\ raced' \subseteq raced \union {k}
      /\ k \notin raced' => \A j \in Items : KeyOf[j] = k => phase[j] # "fired"
  BY DEF AddFile
<1>2. /\ phase' = Rearm(timers[k], i)
      /\ phase'[i] = "armed"
      /\ \A j \in Items : j # i => phase'[j] = IF j = timers[k] /\ phase[j] = "armed" THEN "stopped" ELSE phase[j]
  BY DEF AddFile, Rearm
<1>3. /\ g \in Seq(Items)
      /\ g # <<>>
      /\ Last(g) = i
      /\ \A n \in DOMAIN g : g[n] = i \/ (n \in DOMAIN groups[k] /\ g[n] = groups[k][n])
  BY <1>0, AppendFacts
<1>4. /\ groups'[k] = g
      /\ \A kk \in Keys : kk # k => groups'[kk] = groups[kk]
      /\ timers'[k] = i
      /\ \A kk \in Keys : kk # k => timers'[kk] = timers[kk]
  BY <1>0, <1>1 DEF CollectorTypes
<1> HIDE DEF g
<1>5. CollectorTypes'
  <2>1. phase' \in [Items -> Phases]
    BY <1>2 DEF CollectorTypes, Phases, Rearm
  <2>2. seen' \in [Keys -> Seq(Items)]
    BY <1>0, <1>1 DEF CollectorTypes
  <2> QED
    BY <1>0, <1>1, <1>3, <2>1, <2>2 DEF CollectorTypes
<1>6. NothingLost'
  <2>0. handed[k] \in Seq(Items)
    BY <1>0 DEF CollectorTypes
  <2>1. \A s, t \in Seq(Items) : \A x \in Items : Append(s \o t, x) = s \o Append(t, x)
    OBVIOUS
  <2>2. Append(handed[k] \o groups[k], i) = handed[k] \o g
    BY <1>0, <2>0, <2>1, Zenon DEF g
  <2> QED
    BY <1>0, <1>1, <1>4, <2>2 DEF NothingLost, CollectorTypes
<1>7. OwnFiles'
  <2>1. ASSUME NEW kk \in Keys, NEW n \in DOMAIN groups'[kk]
        PROVE  KeyOf[groups'[kk][n]] = kk
    <3>1. CASE kk = k
      <4>1. groups'[kk] = g /\ n \in DOMAIN g
        BY <3>1, <1>4
      <4>2. g[n] = i \/ (n \in DOMAIN groups[k] /\ g[n] = groups[k][n])
        BY <4>1, <1>3
      <4> QED
        BY <3>1, <4>1, <4>2, <1>0 DEF OwnFiles
    <3>2. CASE kk # k
      BY <3>2, <1>4 DEF OwnFiles
    <3> QED
      BY <3>1, <3>2
  <2>2. \A kk \in Keys : timers'[kk] # None => KeyOf[timers'[kk]] = kk
    BY <1>0, <1>4 DEF OwnFiles
  <2> QED
    BY <2>1, <2>2 DEF OwnFiles
<1>8. Awaited'
  <2> SUFFICES ASSUME NEW kk \in Keys, groups'[kk] # <<>>
               PROVE  phase'[Last(groups'[kk])] \in {"armed", "fired"}
    BY DEF Awaited
  <2>1. CASE kk = k
    BY <2>1, <1>2, <1>3, <1>4
  <2>2. CASE kk # k
    <3>1. groups'[kk] = groups[kk] /\ groups[kk] \in Seq(Items) /\ groups[kk] # <<>>
      BY <2>2, <1>4 DEF CollectorTypes
    <3>2. Last(groups[kk]) \in Items /\ KeyOf[Last(groups[kk])] = kk
      BY <3>1, LastInside DEF OwnFiles
    <3>3. Last(groups[kk]) # i /\ Last(groups[kk]) # timers[k]
      BY <3>2, <2>2, <1>0 DEF OwnFiles
    <3> QED
      BY <3>1, <3>2, <3>3, <1>2 DEF Awaited
  <2> QED
    BY <2>1, <2>2
<1>9. Lone'
  <2> SUFFICES ASSUME NEW j \in Items, phase'[j] \in {"armed", "fired"}, KeyOf[j] \notin raced'
               PROVE  /\ groups'[KeyOf[j]] # <<>>
                      /\ j = Last(groups'[KeyOf[j]])
                      /\ phase'[j] = "armed" => timers'[KeyOf[j]] = j
    BY DEF Lone
  <2>1. CASE j = i
    BY <2>1, <1>3, <1>4
  <2>2. CASE j # i /\ KeyOf[j] = k
    <3>1. phase[j] \in {"armed", "fired"} /\ phase[j] # "fired" /\ k \notin raced
      BY <2>2, <1>1, <1>2
    <3>2. timers[k] = j
      BY <2>2, <3>1 DEF Lone
    <3> QED
      BY <2>2, <3>1, <3>2, <1>2
  <2>3. CASE j # i /\ KeyOf[j] # k
    <3>2. phase[j] = phase'[j] /\ KeyOf[j] \notin raced
      BY <2>3, <1>1, <1>2
    <3> QED
      BY <2>3, <3>2, <1>4 DEF Lone
  <2> QED
    BY <2>1, <2>2, <2>3
<1>10. CountsFromNewest'
  BY <1>1 DEF CountsFromNewest
<1> QED
  BY <1>5, <1>6, <1>7, <1>8, <1>9, <1>10

LEMMA ExpirePreserves ==
  ASSUME IInv, NEW i \in Items, Expire(i)
  PROVE  IInv'
<1> USE DEF IInv
<1>1. /\ UNCHANGED <<groups, timers, taken, seen, handed, raced>>
      /\ phase' = [phase EXCEPT ![i] = "fired"]
      /\ phase[i] = "armed"
      /\ phase'[i] = "fired"
      /\ \A j \in Items : j # i => phase'[j] = phase[j]
  BY DEF Expire, CollectorTypes
<1>2. CollectorTypes'
  BY <1>1 DEF CollectorTypes, Phases
<1>3. NothingLost' /\ OwnFiles' /\ CountsFromNewest'
  BY <1>1 DEF NothingLost, OwnFiles, CountsFromNewest
<1>4. Awaited'
  <2> SUFFICES ASSUME NEW k \in Keys, groups[k] # <<>>
               PROVE  phase'[Last(groups[k])] \in {"armed", "fired"}
    BY <1>1 DEF Awaited
  <2>1. Last(groups[k]) \in Items /\ phase[Last(groups[k])] \in {"armed", "fired"}
    BY LastInside DEF Awaited, CollectorTypes
  <2> QED
    BY <2>1, <1>1
<1>5. Lone'
  BY <1>1 DEF Lone
<1> QED
  BY <1>2, <1>3, <1>4, <1>5

LEMMA TakeGroupPreserves ==
  ASSUME IInv, NEW i \in Items, TakeGroup(i)
  PROVE  IInv'
<1> DEFINE k == KeyOf[i]
<1> USE DEF IInv
<1>1. /\ k \in Keys
      /\ groups[k] \in Seq(Items)
      /\ phase[i] = "fired"
      /\ groups' = [groups EXCEPT ![k] = <<>>]
      /\ timers' = [timers EXCEPT ![k] = None]
      /\ taken' = [taken EXCEPT ![i] = groups[k]]
      /\ handed' = [handed EXCEPT ![k] = handed[k] \o groups[k]]
      /\ phase' = [phase EXCEPT ![i] = "done"]
      /\ seen' = seen /\ raced' = raced
  BY DEF TakeGroup, Grabbed, Emptied, CollectorTypes
<1>2. /\ groups'[k] = <<>>
      /\ \A kk \in Keys : kk # k => groups'[kk] = groups[kk] /\ timers'[kk] = timers[kk] /\ handed'[kk] = handed[kk]
      /\ timers'[k] = None
      /\ handed'[k] = handed[k] \o groups[k]
      /\ phase'[i] = "done"
      /\ \A j \in Items : j # i => phase'[j] = phase[j]
      /\ taken'[i] = groups[k]
      /\ \A j \in Items : j # i => taken'[j] = taken[j]
  BY <1>1 DEF CollectorTypes
<1>3. handed[k] \in Seq(Items) /\ handed'[k] \in Seq(Items)
  BY <1>1, <1>2, ConcatProperties DEF CollectorTypes
<1>4. CollectorTypes'
  <2>1. <<>> \in Seq(Items)
    BY EmptySeq
  <2>2. handed' \in [Keys -> Seq(Items)] /\ groups' \in [Keys -> Seq(Items)]
    BY <1>1, <1>2, <1>3, <2>1 DEF CollectorTypes
  <2> QED
    BY <1>1, <2>2 DEF CollectorTypes, Phases
<1>5. NothingLost'
  <2>1. handed'[k] \o <<>> = handed'[k]
    BY <1>3, ConcatEmptySeq
  <2> QED
    BY <1>1, <1>2, <2>1 DEF NothingLost
<1>6. OwnFiles'
  BY <1>1, <1>2 DEF OwnFiles
<1>7. Awaited'
  <2> SUFFICES ASSUME NEW kk \in Keys, kk # k, groups[kk] # <<>>
               PROVE  phase'[Last(groups[kk])] \in {"armed", "fired"}
    BY <1>2 DEF Awaited
  <2>1. groups[kk] \in Seq(Items)
    BY DEF CollectorTypes
  <2>2. Last(groups[kk]) \in Items /\ KeyOf[Last(groups[kk])] = kk
    BY <2>1, LastInside DEF OwnFiles
  <2> QED
    BY <2>2, <1>2 DEF Awaited
<1>8. Lone'
  <2> SUFFICES ASSUME NEW j \in Items, phase'[j] \in {"armed", "fired"}, KeyOf[j] \notin raced
               PROVE  /\ groups'[KeyOf[j]] # <<>>
                      /\ j = Last(groups'[KeyOf[j]])
                      /\ phase'[j] = "armed" => timers'[KeyOf[j]] = j
    BY <1>1 DEF Lone
  <2>1. j # i /\ phase[j] \in {"armed", "fired"} /\ KeyOf[j] \in Keys
    BY <1>2
  <2>2. KeyOf[j] # k
    <3> SUFFICES ASSUME KeyOf[j] = k PROVE FALSE
      OBVIOUS
    <3> QED
      BY <2>1, <1>1 DEF Lone
  <2> QED
    BY <2>1, <2>2, <1>2 DEF Lone
<1>9. CountsFromNewest'
  <2> SUFFICES ASSUME NEW j \in Items, taken'[j] # <<>>, KeyOf[j] \notin raced
               PROVE  Last(taken'[j]) = j
    BY <1>1 DEF CountsFromNewest
  <2>1. CASE j = i
    BY <2>1, <1>1, <1>2 DEF Lone
  <2>2. CASE j # i
    BY <2>2, <1>2 DEF CountsFromNewest
  <2> QED
    BY <2>1, <2>2
<1> QED
  BY <1>4, <1>5, <1>6, <1>7, <1>8, <1>9

LEMMA CollectorStands ==
  ASSUME IInv, UNCHANGED collectorVars
  PROVE  IInv'
  BY DEF collectorVars, IInv, CollectorTypes, NothingLost, OwnFiles, Awaited, Lone, CountsFromNewest

-----------------------------------------------------------------------------
LEMMA NextPreserves ==
  ASSUME IInv, [Next]_vars
  PROVE  IInv'
<1>1. CASE UNCHANGED vars
  BY <1>1, CollectorStands DEF vars
<1>2. ASSUME NEW i \in Items, HandleGroupMediaMessage(i)
      PROVE  IInv'
  BY <1>2, AddFilePreserves DEF HandleGroupMediaMessage
<1>3. ASSUME NEW i \in Items, TimerExpires(i)
      PROVE  IInv'
  BY <1>3, ExpirePreserves DEF TimerExpires
<1>4. ASSUME NEW i \in Items, ProcessMediaGroup(i)
      PROVE  IInv'
  BY <1>4, TakeGroupPreserves DEF ProcessMediaGroup
<1>5. ASSUME NEW i \in Items, Finish(i)
      PROVE  IInv'
  BY <1>5, CollectorStands DEF Finish, SaveSilently, AskForStorage, GiveUp
<1> QED
  BY <1>1, <1>2, <1>3, <1>4, <1>5 DEF Next

(* The inductive invariant holds of every behaviour. *)
THEOREM CollectorInvariant == Spec => []IInv
<1>1. Init => IInv
  BY CollectorStarts DEF Init
<1>2. IInv /\ [Next]_vars => IInv'
  BY NextPreserves
<1> QED
  BY <1>1, <1>2, PTL DEF Spec

(* Every file that arrived waits in its group or was handed out, once and in order. *)
THEOREM FilesHandedOnce == Spec => []NothingLost
<1>1. IInv => NothingLost
  BY DEF IInv
<1> QED
  BY <1>1, CollectorInvariant, PTL

(* A group that holds files always has a callback on its way. *)
THEOREM GroupsAwaited == Spec => []NeverStranded
<1>1. IInv => NeverStranded
  <2> SUFFICES ASSUME IInv, NEW k \in Keys, groups[k] # <<>>
               PROVE  \E i \in Items : KeyOf[i] = k /\ phase[i] \in {"armed", "fired"}
    BY DEF NeverStranded
  <2>1. groups[k] \in Seq(Items)
    BY DEF IInv, CollectorTypes
  <2>2. Last(groups[k]) \in Items /\ KeyOf[Last(groups[k])] = k
    BY <2>1, LastInside DEF IInv, OwnFiles
  <2> QED
    BY <2>2 DEF IInv, Awaited
<1> QED
  BY <1>1, CollectorInvariant, PTL

(* Without a race between an expiry and its callback, only the newest file's timer hands out. *)
THEOREM NewestFileCounts == Spec => []CountsFromNewest
<1>1. IInv => CountsFromNewest
  BY DEF IInv
<1> QED
  BY <1>1, CollectorInvariant, PTL
(* The collector loses no file of an album and leaves none behind. *)
THEOREM AlbumsComplete == Spec => []AlbumInv
<1>1. NothingLost /\ NeverStranded => AlbumInv
  BY DEF AlbumInv
<1> QED
  BY <1>1, FilesHandedOnce, GroupsAwaited, PTL

-----------------------------------------------------------------------------
(* The watched chat (ChatWatch). *)
Events == Files \union {Empty(m) : m \in Msgs}

WatchShape ==
  /\ WatchTypes
  /\ deliveries \in [Msgs -> Nat] /\ events \in [Msgs -> Nat] /\ msgTimers \in [Msgs -> Nat]
  /\ payload \in [Files -> Events] /\ \A f \in Files : payload[f][1] = f[1]
  /\ channel \in Seq(Events)
  /\ received \in [Files -> Nat] /\ late \subseteq Msgs /\ watching \subseteq Users
  /\ todo # {} => current # NoEvent

(* The places where an event may be on its way to the listener. *)
Kept(x) == events[x[1]] = x[2]
Carries(f, x) == msgPhase[f] = "sending" /\ payload[f] = x
Queued(x) == \E i \in DOMAIN channel : channel[i] = x
Nowhere(x) == (\A f \in Files : ~Carries(f, x)) /\ ~Queued(x) /\ received[x] = 0

(* An event is in one place, once; one that was not delivered yet is nowhere. *)
InOnePlace(x) ==
  /\ Kept(x) \/ x[2] > deliveries[x[1]] => Nowhere(x)
  /\ \A f \in Files : Carries(f, x) => ~Queued(x) /\ received[x] = 0
  /\ \A f, g \in Files : Carries(f, x) /\ Carries(g, x) => f = g
  /\ \A i, j \in DOMAIN channel : channel[i] = x /\ channel[j] = x => i = j
  /\ Queued(x) => received[x] = 0
  /\ received[x] <= 1

(* A timer is remembered together with an event; and where no timer was stopped too late, *)
(* the one that is armed or has fired is the one remembered.                              *)
TimersKeepEvents ==
  /\ \A m \in Msgs : msgTimers[m] # 0 => events[m] # 0
  /\ \A f \in Files : msgPhase[f] \in {"armed", "fired"} /\ f[1] \notin late => msgTimers[f[1]] = f[2]

QueuedEmptyLate == \A i \in DOMAIN channel : channel[i][2] = 0 => channel[i][1] \in late

WatchIInv ==
  /\ WatchShape
  /\ \A x \in Files : InOnePlace(x)
  /\ TimersKeepEvents /\ QueuedEmptyLate /\ EmptyNeedsRace

LEMMA FileParts ==
  /\ \A f \in Files : f = <<f[1], f[2]>> /\ f[1] \in Msgs /\ f[2] \in 1 .. Deliveries[f[1]]
                      /\ f[2] \in Nat /\ f[2] # 0 /\ Deliveries[f[1]] \in Nat
  /\ \A m \in Msgs : \A n \in 1 .. Deliveries[m] : <<m, n>> \in Files
  <1>1. \A f \in Files : \E m \in Msgs : \E n \in 1 .. Deliveries[m] : f = <<m, n>>
    BY DEF Files
  <1>2. \A m \in Msgs : \A n \in 1 .. Deliveries[m] : <<m, n>> \in Files
    BY DEF Files
  <1>3. \A m \in Msgs : Deliveries[m] \in Nat
    BY ChatWatchAssumption DEF ChatWatchAssumption
  <1> QED  BY <1>1, <1>2, <1>3

LEMMA EventParts ==
  /\ \A x \in Events : x = <<x[1], x[2]>> /\ x[1] \in Msgs /\ x[2] \in Nat /\ (x[2] # 0 => x \in Files)
  /\ \A m \in Msgs : \A n \in 0 .. Deliveries[m] : <<m, n>> \in Events
  <1>1. \A x \in Events : x \in Files \/ \E m \in Msgs : x = <<m, 0>>
    BY DEF Events, Empty
  <1>2. \A m \in Msgs : <<m, 0>> \in Events
    BY DEF Events, Empty
  <1>3. \A m \in Msgs : \A n \in 0 .. Deliveries[m] : n = 0 \/ n \in 1 .. Deliveries[m]
    BY ChatWatchAssumption DEF ChatWatchAssumption
  <1>4. Files \subseteq Events
    BY DEF Events
  <1>5. \A m \in Msgs : \A n \in 0 .. Deliveries[m] : <<m, n>> \in Events
    BY <1>2, <1>3, <1>4, FileParts
  <1> QED  BY <1>1, <1>5, FileParts

LEMMA TailFacts ==
  ASSUME NEW S, NEW s \in Seq(S), s # <<>>
  PROVE  /\ Head(s) = s[1] /\ 1 \in DOMAIN s /\ Head(s) \in S
         /\ Tail(s) \in Seq(S) /\ Len(Tail(s)) = Len(s) - 1 /\ Len(s) \in Nat \ {0}
         /\ \A i \in DOMAIN Tail(s) : i \in Nat \ {0} /\ i + 1 \in DOMAIN s /\ Tail(s)[i] = s[i + 1]
  <1>1. Len(s) \in Nat \ {0} /\ DOMAIN s = 1 .. Len(s)
    BY EmptySeq, LenProperties
  <1>2. Tail(s) \in Seq(S) /\ Len(Tail(s)) = Len(s) - 1 /\ \A i \in 1 .. Len(s) - 1 : Tail(s)[i] = s[i + 1]
    BY <1>1, HeadTailProperties
  <1>3. DOMAIN Tail(s) = 1 .. Len(s) - 1
    BY <1>2, LenProperties
  <1>4. Head(s) = s[1] /\ Head(s) \in S
    BY <1>1, HeadTailProperties, ElementOfSeq
  <1> QED  BY <1>1, <1>2, <1>3, <1>4

LEMMA WatchStarts == WatchInit => WatchIInv
  <1> SUFFICES ASSUME WatchInit PROVE WatchIInv
    OBVIOUS
  <1>1. WatchTypes
    <2>1. \A m \in Msgs : 0 \in 0 .. Deliveries[m] /\ 0 \in 0 .. 0
      BY ChatWatchAssumption DEF ChatWatchAssumption
    <2>2. Len(<<>>) <= ChanCap
      BY ChatWatchAssumption DEF ChatWatchAssumption
    <2> QED  BY <2>1, <2>2 DEF WatchInit, WatchTypes, Fates
  <1>2. payload \in [Files -> Events] /\ \A f \in Files : payload[f][1] = f[1]
    BY FileParts DEF WatchInit, Events, Empty
  <1>3. WatchShape
    BY <1>1, <1>2 DEF WatchInit, WatchShape
  <1>4. \A x \in Files : InOnePlace(x)
    BY FileParts DEF WatchInit, InOnePlace, Kept, Carries, Queued, Nowhere
  <1>5. TimersKeepEvents /\ QueuedEmptyLate /\ EmptyNeedsRace
    BY DEF WatchInit, TimersKeepEvents, QueuedEmptyLate, EmptyNeedsRace
  <1> QED  BY <1>3, <1>4, <1>5 DEF WatchIInv

(* What the listener does with an event it has taken disturbs none that is on its way. *)
LEMMA HandlingKeeps ==
  ASSUME WatchIInv, UNCHANGED <<debounceVars, channel, received, crashed>>,
         current' \in Files \union {NoEvent}, todo' \subseteq Users, todo' # {} => current' # NoEvent, fate' \in [Copies -> Fates],
         watching' \subseteq Users
  PROVE  WatchIInv'
  <1>1. UNCHANGED <<deliveries, events, msgTimers, msgPhase, payload, late, channel, received, crashed>>
    BY DEF debounceVars
  <1>2. WatchShape'
    BY <1>1 DEF WatchIInv, WatchShape, WatchTypes
  <1>3. (\A x \in Files : InOnePlace(x))'
    BY <1>1 DEF WatchIInv, InOnePlace, Kept, Carries, Queued, Nowhere
  <1>4. TimersKeepEvents' /\ QueuedEmptyLate' /\ EmptyNeedsRace'
    BY <1>1 DEF WatchIInv, TimersKeepEvents, QueuedEmptyLate, EmptyNeedsRace
  <1> QED  BY <1>2, <1>3, <1>4 DEF WatchIInv

(* What a step that leaves channel and listener alone may do to the events. *)
LEMMA DeliverKeeps ==
  ASSUME WatchIInv, NEW m \in Msgs, SendMediaMessageEvent(m)
  PROVE  WatchIInv'
  <1> DEFINE n == deliveries[m] + 1
             x == <<m, n>>
  <1>1. /\ n <= Deliveries[m]
        /\ deliveries' = [deliveries EXCEPT ![m] = n]
        /\ events' = IF msgTimers[m] = 0 THEN [events EXCEPT ![m] = n] ELSE events
        /\ msgPhase' = Restart(m, n)
        /\ msgTimers' = [msgTimers EXCEPT ![m] = n]
        /\ late' = IF \E f \in Files : f[1] = m /\ msgPhase[f] = "fired" THEN late \union {m} ELSE late
        /\ UNCHANGED <<payload, channel, current, todo, received, crashed, watching, fate>>
    BY DEF SendMediaMessageEvent, listenerVars
  <1>2. n \in Nat /\ n # 0 /\ n \in 1 .. Deliveries[m] /\ x \in Files /\ x[1] = m /\ x[2] = n
    <2>1. deliveries[m] \in Nat /\ Deliveries[m] \in Nat
      BY ChatWatchAssumption DEF WatchIInv, WatchShape, ChatWatchAssumption
    <2>2. n \in Nat /\ n # 0 /\ n \in 1 .. Deliveries[m]
      BY <1>1, <2>1
    <2> QED  BY <2>2, FileParts
  <1>3. \A f \in Files : /\ f = x => msgPhase'[f] = "armed"
                         /\ f # x => \/ msgPhase'[f] = msgPhase[f] /\ (f = <<m, msgTimers[m]>> => msgPhase[f] # "armed")
                                     \/ f = <<m, msgTimers[m]>> /\ msgPhase[f] = "armed" /\ msgPhase'[f] = "stopped"
    <2> DEFINE old == <<m, msgTimers[m]>>
               after(f) == CASE f = x -> "armed" [] f = old /\ msgPhase[f] = "armed" -> "stopped" [] OTHER -> msgPhase[f]
    <2>1. msgPhase' = [f \in Files |-> after(f)]
      BY <1>1 DEF Restart
    <2>0. x # old
      <3>1. msgTimers[m] \in 0 .. deliveries[m] /\ deliveries[m] \in Nat
        BY DEF WatchIInv, WatchShape, WatchTypes
      <3> QED  BY <3>1
    <2> HIDE DEF x
    <2>2. \A f \in Files : msgPhase'[f] = after(f)
      <3> HIDE DEF after
      <3> QED  BY <2>1
    <2> HIDE DEF old
    <2>3. \A f : f = x => after(f) = "armed"
      BY <2>0
    <2>4. \A f : f # x /\ f = old /\ msgPhase[f] = "armed" => after(f) = "stopped"
      OBVIOUS
    <2>5. \A f : f # x /\ ~(f = old /\ msgPhase[f] = "armed") => after(f) = msgPhase[f]
      OBVIOUS
    <2> HIDE DEF after
    <2>6. \A f \in Files : /\ f = x => msgPhase'[f] = "armed"
                           /\ f # x => \/ msgPhase'[f] = msgPhase[f] /\ (f = old => msgPhase[f] # "armed")
                                       \/ f = old /\ msgPhase[f] = "armed" /\ msgPhase'[f] = "stopped"
      BY <2>2, <2>3, <2>4, <2>5
    <2> QED  BY <2>6 DEF old
  <1>4. msgPhase' \in [Files -> {"unused", "armed", "stopped", "fired", "sending", "done"}]
    BY <1>1 DEF Restart, WatchIInv, WatchShape, WatchTypes
  <1>5. WatchShape'
    <2>1. deliveries' \in [Msgs -> Nat] /\ events' \in [Msgs -> Nat] /\ msgTimers' \in [Msgs -> Nat]
      BY <1>1, <1>2 DEF WatchIInv, WatchShape
    <2>2. ASSUME NEW k \in Msgs
          PROVE  /\ deliveries'[k] \in 0 .. Deliveries[k] /\ events'[k] \in 0 .. deliveries'[k]
                 /\ msgTimers'[k] \in 0 .. deliveries'[k]
      <3>1. deliveries[k] \in 0 .. Deliveries[k] /\ events[k] \in 0 .. deliveries[k] /\ msgTimers[k] \in 0 .. deliveries[k]
        BY DEF WatchIInv, WatchShape, WatchTypes
      <3>2. CASE k = m
        <4>1. deliveries'[k] = n /\ msgTimers'[k] = n /\ events'[k] \in {events[k], n}
          BY <1>1, <3>2 DEF WatchIInv, WatchShape
        <4> QED  BY <1>2, <3>1, <3>2, <4>1
      <3>3. CASE k # m
        <4>1. deliveries'[k] = deliveries[k] /\ msgTimers'[k] = msgTimers[k] /\ events'[k] = events[k]
          BY <1>1, <3>3 DEF WatchIInv, WatchShape
        <4> QED  BY <3>1, <4>1
      <3> QED  BY <3>2, <3>3
    <2>3. WatchTypes'
      BY <1>1, <1>4, <2>2 DEF WatchIInv, WatchShape, WatchTypes
    <2>4. late' \subseteq Msgs
      BY <1>1 DEF WatchIInv, WatchShape
    <2> QED  BY <1>1, <2>1, <2>3, <2>4 DEF WatchIInv, WatchShape
  <1>6. ASSUME NEW y \in Files PROVE InOnePlace(y)'
    <2>1. InOnePlace(y)
      BY DEF WatchIInv
    <2>2. \A f \in Files : Carries(f, y)' => Carries(f, y)
      BY <1>1, <1>3 DEF Carries
    <2>3. Queued(y)' = Queued(y) /\ received'[y] = received[y] /\ channel' = channel
      BY <1>1 DEF Queued
    <2>4. (Kept(y) \/ y[2] > deliveries[y[1]])' => Kept(y) \/ y[2] > deliveries[y[1]]
      <3>1. CASE y[1] = m
        <4>1. y[2] \in Nat /\ deliveries[m] \in Nat
          BY FileParts DEF WatchIInv, WatchShape
        <4>2. deliveries'[m] = n /\ events'[m] \in {events[m], n}
          BY <1>1 DEF WatchIInv, WatchShape
        <4> QED  BY <3>1, <4>1, <4>2 DEF Kept
      <3>2. CASE y[1] # m
        <4>1. deliveries'[y[1]] = deliveries[y[1]] /\ events'[y[1]] = events[y[1]]
          BY <1>1, <3>2, FileParts DEF WatchIInv, WatchShape
        <4> QED  BY <4>1 DEF Kept
      <3> QED  BY <3>1, <3>2
    <2>5. Nowhere(y) => Nowhere(y)'
      BY <2>2, <2>3 DEF Nowhere
    <2> QED  BY <2>1, <2>2, <2>3, <2>4, <2>5 DEF InOnePlace
  <1>7. \A k \in Msgs : msgTimers'[k] # 0 => events'[k] # 0
    <2> SUFFICES ASSUME NEW k \in Msgs, msgTimers'[k] # 0 PROVE events'[k] # 0
      OBVIOUS
    <2>1. CASE k = m
      BY <1>1, <1>2, <2>1 DEF WatchIInv, WatchShape, TimersKeepEvents
    <2>2. CASE k # m
      BY <1>1, <2>2 DEF WatchIInv, WatchShape, TimersKeepEvents
    <2> QED  BY <2>1, <2>2
  <1>8. ASSUME NEW f \in Files, msgPhase'[f] \in {"armed", "fired"}, f[1] \notin late'
        PROVE  msgTimers'[f[1]] = f[2]
    <2>1. f[1] \notin late /\ f[1] \in Msgs /\ f = <<f[1], f[2]>>
      BY <1>1, <1>8, FileParts
    <2>2. CASE f = x
      BY <1>1, <1>2, <2>2 DEF WatchIInv, WatchShape
    <2>3. CASE f # x
      <3>1. msgPhase[f] = msgPhase'[f] /\ (f = <<m, msgTimers[m]>> => msgPhase[f] # "armed")
        BY <1>3, <1>8, <2>3
      <3>2. msgTimers[f[1]] = f[2]
        BY <1>8, <2>1, <3>1 DEF WatchIInv, TimersKeepEvents
      <3>3. f[1] # m
        <4> SUFFICES ASSUME f[1] = m PROVE FALSE
          OBVIOUS
        <4>1. msgPhase[f] = "fired"
          BY <1>8, <2>1, <3>1, <3>2
        <4>2. m \in late'
          BY <1>1, <4>1
        <4> QED  BY <1>8, <4>2
      <3> QED  BY <1>1, <2>1, <3>2, <3>3 DEF WatchIInv, WatchShape
    <2> QED  BY <2>2, <2>3
  <1>9. TimersKeepEvents'
    BY <1>7, <1>8 DEF TimersKeepEvents
  <1>10. late \subseteq late'
    BY <1>1
  <1>11. QueuedEmptyLate' /\ EmptyNeedsRace'
    <2>1. QueuedEmptyLate'
      BY <1>1, <1>10 DEF WatchIInv, QueuedEmptyLate
    <2>2. \A f \in Files : msgPhase'[f] = "sending" => msgPhase[f] = "sending"
      BY <1>3
    <2> QED  BY <1>1, <1>10, <2>1, <2>2 DEF WatchIInv, EmptyNeedsRace
  <1> QED  BY <1>5, <1>6, <1>9, <1>11 DEF WatchIInv

LEMMA ExpireKeeps ==
  ASSUME WatchIInv, NEW f \in Files, EventTimerExpires(f)
  PROVE  WatchIInv'
  <1>1. /\ msgPhase[f] = "armed" /\ msgPhase' = [msgPhase EXCEPT ![f] = "fired"]
        /\ UNCHANGED <<deliveries, events, msgTimers, payload, late, channel, current, todo, received, crashed,
                       watching, fate>>
    BY DEF EventTimerExpires, listenerVars
  <1>2. WatchShape'
    BY <1>1 DEF WatchIInv, WatchShape, WatchTypes
  <1>3. \A g \in Files : msgPhase'[g] # msgPhase[g] => g = f /\ msgPhase[g] = "armed" /\ msgPhase'[g] = "fired"
    BY <1>1 DEF WatchIInv, WatchShape, WatchTypes
  <1>4. \A x : \A g \in Files : Carries(g, x)' <=> Carries(g, x)
    BY <1>1, <1>3 DEF Carries
  <1>5. \A x \in Files : InOnePlace(x)'
    BY <1>1, <1>4 DEF WatchIInv, InOnePlace, Kept, Queued, Nowhere
  <1>6. TimersKeepEvents' /\ QueuedEmptyLate' /\ EmptyNeedsRace'
    BY <1>1, <1>3 DEF WatchIInv, TimersKeepEvents, QueuedEmptyLate, EmptyNeedsRace
  <1> QED  BY <1>2, <1>5, <1>6 DEF WatchIInv

LEMMA TakeKeeps ==
  ASSUME WatchIInv, NEW f \in Files, TakeEvent(f)
  PROVE  WatchIInv'
  <1> DEFINE m == f[1]
             e == <<m, events[m]>>
  <1>1. /\ msgPhase[f] = "fired" /\ msgPhase' = [msgPhase EXCEPT ![f] = "sending"]
        /\ payload' = [payload EXCEPT ![f] = e]
        /\ events' = [events EXCEPT ![m] = 0] /\ msgTimers' = [msgTimers EXCEPT ![m] = 0]
        /\ UNCHANGED <<deliveries, late, channel, current, todo, received, crashed, watching, fate>>
    BY DEF TakeEvent, DropEvent, listenerVars
  <1>2. m \in Msgs /\ f = <<m, f[2]>> /\ f[2] # 0 /\ events[m] \in 0 .. Deliveries[m]
    <2>1. m \in Msgs /\ f = <<m, f[2]>> /\ f[2] # 0
      BY FileParts
    <2>2. deliveries[m] \in 0 .. Deliveries[m] /\ events[m] \in 0 .. deliveries[m] /\ Deliveries[m] \in Nat
      BY <2>1, ChatWatchAssumption DEF WatchIInv, WatchShape, WatchTypes, ChatWatchAssumption
    <2> QED  BY <2>1, <2>2
  <1>3. e \in Events /\ e[1] = m /\ e[2] = events[m]
    BY <1>2, EventParts
  <1>4. /\ \A g \in Files : g # f => msgPhase'[g] = msgPhase[g] /\ payload'[g] = payload[g]
        /\ msgPhase'[f] = "sending" /\ payload'[f] = e
        /\ \A k \in Msgs : k # m => events'[k] = events[k] /\ msgTimers'[k] = msgTimers[k]
        /\ events'[m] = 0 /\ msgTimers'[m] = 0
    BY <1>1, <1>2 DEF WatchIInv, WatchShape, WatchTypes
  <1>5. WatchShape'
    <2>1. events' \in [Msgs -> Nat] /\ msgTimers' \in [Msgs -> Nat] /\ payload' \in [Files -> Events]
      BY <1>1, <1>3 DEF WatchIInv, WatchShape
    <2>2. \A g \in Files : payload'[g][1] = g[1]
      <3>1. payload'[f][1] = f[1]
        BY <1>3, <1>4
      <3>2. \A g \in Files : g # f => payload'[g][1] = payload[g][1] /\ payload[g][1] = g[1]
        BY <1>4 DEF WatchIInv, WatchShape
      <3> QED  BY <3>1, <3>2
    <2>3. \A k \in Msgs : 0 \in 0 .. deliveries[k]
      BY DEF WatchIInv, WatchShape
    <2>4. WatchTypes'
      BY <1>1, <1>4, <2>3 DEF WatchIInv, WatchShape, WatchTypes
    <2> QED  BY <1>1, <2>1, <2>2, <2>4 DEF WatchIInv, WatchShape
  <1>6. ASSUME NEW x \in Files PROVE InOnePlace(x)'
    <2>1. InOnePlace(x)
      BY DEF WatchIInv
    <2>2. \A g \in Files : g # f => (Carries(g, x)' <=> Carries(g, x))
      BY <1>4 DEF Carries
    <2>3. Carries(f, x)' => x = e /\ Kept(x)
      BY <1>3, <1>4 DEF Carries, Kept
    <2>4. Kept(x)' => Kept(x) /\ x[1] # m
      BY <1>1, <1>4, FileParts DEF Kept
    <2>5. ~Carries(f, x)
      BY <1>1 DEF Carries
    <2>6. Queued(x)' = Queued(x) /\ received'[x] = received[x] /\ channel' = channel /\ deliveries' = deliveries
      BY <1>1 DEF Queued
    <2>7. Carries(f, x)' => Nowhere(x) /\ ~Kept(x)' /\ ~(x[2] > deliveries[x[1]])
      <3> SUFFICES ASSUME Carries(f, x)' PROVE Nowhere(x) /\ ~Kept(x)' /\ ~(x[2] > deliveries[x[1]])
        OBVIOUS
      <3>1. x = e /\ Kept(x) /\ x[1] = m
        BY <1>3, <2>3
      <3>2. events[m] \in 0 .. deliveries[m] /\ deliveries[m] \in Nat
        BY <1>2 DEF WatchIInv, WatchShape, WatchTypes
      <3> QED  BY <1>3, <2>1, <2>4, <3>1, <3>2 DEF InOnePlace
    <2>8. (Kept(x) \/ x[2] > deliveries[x[1]])' => Nowhere(x)'
      BY <2>1, <2>2, <2>4, <2>6, <2>7 DEF InOnePlace, Nowhere
    <2>9. \A g \in Files : Carries(g, x)' => ~Queued(x)' /\ received'[x] = 0
      BY <2>1, <2>2, <2>6, <2>7 DEF InOnePlace, Nowhere
    <2>10. \A g, h \in Files : Carries(g, x)' /\ Carries(h, x)' => g = h
      BY <2>1, <2>2, <2>7 DEF InOnePlace, Nowhere
    <2> QED  BY <2>1, <2>6, <2>8, <2>9, <2>10 DEF InOnePlace
  <1>7. TimersKeepEvents'
    <2>1. \A k \in Msgs : msgTimers'[k] # 0 => events'[k] # 0
      BY <1>4 DEF WatchIInv, TimersKeepEvents
    <2>2. ASSUME NEW g \in Files, msgPhase'[g] \in {"armed", "fired"}, g[1] \notin late'
          PROVE  msgTimers'[g[1]] = g[2]
      <3>1. g # f /\ msgPhase'[g] = msgPhase[g] /\ g = <<g[1], g[2]>> /\ g[1] \in Msgs
        BY <1>4, <2>2, FileParts
      <3>2. msgTimers[g[1]] = g[2]
        BY <1>1, <2>2, <3>1 DEF WatchIInv, TimersKeepEvents
      <3>3. g[1] # m
        BY <1>1, <1>2, <2>2, <3>1, <3>2 DEF WatchIInv, TimersKeepEvents
      <3> QED  BY <1>4, <3>1, <3>2, <3>3
    <2> QED  BY <2>1, <2>2 DEF TimersKeepEvents
  <1>8. EmptyNeedsRace'
    <2>1. events[m] = 0 => m \in late
      BY <1>1, <1>2 DEF WatchIInv, TimersKeepEvents
    <2> QED  BY <1>1, <1>3, <1>4, <2>1 DEF WatchIInv, EmptyNeedsRace
  <1>9. QueuedEmptyLate'
    BY <1>1 DEF WatchIInv, QueuedEmptyLate
  <1> QED  BY <1>5, <1>6, <1>7, <1>8, <1>9 DEF WatchIInv

LEMMA SendKeeps ==
  ASSUME WatchIInv, NEW f \in Files, SendEvent(f)
  PROVE  WatchIInv'
  <1>1. /\ msgPhase[f] = "sending" /\ msgPhase' = [msgPhase EXCEPT ![f] = "done"]
        /\ Len(channel) < ChanCap /\ channel' = Append(channel, payload[f])
        /\ UNCHANGED <<deliveries, events, msgTimers, payload, late, current, todo, received, crashed,
                       watching, fate>>
    BY DEF SendEvent, listenerVars
  <1>2. payload[f] \in Events /\ channel \in Seq(Events) /\ payload[f][1] = f[1]
    BY DEF WatchIInv, WatchShape
  <1> DEFINE p == payload[f]
  <1>3. /\ channel' \in Seq(Events) /\ Len(channel') = Len(channel) + 1 /\ Len(channel) \in Nat
        /\ \A i \in DOMAIN channel : i \in DOMAIN channel' /\ channel'[i] = channel[i]
        /\ \A i \in DOMAIN channel' : (i \in DOMAIN channel /\ channel'[i] = channel[i]) \/ (i = Len(channel) + 1 /\ channel'[i] = p)
    BY <1>1, <1>2
  <1>4. \A g \in Files : /\ g # f => msgPhase'[g] = msgPhase[g]
                         /\ msgPhase'[f] = "done"
    BY <1>1 DEF WatchIInv, WatchShape, WatchTypes
  <1>5. WatchShape'
    <2>1. Len(channel') <= ChanCap
      BY <1>1, <1>3, ChatWatchAssumption DEF ChatWatchAssumption
    <2> QED  BY <1>1, <1>3, <2>1 DEF WatchIInv, WatchShape, WatchTypes
  <1>6. ASSUME NEW x \in Files PROVE InOnePlace(x)'
    <2>1. InOnePlace(x)
      BY DEF WatchIInv
    <2>2. \A g \in Files : Carries(g, x)' => g # f /\ Carries(g, x)
      BY <1>1, <1>4 DEF Carries
    <2>3. Queued(x)' => Queued(x) \/ (x = p /\ Carries(f, x))
      BY <1>1, <1>3 DEF Queued, Carries
    <2>4. x = p => Carries(f, x) /\ ~Queued(x)
      BY <1>1, <2>1 DEF Carries, InOnePlace
    <2>5. (Kept(x) \/ x[2] > deliveries[x[1]])' => Kept(x) \/ x[2] > deliveries[x[1]]
      BY <1>1 DEF Kept
    <2>6. received'[x] = received[x]
      BY <1>1
    <2>7. (Kept(x) \/ x[2] > deliveries[x[1]])' => Nowhere(x)'
      BY <2>1, <2>2, <2>3, <2>5, <2>6 DEF InOnePlace, Nowhere
    <2>8. \A g \in Files : Carries(g, x)' => ~Queued(x)' /\ received'[x] = 0
      BY <2>1, <2>2, <2>3, <2>6 DEF InOnePlace
    <2>9. \A i, j \in DOMAIN channel' : channel'[i] = x /\ channel'[j] = x => i = j
      BY <1>3, <2>1, <2>4 DEF InOnePlace, Queued
    <2>10. Queued(x)' => received'[x] = 0
      BY <2>1, <2>3, <2>6 DEF InOnePlace
    <2> QED  BY <2>1, <2>2, <2>6, <2>7, <2>8, <2>9, <2>10 DEF InOnePlace
  <1>7. QueuedEmptyLate'
    <2>1. p[2] = 0 => p[1] \in late
      BY <1>1, <1>2 DEF WatchIInv, EmptyNeedsRace
    <2> QED  BY <1>1, <1>3, <2>1 DEF WatchIInv, QueuedEmptyLate
  <1>8. TimersKeepEvents' /\ EmptyNeedsRace'
    BY <1>1, <1>4 DEF WatchIInv, TimersKeepEvents, EmptyNeedsRace
  <1> QED  BY <1>5, <1>6, <1>7, <1>8 DEF WatchIInv

LEMMA ReceiveKeeps ==
  ASSUME WatchIInv, channel # <<>>, channel' = Tail(channel), UNCHANGED <<debounceVars, watching, fate>>,
         current' \in Files \union {NoEvent}, todo' \subseteq Users, todo' # {} => current' # NoEvent,
         \/ Head(channel)[2] = 0 /\ UNCHANGED received
         \/ Head(channel)[2] # 0 /\ received' = [received EXCEPT ![Head(channel)] = @ + 1] /\ UNCHANGED crashed
  PROVE  WatchIInv'
  <1> DEFINE h == Head(channel)
  <1>1. UNCHANGED <<deliveries, events, msgTimers, msgPhase, payload, late>>
    BY DEF debounceVars
  <1>2. /\ channel \in Seq(Events) /\ h = channel[1] /\ 1 \in DOMAIN channel /\ h \in Events
        /\ channel' \in Seq(Events) /\ Len(channel') = Len(channel) - 1 /\ Len(channel) \in Nat \ {0}
        /\ \A i \in DOMAIN channel' : i \in Nat \ {0} /\ i + 1 \in DOMAIN channel /\ channel'[i] = channel[i + 1]
    BY TailFacts DEF WatchIInv, WatchShape
  <1>3. h[2] # 0 => h \in Files /\ received[h] = 0 /\ ~Kept(h) /\ ~(h[2] > deliveries[h[1]]) /\ Queued(h)
    BY <1>2, EventParts DEF WatchIInv, InOnePlace, Nowhere, Queued
  <1>4. received' \in [Files -> Nat]
    <2>1. received \in [Files -> Nat]
      BY DEF WatchIInv, WatchShape
    <2>2. CASE h[2] = 0
      BY <2>1, <2>2
    <2>3. CASE h[2] # 0
      <3>1. h \in Files /\ received' = [received EXCEPT ![h] = @ + 1]
        BY <1>3, <2>3
      <3> QED  BY <2>1, <3>1
    <2> QED  BY <2>2, <2>3
  <1>5. WatchShape'
    <2>1. Len(channel') <= ChanCap
      BY <1>2, ChatWatchAssumption DEF WatchIInv, WatchShape, WatchTypes, ChatWatchAssumption
    <2> QED  BY <1>1, <1>2, <1>4, <2>1 DEF WatchIInv, WatchShape, WatchTypes
  <1>6. ASSUME NEW x \in Files PROVE InOnePlace(x)'
    <2>1. InOnePlace(x) /\ x[2] # 0
      BY FileParts DEF WatchIInv
    <2>2. \A g \in Files : Carries(g, x)' <=> Carries(g, x)
      BY <1>1 DEF Carries
    <2>3. Queued(x)' => Queued(x)
      BY <1>2 DEF Queued
    <2>4. x = h => ~Queued(x)'
      <3> SUFFICES ASSUME x = h, NEW i \in DOMAIN channel', channel'[i] = x PROVE FALSE
        BY DEF Queued
      <3>1. i + 1 \in DOMAIN channel /\ channel[i + 1] = x /\ channel[1] = x /\ i + 1 # 1
        BY <1>2
      <3> QED  BY <1>2, <2>1, <3>1 DEF InOnePlace
    <2>5. (Kept(x) \/ x[2] > deliveries[x[1]])' => Kept(x) \/ x[2] > deliveries[x[1]]
      BY <1>1 DEF Kept
    <2>6. x # h => received'[x] = received[x]
      BY <1>3 DEF WatchIInv, WatchShape
    <2>7. x = h => received'[x] = 1 /\ received[x] = 0 /\ Queued(x)
      BY <1>3, <2>1 DEF WatchIInv, WatchShape
    <2>8. (Kept(x) \/ x[2] > deliveries[x[1]])' => Nowhere(x)'
      BY <1>3, <2>1, <2>2, <2>3, <2>5, <2>6 DEF InOnePlace, Nowhere
    <2>9. \A g \in Files : Carries(g, x)' => ~Queued(x)' /\ received'[x] = 0
      BY <2>1, <2>2, <2>3, <2>6, <2>7 DEF InOnePlace
    <2>10. \A i, j \in DOMAIN channel' : channel'[i] = x /\ channel'[j] = x => i = j
      BY <1>2, <2>1 DEF InOnePlace
    <2>11. Queued(x)' => received'[x] = 0
      BY <2>1, <2>3, <2>4, <2>6 DEF InOnePlace
    <2>12. received'[x] <= 1
      BY <2>1, <2>6, <2>7 DEF InOnePlace
    <2> QED  BY <2>1, <2>2, <2>8, <2>9, <2>10, <2>11, <2>12 DEF InOnePlace
  <1>7. QueuedEmptyLate'
    BY <1>1, <1>2 DEF WatchIInv, QueuedEmptyLate
  <1>8. TimersKeepEvents'
    BY <1>1 DEF WatchIInv, TimersKeepEvents
  <1>9. EmptyNeedsRace'
    BY <1>1, <1>2 DEF WatchIInv, EmptyNeedsRace, QueuedEmptyLate
  <1> QED  BY <1>5, <1>6, <1>7, <1>8, <1>9 DEF WatchIInv

LEMMA CurrentIsFile ==
  ASSUME WatchIInv, NEW u \in Users, u \in todo, HandleUser(u)
  PROVE  todo' \subseteq Users /\ current' = current /\ current' \in Files \union {NoEvent} /\ fate' \in [Copies -> Fates]
  BY DEF WatchIInv, WatchShape, WatchTypes, HandleUser, SkipUser, CollectForAlbum, SaveFile, SaveFileFails, Fates

(* The user's copies in an album callback's batch are each given a fate. *)
LEMMA CallbackSettles ==
  ASSUME WatchIInv, NEW c \in Copies, ProcessWatchMediaGroup(c)
  PROVE  fate' \in [Copies -> Fates]
  <1>1. PICK usable \in SUBSET Batch(c) : \E refused \in SUBSET usable :
       fate' = [d \in Copies |->
            CASE d \notin Batch(c) -> fate[d]
              [] d \in Batch(c) \ usable -> "failed"
              [] d \in usable /\ ~WorthSaving(d, usable) -> "dropped"
              [] d \in refused /\ WorthSaving(d, usable) -> "failed"
              [] OTHER -> "saved"]
    BY DEF ProcessWatchMediaGroup
  <1>2. PICK refused \in SUBSET usable :
       fate' = [d \in Copies |->
            CASE d \notin Batch(c) -> fate[d]
              [] d \in Batch(c) \ usable -> "failed"
              [] d \in usable /\ ~WorthSaving(d, usable) -> "dropped"
              [] d \in refused /\ WorthSaving(d, usable) -> "failed"
              [] OTHER -> "saved"]
    BY <1>1
  <1>3. \A d \in Copies : fate[d] \in Fates
    BY DEF WatchIInv, WatchShape, WatchTypes
  <1>4. \A d \in Copies : (CASE d \notin Batch(c) -> fate[d]
              [] d \in Batch(c) \ usable -> "failed"
              [] d \in usable /\ ~WorthSaving(d, usable) -> "dropped"
              [] d \in refused /\ WorthSaving(d, usable) -> "failed"
              [] OTHER -> "saved") \in Fates
    BY <1>3 DEF Fates
  <1> QED  BY <1>2, <1>4

LEMMA WatchStep == WatchIInv /\ [WatchNext]_watchVars => WatchIInv'
  <1> SUFFICES ASSUME WatchIInv, [WatchNext]_watchVars PROVE WatchIInv'
    OBVIOUS
  <1>0. todo \subseteq Users /\ current \in Files \union {NoEvent} /\ fate \in [Copies -> Fates] /\ watching \subseteq Users
        /\ (todo # {} => current # NoEvent)
    BY DEF WatchIInv, WatchShape, WatchTypes
  <1>1. ASSUME NEW m \in Msgs, SendMediaMessageEvent(m) PROVE WatchIInv'
    BY <1>1, DeliverKeeps
  <1>2. ASSUME NEW f \in Files, Callback(f) PROVE WatchIInv'
    BY <1>2, ExpireKeeps, TakeKeeps, SendKeeps DEF Callback
  <1>3. CASE Receive
    <2>1. Head(channel) \in Events /\ channel # <<>>
      BY <1>3, TailFacts DEF Receive, WatchIInv, WatchShape
    <2>2. CASE Head(channel)[2] = 0
      <3>1. UNCHANGED <<current, todo, received>> /\ channel' = Tail(channel) /\ UNCHANGED <<debounceVars, watching, fate>>
        BY <1>3, <2>2 DEF Receive
      <3> QED  BY <1>0, <2>1, <2>2, <3>1, ReceiveKeeps
    <2>3. CASE Head(channel)[2] # 0
      <3>1. /\ current' = Head(channel) /\ todo' = watching /\ UNCHANGED crashed
            /\ received' = [received EXCEPT ![Head(channel)] = @ + 1]
            /\ channel' = Tail(channel) /\ UNCHANGED <<debounceVars, watching, fate>>
        BY <1>3, <2>3 DEF Receive
      <3>2. Head(channel) \in Files /\ Head(channel) # NoEvent
        BY <2>1, <2>3, EventParts, ChatWatchAssumption DEF ChatWatchAssumption
      <3> QED  BY <1>0, <2>1, <2>3, <3>1, <3>2, ReceiveKeeps
    <2> QED  BY <2>2, <2>3
  <1>4. CASE ReceiveFails
    BY <1>0, <1>4, ReceiveKeeps DEF ReceiveFails
  <1>5. CASE NextEvent
    BY <1>0, <1>5, HandlingKeeps DEF NextEvent
  <1>6. ASSUME NEW u \in Users, HandleUser(u) PROVE WatchIInv'
    <2>1. u \in todo /\ UNCHANGED <<debounceVars, channel, received, crashed, watching>>
      BY <1>6 DEF HandleUser, SkipUser, CollectForAlbum, SaveFile, SaveFileFails
    <2> QED  BY <1>0, <1>6, <2>1, CurrentIsFile, HandlingKeeps
  <1>7. ASSUME NEW u \in Users, ToggleWatch(u) PROVE WatchIInv'
    BY <1>0, <1>7, HandlingKeeps DEF ToggleWatch, listenerVars
  <1>8. ASSUME NEW c \in Copies, AlbumCallback(c) PROVE WatchIInv'
    <2>1. UNCHANGED <<debounceVars, channel, listenerVars, watching>>
      BY <1>8 DEF AlbumCallback, AlbumTimerExpires, AlbumTaken, ProcessWatchMediaGroup
    <2>2. fate' \in [Copies -> Fates]
      BY <1>0, <1>8, CallbackSettles DEF AlbumCallback, AlbumTimerExpires, AlbumTaken
    <2> QED  BY <1>0, <2>1, <2>2, HandlingKeeps DEF listenerVars
  <1>9. CASE UNCHANGED watchVars
    BY <1>0, <1>9, HandlingKeeps DEF watchVars, listenerVars
  <1> QED  BY <1>1, <1>2, <1>3, <1>4, <1>5, <1>6, <1>7, <1>8, <1>9 DEF WatchNext, Listen

(* However deliveries, expiries, late stops, callbacks and the listener interleave, whatever the      *)
(* numbers of messages and deliveries and the size of the channel: an event reaches the listener at   *)
(* most once, and an empty one only of a message one of whose timers was stopped too late             *)
(* (user/watch.go:46-66, handlers/watch.go:205-219).                                                  *)
THEOREM WatchedOnce == WatchSpec => []WatchInv
  <1>1. WatchSpec => []WatchIInv
    BY WatchStarts, WatchStep, PTL DEF WatchSpec
  <1>2. WatchIInv => WatchInv
    BY DEF WatchIInv, WatchShape, InOnePlace, WatchInv, ReceivedOnce
  <1> QED  BY <1>1, <1>2, PTL

(* The listener and its album callbacks use the collector as GroupCollector lets any number of files  *)
(* arrive and any timer expire (handlers/watch.go:130-203); fairness apart, the collector of watched  *)
(* chats is the collector of albums.                                                                  *)
THEOREM WatchUsesCollector == WatchSpec => Album!CollectorInit /\ [][Album!CollectorNext]_(Album!collectorVars)
  <1>1. WatchInit => Album!CollectorInit
    BY DEF WatchInit
  <1>2. WatchIInv /\ [WatchNext]_watchVars => [Album!CollectorNext]_(Album!collectorVars)
    <2> SUFFICES ASSUME WatchIInv, [WatchNext]_watchVars PROVE Album!CollectorNext \/ UNCHANGED albumVars
      BY DEF Album!collectorVars, albumVars
    <2>1. ASSUME NEW u \in Users, CollectForAlbum(u) PROVE Album!CollectorNext
      <3>1. current # NoEvent
        BY <2>1 DEF CollectForAlbum, WatchIInv, WatchShape
      <3>2. <<current, u>> \in Copies
        BY <3>1 DEF WatchIInv, WatchShape, WatchTypes, Copies
      <3> QED  BY <2>1, <3>2 DEF CollectForAlbum, Album!CollectorNext
    <2>2. ASSUME NEW c \in Copies, AlbumTimerExpires(c) \/ AlbumTaken(c) PROVE Album!CollectorNext
      BY <2>2 DEF AlbumTimerExpires, AlbumTaken, Album!CollectorNext
    <2> QED
      BY <2>1, <2>2
      DEF WatchNext, watchVars, SendMediaMessageEvent, Callback, EventTimerExpires, TakeEvent, SendEvent, Listen,
          Receive, ReceiveFails, NextEvent, HandleUser, SkipUser, SaveFile, SaveFileFails, ToggleWatch,
          AlbumCallback, ProcessWatchMediaGroup
  <1>3. WatchSpec => []WatchIInv
    BY WatchStarts, WatchStep, PTL DEF WatchSpec
  <1> QED  BY <1>1, <1>2, <1>3, PTL DEF WatchSpec
=============================================================================
