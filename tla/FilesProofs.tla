------------------------------ MODULE FilesProofs ------------------------------
(***************************************************************************)
(* Four parts on the way of a task's files to a storage, for every value   *)
(* of their constants.                                                     *)
(*                                                                         *)
(* The registry: an entry of the map is made once and stays, so that what  *)
(* the callers of a flight are given, and what gets into a list, remains   *)
(* the map's own instance.                                                 *)
(*                                                                         *)
(* The single-file task: what its storage reads is counted against what    *)
(* its downloader wrote, through the cache file or through the pipe; a     *)
(* goroutine that failed has left its error in the errgroup, and so a      *)
(* success is the success of both.                                         *)
(*                                                                         *)
(* The tasks of files: a success has stored the files, the progress        *)
(* message agrees with the result, a task ends as canceled only when it    *)
(* was cancelled, and aria2's files stay until they are stored. The        *)
(* delicate part is the copying goroutine that a link or a resource leaves *)
(* behind: it edits the message whenever it likes, so the message of a     *)
(* success is safe only because no success has left one behind.            *)
(*                                                                         *)
(* The batch sent to a Telegram chat: the items before the group at work   *)
(* are in the chat whole, what the group has sent and has still to send    *)
(* are together all of it, and an attempt begins with nothing of the group *)
(* in the chat but what a failed attempt left, which is noted.             *)
(***************************************************************************)
EXTENDS FileTasks, SingleFile, StorageRegistry, TelegramSave, FiniteSetTheorems, SequenceTheorems, TLAPS

----------------------------------------------------------------------------
(* The registry of storages. *)
(* Whoever got an instance of a name got the one the map has, or none. *)
Holds(c) == caller[c].pc = "got" => caller[c].stor \in {storages[caller[c].name], NoStorage}

(* Only instances that are in the map get into a list. *)
Listed == \A u \in DOMAIN lists : lists[u] \subseteq {storages[n] : n \in Names} \ {NoStorage}

CallersKnown ==
  /\ DOMAIN caller = Everyone
  /\ \A c \in Everyone : caller[c].pc \in {"missed", "aboard", "got"} => caller[c].name \in Names

InstanceInv ==
  /\ DOMAIN storages = Names
  /\ CallersKnown
  /\ Listed
  /\ \A c \in Everyone : Holds(c)

LEMMA RegistryStarts == RegistryInit => InstanceInv
  <1> SUFFICES ASSUME RegistryInit  PROVE InstanceInv
    OBVIOUS
  <1>1. caller = [c \in Everyone |-> [pc |-> "idle"]] /\ lists = <<>> /\ DOMAIN storages = Names
    BY DEF RegistryInit
  <1>2. CallersKnown
    BY <1>1 DEF CallersKnown
  <1>3. Listed
    BY <1>1 DEF Listed
  <1>4. \A c \in Everyone : Holds(c)
    BY <1>1 DEF Holds
  <1> QED  BY <1>1, <1>2, <1>3, <1>4 DEF InstanceInv

(* The map only grows: an entry, once made, stays. *)
MapGrows ==
  /\ DOMAIN storages' = Names
  /\ \A n \in Names : storages[n] # NoStorage => storages'[n] = storages[n]

LEMMA ListsStayTrue == InstanceInv /\ MapGrows /\ UNCHANGED lists => Listed'
  <1> SUFFICES ASSUME InstanceInv, MapGrows, UNCHANGED lists,
                      NEW u \in DOMAIN lists, NEW s \in lists[u]
               PROVE  s \in {storages'[n] : n \in Names} \ {NoStorage}
    BY DEF Listed
  <1>1. PICK n \in Names : s = storages[n] /\ s # NoStorage
    BY DEF InstanceInv, Listed
  <1> QED  BY <1>1 DEF MapGrows

LEMMA HoldersStayTrue ==
  ASSUME InstanceInv, MapGrows, NEW c \in Everyone, caller'[c] = caller[c]
  PROVE  Holds(c)'
  <1> SUFFICES ASSUME caller[c].pc = "got"
               PROVE  caller[c].stor \in {storages'[caller[c].name], NoStorage}
    BY DEF Holds
  <1>1. caller[c].stor \in {storages[caller[c].name], NoStorage} /\ caller[c].name \in Names
    BY DEF InstanceInv, CallersKnown, Holds
  <1> QED  BY <1>1 DEF MapGrows

(* A flight that lands with what the map then has, or with an error, keeps the invariant. *)
LEMMA LandingIsSafe ==
  ASSUME InstanceInv, MapGrows, UNCHANGED lists, NEW n \in Names, NEW s,
         s \in {storages'[n], NoStorage}, Land(n, s)
  PROVE  InstanceInv'
  <1>1. Listed'
    BY ListsStayTrue
  <1>2. ASSUME NEW c \in Everyone, c \in flight[n].aboard
        PROVE  caller'[c] = [pc |-> "got", name |-> n, stor |-> s]
    BY <1>2 DEF Land
  <1>3. ASSUME NEW c \in Everyone, c \notin flight[n].aboard
        PROVE  caller'[c] = caller[c]
    BY <1>3 DEF Land
  <1>4. CallersKnown'
    BY <1>2, <1>3 DEF Land, CallersKnown, InstanceInv
  <1>5. ASSUME NEW c \in Everyone  PROVE Holds(c)'
    <2>1. CASE c \in flight[n].aboard
      BY <2>1, <1>2 DEF Holds
    <2>2. CASE c \notin flight[n].aboard
      BY <2>2, <1>3, HoldersStayTrue
    <2> QED  BY <2>1, <2>2
  <1> QED  BY <1>1, <1>4, <1>5 DEF InstanceInv, MapGrows

LEMMA RegistryMoves == InstanceInv /\ [RegistryNext]_registryVars => InstanceInv'
  <1> SUFFICES ASSUME InstanceInv, [RegistryNext]_registryVars  PROVE InstanceInv'
    OBVIOUS
  <1>d. DOMAIN storages = Names /\ DOMAIN caller = Everyone
    BY DEF InstanceInv, CallersKnown
  <1>s. ASSUME UNCHANGED storages  PROVE MapGrows
    BY <1>s, <1>d DEF MapGrows
  <1>o. ASSUME NEW c \in Everyone, UNCHANGED <<storages, lists>>,
               DOMAIN caller' = Everyone,
               \A d \in Everyone : d # c => caller'[d] = caller[d],
               caller'[c].pc \in {"missed", "aboard", "got"} => caller'[c].name \in Names,
               Holds(c)'
        PROVE  InstanceInv'
    <2>1. Listed'
      BY <1>o, <1>s, ListsStayTrue
    <2>2. CallersKnown'
      BY <1>o DEF InstanceInv, CallersKnown
    <2>3. \A d \in Everyone : Holds(d)'
      BY <1>o, <1>s, HoldersStayTrue
    <2> QED  BY <1>d, <1>o, <2>1, <2>2, <2>3 DEF InstanceInv
  <1>1. ASSUME NEW c \in Everyone, NEW n \in Names, Ask(c, n)  PROVE InstanceInv'
    <2>1. caller'[c] = [pc |-> "got", name |-> n, stor |-> storages[n]]
            \/ caller'[c] = [pc |-> "missed", name |-> n]
      BY <1>1, <1>d DEF Ask, Existing
    <2>2. Holds(c)' /\ (caller'[c].pc \in {"missed", "aboard", "got"} => caller'[c].name \in Names)
      BY <1>1, <2>1 DEF Holds, Ask
    <2> QED  BY <1>1, <1>d, <1>o, <2>2 DEF Ask
  <1>2. ASSUME NEW c \in Everyone, Lead(c) \/ Join(c)  PROVE InstanceInv'
    <2>1. /\ UNCHANGED <<storages, lists>>
          /\ caller[c].pc = "missed"
          /\ caller' = [caller EXCEPT ![c].pc = "aboard"]
      BY <1>2 DEF Lead, Join
    <2>2. caller'[c].pc = "aboard" /\ caller'[c].name = caller[c].name /\ caller[c].name \in Names
      BY <2>1, <1>d DEF InstanceInv, CallersKnown
    <2>3. Holds(c)'
      BY <2>2 DEF Holds
    <2> QED  BY <1>d, <1>o, <2>1, <2>2, <2>3
  <1>3. ASSUME NEW n \in Names, LookAgain(n)  PROVE InstanceInv'
    <2>1. CASE Existing(n) # NoStorage
      BY <2>1, <1>3, <1>s, LandingIsSafe DEF LookAgain, Existing
    <2>2. CASE Existing(n) = NoStorage
      <3>1. UNCHANGED <<storages, lists, caller>>
        BY <2>2, <1>3 DEF LookAgain
      <3> QED  BY <3>1 DEF InstanceInv, CallersKnown, Listed, Holds
    <2> QED  BY <2>1, <2>2
  <1>4. ASSUME NEW n \in Names, NewStorage(n)  PROVE InstanceInv'
    BY <1>4 DEF NewStorage, InstanceInv, CallersKnown, Listed, Holds
  <1>5. ASSUME NEW n \in Names, InitFails(n)  PROVE InstanceInv'
    BY <1>5, <1>s, LandingIsSafe DEF InitFails
  <1>6. ASSUME NEW n \in Names, Keep(n)  PROVE InstanceInv'
    <2> DEFINE s == IF Existing(n) # NoStorage THEN Existing(n) ELSE flight[n].stor
    <2>1. storages' = [storages EXCEPT ![n] = s] /\ Land(n, s) /\ UNCHANGED lists
      BY <1>6 DEF Keep
    <2>2. MapGrows /\ storages'[n] = s
      BY <2>1, <1>d DEF MapGrows, Existing
    <2> HIDE DEF s
    <2> QED  BY <2>1, <2>2, LandingIsSafe
  <1>7. CASE NextName \/ MakeLists
    <2>1. PICK p \in {"idle", "done"} : caller' = [caller EXCEPT ![Loader] = [pc |-> p]]
      BY <1>7 DEF NextName, MakeLists
    <2>2. Loader \in Everyone /\ caller'[Loader].pc \notin {"missed", "aboard", "got"}
      BY <2>1, <1>d DEF Everyone
    <2>3. CASE NextName
      BY <2>1, <2>2, <2>3, <1>d, <1>o DEF NextName, Holds
    <2>4. CASE MakeLists
      <3>1. UNCHANGED storages
        BY <2>4 DEF MakeLists
      <3>2. ASSUME NEW u \in DOMAIN lists'
            PROVE  lists'[u] \subseteq {storages[n] : n \in Names} \ {NoStorage}
        <4>1. lists' = [v \in Positions |-> GetUserStorages(v)]
          BY <2>4 DEF MakeLists
        <4>2. lists'[u] = GetUserStorages(u)
          BY <4>1, <3>2
        <4>3. Known(u) \subseteq Names
          BY DEF Known
        <4>4. CASE u \in DOMAIN lists
          BY <4>2, <4>4 DEF GetUserStorages, InstanceInv, Listed
        <4>5. CASE u \notin DOMAIN lists
          BY <4>2, <4>3, <4>5 DEF GetUserStorages
        <4> QED  BY <4>4, <4>5
      <3>3. Listed'
        BY <3>1, <3>2 DEF Listed
      <3>4. CallersKnown'
        BY <2>1, <2>2, <1>d DEF InstanceInv, CallersKnown
      <3>5. \A c \in Everyone : Holds(c)'
        BY <2>1, <2>2, <3>1, <1>d DEF InstanceInv, Holds
      <3> QED  BY <3>1, <3>3, <3>4, <3>5, <1>d DEF InstanceInv
    <2> QED  BY <1>7, <2>3, <2>4
  <1>8. CASE UNCHANGED registryVars
    BY <1>8 DEF registryVars, InstanceInv, CallersKnown, Listed, Holds
  <1> QED  BY <1>1, <1>2, <1>3, <1>4, <1>5, <1>6, <1>7, <1>8 DEF RegistryNext

(* Though many ask for a storage at once, and a flight may fail, every holder *)
(* of an instance holds the map's, and so do the lists of the users           *)
(* (load.go:47-88): an instance is published once and never replaced.         *)
THEOREM OneInstanceEach == RegistrySpec => []OneInstance
  <1>1. InstanceInv => OneInstance
    <2> SUFFICES ASSUME InstanceInv  PROVE OneInstance
      OBVIOUS
    <2>1. \A c \in Everyone : Holds(c)
      BY DEF InstanceInv
    <2>2. Listed
      BY DEF InstanceInv
    <2>3. \A u \in DOMAIN lists : lists[u] \subseteq {storages[n] : n \in Names}
      BY <2>2 DEF Listed
    <2> QED  BY <2>1, <2>3 DEF OneInstance, Holds
  <1> QED  BY RegistryStarts, RegistryMoves, <1>1, PTL DEF RegistrySpec

----------------------------------------------------------------------------
(* A batch sent to a Telegram chat (TelegramSave). *)
Pieces == [item : Nat, form : {"whole", "video", "zip"}, k : Nat, n : Nat]
SentBy(messages) == UNION {Range(messages[m]) : m \in DOMAIN messages}
WholeIn(i, S) == \E p \in S : p.item = i /\ \A k \in 1..p.n : Piece(i, p.form, k, p.n) \in S
Sending == pc \in {"upload", "albums"}

SpanInv ==
  /\ Len(items) \in Nat /\ DOMAIN items = 1..Len(items)
  /\ from \in Nat /\ to \in Nat /\ 1 <= from /\ from <= to /\ to <= Len(items)
  /\ EndsGroup(from, to)

(* The items before the group at work are in the chat, whole, and none after it. *)
ChatKept ==
  /\ chat \in Seq(Seq(Pieces)) /\ \A m \in DOMAIN chat : Len(chat[m]) \in 1..MaxAlbum
  /\ \A i \in 1..(from - 1) : Skipped(i) \/ Complete(i)
  /\ \A p \in Sent : p.item <= to
  /\ RepeatedOnlyAfterLoss

(* What is in the chat and what is still to be sent are together all of the group. *)
PiecesComplete ==
  /\ pieces \in Seq(Pieces)
  /\ \A i \in Group : WholeIn(i, Sent \union Range(pieces))
  /\ \A p \in Range(pieces) : p.item \in Group
  /\ \A a, b \in DOMAIN pieces : pieces[a] = pieces[b] => a = b
  /\ \A p, q \in Range(pieces) : p.form = q.form

(* An attempt that has sent nothing finds of its group only what a failed one left; one that has sent *)
(* an album has sent nothing of what remains, and the same form.                                      *)
Fresh == \A p \in Sent : p.item \in Group => p.item \in resent
Onward ==
  \A p \in Sent : p.item \in Group /\ p.item \notin resent =>
    p \notin Range(pieces) /\ \A q \in Range(pieces) : q.form = p.form

WorkInv ==
  /\ pc \in {"inspect", "attempt", "cut", "zip", "upload", "albums", "saved", "failed", "panic"}
  /\ pc = "inspect" => Sent = {}
  /\ pc \in {"cut", "zip"} => Big
  /\ Sending => PiecesComplete
  /\ pc \in {"attempt", "cut", "zip", "upload"} => Fresh
  /\ pc = "albums" => Onward
  /\ pc = "saved" => to = Len(items) /\ \A i \in Group : Skipped(i) \/ Complete(i)

BatchInv == SpanInv /\ ChatKept /\ WorkInv

LEMMA SentIsSentBy == chat \in Seq(Seq(Pieces)) => Sent = SentBy(chat)
  BY DEF Sent, SentBy, Range

LEMMA SentAfter ==
  ASSUME NEW messages \in Seq(Seq(Pieces)), NEW a \in Seq(Pieces)
  PROVE  /\ Append(messages, a) \in Seq(Seq(Pieces)) /\ Len(Append(messages, a)) = Len(messages) + 1
         /\ \A m \in DOMAIN messages : Append(messages, a)[m] = messages[m]
         /\ Append(messages, a)[Len(messages) + 1] = a
         /\ SentBy(Append(messages, a)) = SentBy(messages) \union Range(a)
  <1> DEFINE after == Append(messages, a)
  <1>1. /\ after \in Seq(Seq(Pieces)) /\ Len(after) = Len(messages) + 1
        /\ \A m \in 1..Len(messages) : after[m] = messages[m]
        /\ after[Len(messages) + 1] = a
    OBVIOUS
  <1>2. Len(messages) \in Nat /\ DOMAIN messages = 1..Len(messages) /\ DOMAIN after = 1..Len(messages) + 1
    BY <1>1
  <1> HIDE DEF after
  <1>3. \A m \in DOMAIN after : m \in DOMAIN messages \/ m = Len(messages) + 1
    BY <1>2
  <1>4. SentBy(after) = SentBy(messages) \union Range(a)
    <2>1. ASSUME NEW p \in SentBy(after) PROVE p \in SentBy(messages) \union Range(a)
      BY <1>1, <1>2, <1>3, <2>1 DEF SentBy
    <2>2. ASSUME NEW p \in SentBy(messages) PROVE p \in SentBy(after)
      <3>1. PICK m \in DOMAIN messages : p \in Range(messages[m])
        BY <2>2 DEF SentBy
      <3>2. m \in DOMAIN after /\ after[m] = messages[m]
        BY <1>1, <1>2
      <3> QED  BY <3>1, <3>2 DEF SentBy
    <2>3. ASSUME NEW p \in Range(a) PROVE p \in SentBy(after)
      <3>1. Len(messages) + 1 \in DOMAIN after
        BY <1>2
      <3> QED  BY <1>1, <3>1, <2>3 DEF SentBy
    <2> QED  BY <2>1, <2>2, <2>3
  <1> QED  BY <1>1, <1>2, <1>4 DEF after

(* An album and the rest of the pieces. *)
LEMMA AlbumAndRest ==
  ASSUME pieces \in Seq(Pieces), pieces # <<>>
  PROVE  /\ Album \in Seq(Pieces) /\ Rest \in Seq(Pieces) /\ Len(Album) \in 1..MaxAlbum
         /\ Range(Album) \union Range(Rest) = Range(pieces)
         /\ (\A a, b \in DOMAIN pieces : pieces[a] = pieces[b] => a = b) =>
              /\ Range(Album) \cap Range(Rest) = {}
              /\ \A a, b \in DOMAIN Rest : Rest[a] = Rest[b] => a = b
         /\ Rest = <<>> => Range(Rest) = {}
  <1>0. MaxAlbum \in Nat /\ 1 <= MaxAlbum
    BY TelegramAssumption DEF TelegramAssumption
  <1>1. PICK l \in Nat : l = Len(pieces)
    OBVIOUS
  <1>2. 1 <= l /\ DOMAIN pieces = 1..l /\ \A i \in 1..l : pieces[i] \in Pieces
    BY <1>1
  <1>3. PICK c \in Nat : c = IF l < MaxAlbum THEN l ELSE MaxAlbum
    BY <1>0
  <1>4. 1 <= c /\ c <= l /\ c <= MaxAlbum
    BY <1>0, <1>2, <1>3
  <1>5. Album = SubSeq(pieces, 1, c)
    BY <1>1, <1>3 DEF Album
  <1>6. Album \in Seq(Pieces) /\ Len(Album) = c /\ \A i \in 1..c : Album[i] = pieces[i]
    <2>1. \A i \in 1..c : pieces[i] \in Pieces
      BY <1>2, <1>4
    <2>2. /\ SubSeq(pieces, 1, c) \in Seq(Pieces) /\ Len(SubSeq(pieces, 1, c)) = (IF 1 <= c THEN c - 1 + 1 ELSE 0)
          /\ \A i \in 1..c - 1 + 1 : SubSeq(pieces, 1, c)[i] = pieces[1 + i - 1]
      BY <2>1, SubSeqProperties
    <2>3. c - 1 + 1 = c /\ \A i \in 1..c : 1 + i - 1 = i
      OBVIOUS
    <2> QED  BY <1>4, <1>5, <2>2, <2>3
  <1>7. Rest = SubSeq(pieces, c + 1, l)
    BY <1>1, <1>6 DEF Rest
  <1>8. Rest \in Seq(Pieces) /\ Len(Rest) = l - c /\ \A i \in 1..l - c : Rest[i] = pieces[c + i]
    <2>1. \A i \in c + 1..l : pieces[i] \in Pieces
      BY <1>2, <1>4
    <2>2. /\ SubSeq(pieces, c + 1, l) \in Seq(Pieces)
          /\ Len(SubSeq(pieces, c + 1, l)) = (IF c + 1 <= l THEN l - (c + 1) + 1 ELSE 0)
          /\ \A i \in 1..l - (c + 1) + 1 : SubSeq(pieces, c + 1, l)[i] = pieces[c + 1 + i - 1]
      BY <2>1, SubSeqProperties
    <2>3. l - (c + 1) + 1 = l - c /\ \A i \in 1..l - c : c + 1 + i - 1 = c + i
      BY <1>4
    <2>4. (IF c + 1 <= l THEN l - (c + 1) + 1 ELSE 0) = l - c
      BY <1>4
    <2> QED  BY <1>7, <2>2, <2>3, <2>4
  <1>9. DOMAIN Album = 1..c /\ DOMAIN Rest = 1..l - c
    BY <1>4, <1>6, <1>8
  <1>10. \A i \in 1..l : i \in 1..c \/ (i - c \in 1..l - c /\ c + (i - c) = i)
    BY <1>4
  <1>11. \A i \in 1..l - c : c + i \in 1..l /\ c + i \notin 1..c
    BY <1>4
  <1>12. Range(Album) \union Range(Rest) = Range(pieces)
    <2>1. ASSUME NEW i \in 1..l PROVE pieces[i] \in Range(Album) \union Range(Rest)
      <3>1. CASE i \in 1..c
        BY <1>6, <1>9, <3>1 DEF Range
      <3>2. CASE i - c \in 1..l - c /\ c + (i - c) = i
        BY <1>8, <1>9, <3>2 DEF Range
      <3> QED  BY <1>10, <3>1, <3>2
    <2>2. ASSUME NEW i \in 1..c PROVE Album[i] \in Range(pieces)
      BY <1>2, <1>4, <1>6 DEF Range
    <2>3. ASSUME NEW i \in 1..l - c PROVE Rest[i] \in Range(pieces)
      BY <1>2, <1>8, <1>11 DEF Range
    <2> QED  BY <1>2, <1>9, <2>1, <2>2, <2>3 DEF Range
  <1>13. ASSUME \A a, b \in DOMAIN pieces : pieces[a] = pieces[b] => a = b
         PROVE  /\ Range(Album) \cap Range(Rest) = {}
                /\ \A a, b \in DOMAIN Rest : Rest[a] = Rest[b] => a = b
    <2>1. ASSUME NEW i \in 1..c, NEW j \in 1..l - c, Album[i] = Rest[j] PROVE FALSE
      <3>1. pieces[i] = pieces[c + j] /\ i \in 1..l /\ c + j \in 1..l /\ i # c + j
        BY <1>4, <1>6, <1>8, <1>11, <2>1
      <3> QED  BY <1>2, <1>13, <3>1
    <2>2. ASSUME NEW i \in 1..l - c, NEW j \in 1..l - c, Rest[i] = Rest[j] PROVE i = j
      <3>1. pieces[c + i] = pieces[c + j] /\ c + i \in 1..l /\ c + j \in 1..l
        BY <1>8, <1>11, <2>2
      <3>2. c + i = c + j
        BY <1>2, <1>13, <3>1
      <3> QED  BY <3>2
    <2> QED  BY <1>9, <2>1, <2>2 DEF Range
  <1>14. Rest = <<>> => Range(Rest) = {}
    BY DEF Range
  <1> QED  BY <1>4, <1>6, <1>8, <1>12, <1>13, <1>14

LEMMA WholeStays ==
  ASSUME NEW i, NEW S, NEW T, S \subseteq T, WholeIn(i, S)
  PROVE  WholeIn(i, T)
  BY DEF WholeIn

LEMMA CompleteIsWhole == \A i : Complete(i) <=> WholeIn(i, Sent)
  BY DEF Complete, WholeIn

LEMMA BatchStarts == TelegramInit => BatchInv
  <1> SUFFICES ASSUME TelegramInit PROVE BatchInv
    OBVIOUS
  <1>1. items # <<>> /\ items \in Seq({items[i] : i \in DOMAIN items})
    BY TelegramAssumption DEF TelegramInit, TelegramAssumption
  <1>2. SpanInv
    <2>1. Len(items) \in Nat /\ DOMAIN items = 1..Len(items)
      BY <1>1
    <2>2. from = 1 /\ to \in 1..Len(items) /\ EndsGroup(1, to)
      BY <2>1 DEF TelegramInit
    <2> QED  BY <2>1, <2>2 DEF SpanInv
  <1>3. chat = <<>> /\ pc = "inspect" /\ from = 1 /\ Sent = {}
    BY DEF TelegramInit, Sent
  <1>4. ChatKept
    BY <1>3 DEF ChatKept, RepeatedOnlyAfterLoss
  <1>5. WorkInv
    BY <1>3 DEF WorkInv, Fresh, Sending
  <1> QED  BY <1>2, <1>4, <1>5 DEF BatchInv

(* A group that is done with: the next one has nothing in the chat yet. *)
LEMMA SavedKeeps ==
  ASSUME BatchInv, GroupSaved, UNCHANGED <<items, config>>,
         chat' \in Seq(Seq(Pieces)), \A m \in DOMAIN chat' : Len(chat'[m]) \in 1..MaxAlbum,
         Sent \subseteq Sent', \A p \in Sent' : p.item \in Nat /\ p.item <= to, RepeatedOnlyAfterLoss',
         \A i \in Group : Skipped(i) \/ WholeIn(i, Sent')
  PROVE  BatchInv'
  <1>1. \A i : Skipped(i)' <=> Skipped(i)
    BY DEF Skipped
  <1>2. SpanInv /\ from \in Nat /\ to \in Nat /\ Len(items) \in Nat
    BY DEF BatchInv, SpanInv
  <1>3. \A i \in 1..to : Skipped(i)' \/ Complete(i)'
    <2> SUFFICES ASSUME NEW i \in 1..to PROVE Skipped(i) \/ WholeIn(i, Sent')
      BY <1>1 DEF Complete, WholeIn
    <2>1. CASE i \in Group
      BY <2>1
    <2>2. CASE i \in 1..(from - 1)
      <3>1. Skipped(i) \/ WholeIn(i, Sent)
        BY <2>2, CompleteIsWhole DEF BatchInv, ChatKept
      <3>2. PICK old, new : old = Sent /\ new = Sent'
        OBVIOUS
      <3> QED  BY <3>1, <3>2, WholeStays
    <2>3. i \in Group \/ i \in 1..(from - 1)
      BY <1>2 DEF Group
    <2> QED  BY <2>1, <2>2, <2>3
  <1>4. CASE to = Len(items) /\ pc' = "saved" /\ UNCHANGED spanVars
    <2>1. SpanInv'
      BY <1>2, <1>4 DEF SpanInv, spanVars, EndsGroup, Joins, Alone
    <2>2. from' = from /\ to' = to /\ Group' = Group /\ Group \subseteq 1..to /\ 1..(from - 1) \subseteq 1..to
      BY <1>2, <1>4 DEF spanVars, Group, SpanInv
    <2>3. ChatKept'
      BY <1>3, <2>2 DEF ChatKept
    <2>4. WorkInv'
      BY <1>3, <1>4, <2>2 DEF WorkInv, Sending
    <2> QED  BY <2>1, <2>3, <2>4 DEF BatchInv
  <1>5. CASE /\ from' = to + 1 /\ to' \in {k \in DOMAIN items : k > to /\ EndsGroup(to + 1, k)}
             /\ pc' = "attempt"
    <2>1. to' \in DOMAIN items /\ to' > to /\ EndsGroup(to + 1, to')
      BY <1>5
    <2>2. to' \in 1..Len(items)
      BY <2>1 DEF BatchInv, SpanInv
    <2>3. EndsGroup(from, to)'
      BY <1>5, <2>1 DEF EndsGroup, Joins, Alone
    <2>4. SpanInv'
      BY <1>2, <1>5, <2>1, <2>2, <2>3 DEF SpanInv
    <2>5. ChatKept'
      <3>1. 1..(from' - 1) = 1..to
        BY <1>2, <1>5
      <3>2. \A p \in Sent' : p.item <= to'
        BY <1>2, <2>1, <2>2
      <3> QED  BY <1>3, <3>1, <3>2 DEF ChatKept
    <2>6. Fresh'
      BY <1>2, <1>5 DEF Fresh, Group
    <2>7. WorkInv'
      BY <1>5, <2>6 DEF WorkInv, Sending
    <2> QED  BY <2>4, <2>5, <2>7 DEF BatchInv
  <1> QED  BY <1>4, <1>5 DEF GroupSaved, Goto

(* An attempt that fails notes what it leaves in the chat. *)
LEMMA FailedKeeps ==
  ASSUME BatchInv, NEW left, AttemptFailed(left), UNCHANGED <<items, config>>,
         chat' \in Seq(Seq(Pieces)), \A m \in DOMAIN chat' : Len(chat'[m]) \in 1..MaxAlbum,
         Sent \subseteq Sent', \A p \in Sent' : p.item <= to,
         \A p \in Sent' : p.item \in Group => p.item \in left,
         \A p \in Sent' : (Twice(p)' \/ \E q \in Sent' : q.item = p.item /\ q.form # p.form) => p.item \in resent'
  PROVE  BatchInv'
  <1>1. from' = from /\ to' = to /\ resent' = resent \union (Group \cap left) /\ pc' \in {"attempt", "failed"}
    BY DEF AttemptFailed, Goto, spanVars
  <1>2. SpanInv'
    BY <1>1 DEF BatchInv, SpanInv, EndsGroup, Joins, Alone
  <1>3. \A i \in 1..(from - 1) : Skipped(i)' \/ Complete(i)'
    <2> SUFFICES ASSUME NEW i \in 1..(from - 1) PROVE Skipped(i) \/ WholeIn(i, Sent')
      BY DEF Complete, WholeIn, Skipped
    <2>1. Skipped(i) \/ WholeIn(i, Sent)
      BY CompleteIsWhole DEF BatchInv, ChatKept
    <2>2. PICK old, new : old = Sent /\ new = Sent'
      OBVIOUS
    <2> QED  BY <2>1, <2>2, WholeStays
  <1>4. ChatKept'
    BY <1>1, <1>3 DEF ChatKept, RepeatedOnlyAfterLoss
  <1>5. Fresh'
    BY <1>1 DEF Fresh, Group
  <1>6. WorkInv'
    BY <1>1, <1>5 DEF WorkInv, Sending
  <1> QED  BY <1>2, <1>4, <1>6 DEF BatchInv

(* An album in the chat: of the items that no failed attempt has sent, nothing is there twice or in two forms. *)
LEMMA AlbumSent ==
  ASSUME BatchInv, Sending, pieces # <<>>, chat' = Append(chat, Album)
  PROVE  /\ chat' \in Seq(Seq(Pieces)) /\ \A m \in DOMAIN chat' : Len(chat'[m]) \in 1..MaxAlbum
         /\ Sent' = Sent \union Range(Album)
         /\ \A p \in Sent' : p.item \in Nat /\ p.item <= to
         /\ \A p \in Sent' : (Twice(p)' \/ \E q \in Sent' : q.item = p.item /\ q.form # p.form) => p.item \in resent
  <1>1. /\ pieces \in Seq(Pieces) /\ chat \in Seq(Seq(Pieces)) /\ \A p \in Range(pieces) : p.item \in Group
        /\ \A p, q \in Range(pieces) : p.form = q.form
    BY DEF BatchInv, WorkInv, ChatKept, PiecesComplete
  <1>2. Album \in Seq(Pieces) /\ Len(Album) \in 1..MaxAlbum /\ Range(Album) \subseteq Range(pieces)
    BY <1>1, AlbumAndRest
  <1>3. PICK old : old = chat
    OBVIOUS
  <1>4. PICK a : a = Album
    OBVIOUS
  <1>5. /\ old \in Seq(Seq(Pieces)) /\ a \in Seq(Pieces) /\ chat' = Append(old, a) /\ Len(old) \in Nat
        /\ DOMAIN old = 1..Len(old)
    BY <1>1, <1>2, <1>3, <1>4
  <1>6. /\ chat' \in Seq(Seq(Pieces)) /\ Len(chat') = Len(old) + 1
        /\ \A m \in DOMAIN old : chat'[m] = old[m]
        /\ chat'[Len(old) + 1] = a
        /\ SentBy(chat') = SentBy(old) \union Range(a)
    BY <1>5, SentAfter
  <1>7. \A m \in DOMAIN chat' : m \in DOMAIN old \/ m = Len(old) + 1
    BY <1>5, <1>6
  <1>8. Sent' = SentBy(chat')
    BY <1>6 DEF Sent, SentBy, Range
  <1>9. Sent' = Sent \union Range(Album)
    BY <1>1, <1>3, <1>4, <1>6, <1>8, SentIsSentBy
  <1>10. \A m \in DOMAIN chat' : Len(chat'[m]) \in 1..MaxAlbum
    BY <1>2, <1>3, <1>4, <1>6, <1>7 DEF BatchInv, ChatKept
  <1>11. \A p \in Sent : p.item \in Nat /\ p.item <= to
    <2>1. \A m \in DOMAIN chat : \A i \in DOMAIN chat[m] : chat[m][i] \in Pieces
      BY <1>1
    <2>2. \A p \in Sent : p \in Pieces
      BY <2>1 DEF Sent
    <2> QED  BY <2>2 DEF Pieces, BatchInv, ChatKept
  <1>12. \A p \in Range(pieces) : p.item \in Nat /\ p.item <= to
    BY <1>1 DEF Group, BatchInv, SpanInv
  <1>13. \A p \in Sent' : p.item \in Nat /\ p.item <= to
    BY <1>2, <1>9, <1>11, <1>12
  <1>14. ASSUME NEW p \in Sent, NEW q \in Range(Album), p.item = q.item, p.item \notin resent
         PROVE  p # q /\ p.form = q.form
    <2>1. q \in Range(pieces) /\ p.item \in Group
      BY <1>1, <1>2, <1>14
    <2>2. pc # "upload"
      BY <1>14, <2>1 DEF BatchInv, WorkInv, Fresh
    <2>3. Onward
      BY <2>2 DEF BatchInv, WorkInv, Sending
    <2> QED  BY <1>14, <2>1, <2>3 DEF Onward
  <1>15. ASSUME NEW p \in Sent', p.item \notin resent PROVE ~Twice(p)'
    <2> SUFFICES ASSUME NEW m \in DOMAIN chat', NEW n \in DOMAIN chat', m # n, p \in Range(chat'[m]), p \in Range(chat'[n])
                 PROVE  FALSE
      BY DEF Twice
    <2>1. CASE m \in DOMAIN old /\ n \in DOMAIN old
      <3>1. p \in Range(chat[m]) /\ p \in Range(chat[n]) /\ m \in DOMAIN chat /\ n \in DOMAIN chat
        BY <1>3, <1>6, <2>1
      <3>2. Twice(p) /\ p \in Sent
        BY <3>1 DEF Twice, Sent, Range
      <3> QED  BY <1>15, <3>2 DEF BatchInv, ChatKept, RepeatedOnlyAfterLoss
    <2>2. ASSUME NEW x \in DOMAIN old, p \in Range(chat'[x]), p \in Range(a) PROVE FALSE
      <3>1. p \in Sent
        BY <1>3, <1>6, <2>2 DEF Sent, Range
      <3> QED  BY <1>4, <1>14, <1>15, <2>2, <3>1
    <2> QED  BY <1>6, <1>7, <2>1, <2>2
  <1>16. ASSUME NEW p \in Sent', p.item \notin resent, NEW q \in Sent', q.item = p.item PROVE q.form = p.form
    <2>1. CASE p \in Sent /\ q \in Sent
      BY <1>16, <2>1 DEF BatchInv, ChatKept, RepeatedOnlyAfterLoss
    <2>2. CASE p \in Sent /\ q \in Range(Album)
      BY <1>14, <1>16, <2>2
    <2>3. CASE p \in Range(Album) /\ q \in Sent
      BY <1>14, <1>16, <2>3
    <2>4. CASE p \in Range(Album) /\ q \in Range(Album)
      BY <1>1, <1>2, <2>4
    <2> QED  BY <1>9, <2>1, <2>2, <2>3, <2>4
  <1> QED  BY <1>6, <1>9, <1>10, <1>13, <1>15, <1>16

Distinct(ps) == \A c, d \in DOMAIN ps : ps[c] = ps[d] => c = d

LEMMA PieceFields ==
  ASSUME NEW i \in Nat, NEW form \in {"whole", "video", "zip"}, NEW k \in Nat, NEW n \in Nat
  PROVE  /\ Piece(i, form, k, n) \in Pieces
         /\ Piece(i, form, k, n).item = i /\ Piece(i, form, k, n).form = form
         /\ Piece(i, form, k, n).k = k /\ Piece(i, form, k, n).n = n
  BY DEF Piece, Pieces

(* Pieces about to be sent: of each item of the group once, whole; or of the one big item, in parts. *)
LEMMA WholePieces ==
  ASSUME NEW a \in Nat, NEW b \in Nat, a <= b, NEW ps,
         ps = [k \in 1..(b - a + 1) |-> Piece(a + k - 1, "whole", 1, 1)]
  PROVE  /\ ps \in Seq(Pieces) /\ \A i \in a..b : WholeIn(i, Range(ps))
         /\ \A p \in Range(ps) : p.item \in a..b /\ p.form = "whole"
         /\ Distinct(ps)
  <1>0. PICK l \in Nat : l = b - a + 1
    OBVIOUS
  <1>1. \A k \in 1..l : a + k - 1 \in a..b /\ a + k - 1 \in Nat
    BY <1>0
  <1>2. DOMAIN ps = 1..l /\ \A k \in 1..l : ps[k] = Piece(a + k - 1, "whole", 1, 1)
    BY <1>0
  <1>3. ASSUME NEW k \in 1..l
        PROVE  ps[k] \in Pieces /\ ps[k].item = a + k - 1 /\ ps[k].form = "whole" /\ ps[k].n = 1
    <2>1. PICK i \in Nat : i = a + k - 1
      BY <1>1
    <2>2. ps[k] = Piece(i, "whole", 1, 1)
      BY <1>2, <2>1
    <2>3. /\ Piece(i, "whole", 1, 1) \in Pieces /\ Piece(i, "whole", 1, 1).item = i
          /\ Piece(i, "whole", 1, 1).form = "whole" /\ Piece(i, "whole", 1, 1).n = 1
      BY PieceFields
    <2> QED  BY <2>1, <2>2, <2>3
  <1>4. ps = [k \in 1..l |-> ps[k]]
    BY <1>0
  <1>5. ps \in Seq(Pieces)
    <2>1. \A k \in 1..l : ps[k] \in Pieces
      BY <1>3
    <2> QED  BY <1>0, <1>4, <2>1
  <1>6. ASSUME NEW i \in a..b PROVE WholeIn(i, Range(ps))
    <2>1. i - a + 1 \in 1..l /\ a + (i - a + 1) - 1 = i
      BY <1>0
    <2>2. PICK k \in 1..l : a + k - 1 = i
      BY <2>1
    <2>3. ps[k] = Piece(i, "whole", 1, 1) /\ ps[k].item = i /\ ps[k].form = "whole" /\ ps[k].n = 1
      BY <1>2, <1>3, <2>2
    <2>4. ps[k] \in Range(ps)
      BY <1>2 DEF Range
    <2>5. \A j \in 1..1 : j = 1
      OBVIOUS
    <2>6. \A j \in 1..ps[k].n : Piece(i, ps[k].form, j, ps[k].n) \in Range(ps)
      BY <2>3, <2>4, <2>5
    <2> QED  BY <2>3, <2>4, <2>6 DEF WholeIn
  <1>7. \A c, d \in 1..l : ps[c] = ps[d] => c = d
    <2> SUFFICES ASSUME NEW c \in 1..l, NEW d \in 1..l, ps[c] = ps[d] PROVE c = d
      OBVIOUS
    <2>1. a + c - 1 = a + d - 1
      BY <1>3
    <2> QED  BY <2>1
  <1>8. \A p \in Range(ps) : p.item \in a..b /\ p.form = "whole"
    <2> SUFFICES ASSUME NEW k \in 1..l PROVE ps[k].item \in a..b /\ ps[k].form = "whole"
      BY <1>2 DEF Range
    <2> QED  BY <1>1, <1>3
  <1> QED  BY <1>2, <1>5, <1>6, <1>7, <1>8 DEF Distinct

LEMMA PartPieces ==
  ASSUME NEW a \in Nat, NEW n \in Nat, n >= 1, NEW form \in {"zip", "video"}
  PROVE  /\ Parts(a, form, n) \in Seq(Pieces) /\ WholeIn(a, Range(Parts(a, form, n)))
         /\ \A p \in Range(Parts(a, form, n)) : p.item = a /\ p.form = form
         /\ Distinct(Parts(a, form, n))
  <1>0. PICK ps : ps = Parts(a, form, n)
    OBVIOUS
  <1>1. DOMAIN ps = 1..n /\ ps = [k \in 1..n |-> ps[k]] /\ \A k \in 1..n : ps[k] = Piece(a, form, k, n)
    BY <1>0 DEF Parts
  <1>2. \A k \in 1..n : ps[k] \in Pieces /\ ps[k].item = a /\ ps[k].form = form /\ ps[k].n = n /\ ps[k].k = k
    BY <1>1, PieceFields
  <1>3. ps \in Seq(Pieces)
    BY <1>1, <1>2
  <1>4. \A k \in 1..n : Piece(a, form, k, n) \in Range(ps)
    BY <1>1 DEF Range
  <1>5. WholeIn(a, Range(ps))
    <2>1. 1 \in 1..n /\ ps[1] \in Range(ps) /\ ps[1].item = a /\ ps[1].form = form /\ ps[1].n = n
      BY <1>1, <1>2 DEF Range
    <2> QED  BY <1>4, <2>1 DEF WholeIn
  <1>6. \A c, d \in 1..n : ps[c] = ps[d] => c = d
    BY <1>2
  <1>7. \A p \in Range(ps) : p.item = a /\ p.form = form
    BY <1>1, <1>2 DEF Range
  <1>8. Distinct(ps)
    BY <1>1, <1>6 DEF Distinct
  <1> QED  BY <1>0, <1>3, <1>5, <1>7, <1>8

(* What a step that leaves the chat and the group alone leaves true. *)
LEMMA Untouched ==
  ASSUME BatchInv, UNCHANGED <<items, config, chat, from, to, resent>>
  PROVE  /\ SpanInv' /\ ChatKept' /\ (Fresh => Fresh') /\ (Big => Big') /\ Sent' = Sent /\ Group' = Group
         /\ \A i : (Skipped(i) => Skipped(i)') /\ (Complete(i) => Complete(i)')
  <1>1. SpanInv'
    BY DEF BatchInv, SpanInv, EndsGroup, Joins, Alone
  <1>2. Sent' = Sent /\ Group' = Group
    BY DEF Sent, Group
  <1>3. \A i : (Skipped(i) => Skipped(i)') /\ (Complete(i) => Complete(i)')
    BY <1>2 DEF Skipped, Complete
  <1>4. (Fresh => Fresh') /\ (Big => Big')
    BY <1>2 DEF Fresh, Big
  <1>5. RepeatedOnlyAfterLoss'
    BY <1>2 DEF BatchInv, ChatKept, RepeatedOnlyAfterLoss, Twice
  <1>6. ChatKept'
    BY <1>2, <1>3, <1>5 DEF BatchInv, ChatKept
  <1> QED  BY <1>1, <1>2, <1>3, <1>4, <1>6

LEMMA SentTyped ==
  ASSUME BatchInv
  PROVE  /\ \A p \in Sent : p.item \in Nat /\ p.item <= to
         /\ \A p \in Sent : p.item \in Group => p.item \in Left
  <1>1. chat \in Seq(Seq(Pieces)) /\ \A p \in Sent : p.item <= to
    BY DEF BatchInv, ChatKept
  <1>2. \A m \in DOMAIN chat : \A i \in DOMAIN chat[m] : chat[m][i] \in Pieces
    BY <1>1
  <1>3. \A p \in Sent : p \in Pieces
    BY <1>2 DEF Sent
  <1>4. Group \subseteq DOMAIN items
    BY DEF BatchInv, SpanInv, Group
  <1>5. ASSUME NEW p \in Sent, p.item \in Group PROVE p.item \in Left
    <2>1. PICK m \in DOMAIN chat : p \in {chat[m][i] : i \in DOMAIN chat[m]}
      BY DEF Sent
    <2>2. PICK i \in DOMAIN chat[m] : p = chat[m][i]
      BY <2>1
    <2> QED  BY <1>4, <1>5, <2>2 DEF Left
  <1> QED  BY <1>1, <1>3, <1>5 DEF Pieces

(* An attempt that fails and sends nothing. *)
LEMMA FailsQuietly ==
  ASSUME BatchInv, AttemptFailed(Left), UNCHANGED <<items, config, chat>>
  PROVE  BatchInv'
  <1>1. Sent' = Sent
    BY DEF Sent
  <1>2. resent \subseteq resent'
    BY DEF AttemptFailed
  <1>3. \A p \in Sent' : (Twice(p)' \/ \E q \in Sent' : q.item = p.item /\ q.form # p.form) => p.item \in resent'
    BY <1>1, <1>2 DEF BatchInv, ChatKept, RepeatedOnlyAfterLoss, Twice
  <1>4. chat' \in Seq(Seq(Pieces)) /\ \A m \in DOMAIN chat' : Len(chat'[m]) \in 1..MaxAlbum
    BY DEF BatchInv, ChatKept
  <1>5. \A p \in Sent' : p.item <= to /\ (p.item \in Group => p.item \in Left)
    BY <1>1, SentTyped
  <1>6. PICK left : left = Left
    OBVIOUS
  <1>7. AttemptFailed(left)
    BY <1>6
  <1>8. \A p \in Sent' : p.item \in Group => p.item \in left
    BY <1>5, <1>6
  <1> QED  BY <1>1, <1>3, <1>4, <1>5, <1>7, <1>8, FailedKeeps

LEMMA InspectKeeps == BatchInv /\ (Inspect \/ InspectFails) => BatchInv'
  <1> SUFFICES ASSUME BatchInv, Inspect \/ InspectFails PROVE BatchInv'
    OBVIOUS
  <1>1. UNCHANGED <<items, config, chat, from, to, resent>> /\ pc = "inspect" /\ pc' \in {"attempt", "failed"}
    BY DEF Inspect, InspectFails, inputVars, spanVars, Goto
  <1>2. SpanInv' /\ ChatKept' /\ Sent' = Sent
    BY <1>1, Untouched
  <1>3. Fresh'
    BY <1>1, <1>2 DEF BatchInv, WorkInv, Fresh
  <1> QED  BY <1>1, <1>2, <1>3 DEF BatchInv, WorkInv, Sending

LEMMA AttemptKeeps == BatchInv /\ Attempt => BatchInv'
  <1> SUFFICES ASSUME BatchInv, Attempt PROVE BatchInv'
    OBVIOUS
  <1>1. UNCHANGED <<items, config, chat>> /\ pc = "attempt"
    BY DEF Attempt, inputVars
  <1>2. Fresh /\ SpanInv
    BY <1>1 DEF BatchInv, WorkInv
  <1>3. CASE SkippedGroup /\ GroupSaved /\ UNCHANGED resent
    <2>0. Sent' = Sent /\ resent' = resent
      BY <1>1, <1>3 DEF Sent
    <2>1. Sent' = Sent /\ RepeatedOnlyAfterLoss'
      BY <1>1, <2>0 DEF BatchInv, ChatKept, RepeatedOnlyAfterLoss, Twice
    <2>2. \A i \in Group : Skipped(i)
      BY <1>2, <1>3 DEF SkippedGroup, Big, Skipped, Group, SpanInv
    <2>3. chat' \in Seq(Seq(Pieces)) /\ \A m \in DOMAIN chat' : Len(chat'[m]) \in 1..MaxAlbum
      BY <1>1 DEF BatchInv, ChatKept
    <2> QED  BY <1>1, <1>3, <2>1, <2>2, <2>3, SavedKeeps, SentTyped
  <1>4. CASE AttemptFailed(Left)
    BY <1>1, <1>4, FailsQuietly
  <1>5. CASE /\ UNCHANGED <<spanVars, resent>>
             /\ pieces' = IF Big THEN <<>> ELSE [k \in 1..(to - from + 1) |-> Piece(from + k - 1, "whole", 1, 1)]
             /\ Goto(CASE ~Big -> "upload"
                       [] Big /\ config.splitVideo /\ items[from].video -> "cut"
                       [] OTHER -> "zip")
    <2>1. /\ SpanInv' /\ ChatKept' /\ Fresh' /\ (Big => Big') /\ Sent' = Sent /\ Group' = Group
      BY <1>1, <1>2, <1>5, Untouched DEF spanVars
    <2>2. CASE Big
      <3>1. pc' \in {"cut", "zip"}
        BY <1>5, <2>2 DEF Goto
      <3> QED  BY <2>1, <2>2, <3>1 DEF BatchInv, WorkInv, Sending
    <2>3. CASE ~Big
      <3>1. pc' = "upload"
        BY <1>5, <2>3 DEF Goto
      <3>2. pieces' = [k \in 1..(to - from + 1) |-> Piece(from + k - 1, "whole", 1, 1)]
        BY <1>5, <2>3
      <3>3. PICK a, b, S, ps : a = from /\ b = to /\ S = Sent /\ ps = pieces'
        OBVIOUS
      <3>4. a \in Nat /\ b \in Nat /\ a <= b /\ a..b = Group
        BY <1>2, <3>3 DEF SpanInv, Group
      <3>5. ps = [k \in 1..(b - a + 1) |-> Piece(a + k - 1, "whole", 1, 1)]
        BY <3>2, <3>3
      <3>6. /\ ps \in Seq(Pieces) /\ \A i \in a..b : WholeIn(i, Range(ps))
            /\ \A p \in Range(ps) : p.item \in a..b /\ p.form = "whole"
            /\ Distinct(ps)
        BY <3>4, <3>5, WholePieces
      <3>7. /\ pieces' \in Seq(Pieces) /\ \A i \in a..b : WholeIn(i, S \union Range(pieces'))
            /\ \A p \in Range(pieces') : p.item \in a..b /\ p.form = "whole"
            /\ \A c, d \in DOMAIN pieces' : pieces'[c] = pieces'[d] => c = d
        BY <3>3, <3>6, WholeStays DEF Distinct
      <3>8. PiecesComplete'
        <4>1. \A i \in Group' : WholeIn(i, Sent \union Range(pieces'))
          BY <2>1, <3>3, <3>4, <3>7
        <4>2. \A i \in Group' : WholeIn(i, Sent \union Range(pieces))'
          BY <2>1, <4>1 DEF WholeIn, Range
        <4> QED  BY <2>1, <3>4, <3>7, <4>2 DEF PiecesComplete, Range
      <3> QED  BY <2>1, <3>1, <3>8 DEF BatchInv, WorkInv, Sending
    <2> QED  BY <2>2, <2>3
  <1> QED  BY <1>3, <1>4, <1>5 DEF Attempt

(* The parts of the one big item of the group are all that it is to be sent as. *)
LEMMA PartsComplete ==
  ASSUME BatchInv, Big, UNCHANGED <<items, config, chat, from, to, resent>>,
         NEW n \in Nat, n >= 1, NEW form \in {"zip", "video"}, pieces' = Parts(from, form, n)
  PROVE  PiecesComplete'
  <1>1. PICK a, S, ps : a = from /\ S = Sent /\ ps = pieces'
    OBVIOUS
  <1>2. a \in Nat /\ Group = {a} /\ Group' = Group /\ Sent' = Sent
    BY <1>1, Untouched DEF Group, Big, BatchInv, SpanInv
  <1>3. ps = Parts(a, form, n)
    BY <1>1
  <1>4. /\ ps \in Seq(Pieces) /\ WholeIn(a, Range(ps))
        /\ \A p \in Range(ps) : p.item = a /\ p.form = form
        /\ Distinct(ps)
    BY <1>2, <1>3, PartPieces
  <1>5. /\ pieces' \in Seq(Pieces) /\ WholeIn(a, S \union Range(pieces'))
        /\ \A p \in Range(pieces') : p.item = a /\ p.form = form
        /\ \A c, d \in DOMAIN pieces' : pieces'[c] = pieces'[d] => c = d
    BY <1>1, <1>4, WholeStays DEF Distinct
  <1>6. WholeIn(a, Sent \union Range(pieces'))
    BY <1>1, <1>5
  <1>7. \A i \in Group' : WholeIn(i, Sent \union Range(pieces))'
    BY <1>2, <1>6 DEF WholeIn, Range
  <1> QED  BY <1>2, <1>5, <1>7 DEF PiecesComplete, Range

LEMMA CutKeeps == BatchInv /\ (Cut \/ CutGivenUp \/ CreateZip) => BatchInv'
  <1> SUFFICES ASSUME BatchInv, Cut \/ CutGivenUp \/ CreateZip PROVE BatchInv'
    OBVIOUS
  <1>1. UNCHANGED <<items, config, chat, from, to, resent>> /\ pc \in {"cut", "zip"}
    BY DEF Cut, CutGivenUp, CreateZip, inputVars, spanVars
  <1>2. Fresh /\ Big
    BY <1>1 DEF BatchInv, WorkInv
  <1>3. SpanInv' /\ ChatKept' /\ Fresh' /\ Big'
    BY <1>1, <1>2, Untouched
  <1>4. MaxAlbum \in Nat /\ MaxParts \in Nat
    BY TelegramAssumption DEF TelegramAssumption
  <1>5. CASE pc' \in {"cut", "zip", "panic"}
    BY <1>3, <1>5 DEF BatchInv, WorkInv, Sending
  <1>6. ASSUME NEW n \in 2..MaxAlbum, pieces' = Parts(from, "video", n), pc' = "upload" PROVE BatchInv'
    <2>1. PiecesComplete'
      BY <1>1, <1>2, <1>4, <1>6, PartsComplete
    <2> QED  BY <1>3, <1>6, <2>1 DEF BatchInv, WorkInv, Sending
  <1>7. ASSUME NEW n \in 2..MaxParts, pieces' = Parts(from, "zip", n), pc' = "upload" PROVE BatchInv'
    <2>1. PiecesComplete'
      BY <1>1, <1>2, <1>4, <1>7, PartsComplete
    <2> QED  BY <1>3, <1>7, <2>1 DEF BatchInv, WorkInv, Sending
  <1> QED  BY <1>5, <1>6, <1>7 DEF Cut, CutGivenUp, CreateZip, Goto

LEMMA SendKeeps == BatchInv /\ Send => BatchInv'
  <1> SUFFICES ASSUME BatchInv, Send PROVE BatchInv'
    OBVIOUS
  <1>1. Sending /\ pieces # <<>> /\ chat' = Append(chat, Album) /\ UNCHANGED <<items, config>>
    BY DEF Send, Sending, inputVars
  <1>2. PiecesComplete
    BY <1>1 DEF BatchInv, WorkInv
  <1>3. /\ chat' \in Seq(Seq(Pieces)) /\ \A m \in DOMAIN chat' : Len(chat'[m]) \in 1..MaxAlbum
        /\ Sent' = Sent \union Range(Album)
        /\ \A p \in Sent' : p.item \in Nat /\ p.item <= to
        /\ \A p \in Sent' : (Twice(p)' \/ \E q \in Sent' : q.item = p.item /\ q.form # p.form) => p.item \in resent
    BY <1>1, AlbumSent
  <1>4. /\ Rest \in Seq(Pieces) /\ Range(Album) \union Range(Rest) = Range(pieces)
        /\ Range(Album) \cap Range(Rest) = {}
        /\ \A a, b \in DOMAIN Rest : Rest[a] = Rest[b] => a = b
        /\ Rest = <<>> => Range(Rest) = {}
    BY <1>1, <1>2, AlbumAndRest DEF PiecesComplete
  <1>5. CASE Rest = <<>> /\ GroupSaved /\ UNCHANGED resent
    <2>1. Sent' = Sent \union Range(pieces)
      BY <1>3, <1>4, <1>5
    <2>2. \A i \in Group : WholeIn(i, Sent')
      BY <1>2, <2>1 DEF PiecesComplete
    <2>3. RepeatedOnlyAfterLoss'
      BY <1>3, <1>5 DEF RepeatedOnlyAfterLoss
    <2> QED  BY <1>1, <1>3, <1>5, <2>1, <2>2, <2>3, SavedKeeps
  <1>6. CASE Rest # <<>> /\ pieces' = Rest /\ pc' = "albums" /\ UNCHANGED <<spanVars, resent>>
    <2>1. from' = from /\ to' = to /\ resent' = resent /\ Group' = Group
      BY <1>6 DEF spanVars, Group
    <2>2. SpanInv'
      BY <1>1, <2>1 DEF BatchInv, SpanInv, EndsGroup, Joins, Alone
    <2>3. ChatKept'
      <3>1. \A i \in 1..(from - 1) : Skipped(i)' \/ Complete(i)'
        <4> SUFFICES ASSUME NEW i \in 1..(from - 1) PROVE Skipped(i) \/ WholeIn(i, Sent')
          BY <1>1 DEF Complete, WholeIn, Skipped
        <4>1. Skipped(i) \/ WholeIn(i, Sent)
          BY CompleteIsWhole DEF BatchInv, ChatKept
        <4>2. PICK old, new : old = Sent /\ new = Sent'
          OBVIOUS
        <4> QED  BY <1>3, <4>1, <4>2, WholeStays
      <3> QED  BY <1>3, <2>1, <3>1 DEF ChatKept, RepeatedOnlyAfterLoss
    <2>4. Range(pieces') = Range(Rest) /\ Range(pieces)' = Range(pieces') /\ Range(Rest) \subseteq Range(pieces)
      BY <1>4, <1>6 DEF Range
    <2>5. Sent' \union Range(pieces') = Sent \union Range(pieces)
      BY <1>3, <1>4, <2>4
    <2>6. PiecesComplete'
      <3>1. \A i \in Group' : WholeIn(i, Sent' \union Range(pieces'))
        BY <1>2, <2>1, <2>5 DEF PiecesComplete
      <3>2. \A i \in Group' : WholeIn(i, Sent \union Range(pieces))'
        BY <3>1, <2>4 DEF WholeIn
      <3>3. /\ pieces' \in Seq(Pieces) /\ \A p \in Range(pieces') : p.item \in Group'
            /\ \A a, b \in DOMAIN pieces' : pieces'[a] = pieces'[b] => a = b
            /\ \A p, q \in Range(pieces') : p.form = q.form
        BY <1>2, <1>4, <1>6, <2>1, <2>4 DEF PiecesComplete
      <3> QED  BY <2>4, <3>2, <3>3 DEF PiecesComplete
    <2>7. Onward'
      <3> SUFFICES ASSUME NEW p \in Sent', p.item \in Group, p.item \notin resent
                   PROVE  p \notin Range(Rest) /\ \A q \in Range(Rest) : q.form = p.form
        BY <2>1, <2>4 DEF Onward
      <3>1. CASE p \in Range(Album)
        <4>1. p \in Range(pieces)
          BY <1>4, <3>1
        <4> QED  BY <1>2, <1>4, <2>4, <3>1, <4>1 DEF PiecesComplete
      <3>2. CASE p \in Sent
        <4>1. pc # "upload"
          BY <3>2 DEF BatchInv, WorkInv, Fresh
        <4>2. Onward
          BY <1>1, <4>1 DEF BatchInv, WorkInv, Sending
        <4> QED  BY <2>4, <3>2, <4>2 DEF Onward
      <3> QED  BY <1>3, <3>1, <3>2
    <2> QED  BY <1>6, <2>2, <2>3, <2>6, <2>7 DEF BatchInv, WorkInv, Sending
  <1> QED  BY <1>5, <1>6 DEF Send, Goto

LEMMA SendFailsKeeps == BatchInv /\ SendFails => BatchInv'
  <1> SUFFICES ASSUME BatchInv, SendFails PROVE BatchInv'
    OBVIOUS
  <1>1. Sending /\ pieces # <<>> /\ UNCHANGED <<items, config>>
    BY DEF SendFails, Sending, inputVars
  <1>2. CASE UNCHANGED chat /\ AttemptFailed(Left)
    BY <1>1, <1>2, FailsQuietly
  <1>3. CASE chat' = Append(chat, Album) /\ AttemptFailed(Left \union {Album[k].item : k \in DOMAIN Album})
    <2>1. /\ chat' \in Seq(Seq(Pieces)) /\ \A m \in DOMAIN chat' : Len(chat'[m]) \in 1..MaxAlbum
          /\ Sent' = Sent \union Range(Album)
          /\ \A p \in Sent' : p.item \in Nat /\ p.item <= to
          /\ \A p \in Sent' : (Twice(p)' \/ \E q \in Sent' : q.item = p.item /\ q.form # p.form) => p.item \in resent
      BY <1>1, <1>3, AlbumSent
    <2>2. PICK left : left = Left \union {Album[k].item : k \in DOMAIN Album}
      OBVIOUS
    <2>3. AttemptFailed(left)
      BY <1>3, <2>2
    <2>4. \A p \in Sent' : p.item \in Group => p.item \in left
      <3>1. ASSUME NEW p \in Range(Album) PROVE p.item \in left
        BY <2>2, <3>1 DEF Range
      <3>2. ASSUME NEW p \in Sent, p.item \in Group PROVE p.item \in left
        BY <2>2, <3>2, SentTyped
      <3> QED  BY <2>1, <3>1, <3>2
    <2>5. resent \subseteq resent'
      BY <2>3 DEF AttemptFailed
    <2>6. \A p \in Sent' : (Twice(p)' \/ \E q \in Sent' : q.item = p.item /\ q.form # p.form) => p.item \in resent'
      BY <2>1, <2>5
    <2>7. Sent \subseteq Sent' /\ \A p \in Sent' : p.item <= to
      BY <2>1
    <2> QED  BY <1>1, <2>1, <2>3, <2>4, <2>6, <2>7, FailedKeeps
  <1> QED  BY <1>2, <1>3 DEF SendFails

(* Steps that touch neither the chat nor the group nor what is to be sent. *)
LEMMA WaitKeeps == BatchInv /\ UNCHANGED <<items, config, chat, from, to, resent, pc, pieces>> => BatchInv'
  <1> SUFFICES ASSUME BatchInv, UNCHANGED <<items, config, chat, from, to, resent, pc, pieces>> PROVE BatchInv'
    OBVIOUS
  <1>1. /\ SpanInv' /\ ChatKept' /\ (Fresh => Fresh') /\ (Big => Big') /\ Sent' = Sent /\ Group' = Group
        /\ \A i : (Skipped(i) => Skipped(i)') /\ (Complete(i) => Complete(i)')
    BY Untouched
  <1>2. Range(pieces)' = Range(pieces)
    BY DEF Range
  <1>3. PiecesComplete => PiecesComplete'
    BY <1>1, <1>2 DEF PiecesComplete, WholeIn
  <1>4. Onward => Onward'
    BY <1>1, <1>2 DEF Onward
  <1>5. pc \in {"attempt", "cut", "zip", "upload"} => Fresh'
    BY <1>1 DEF BatchInv, WorkInv
  <1>6. pc \in {"cut", "zip"} => Big'
    BY <1>1 DEF BatchInv, WorkInv
  <1>7. Sending => PiecesComplete'
    BY <1>3 DEF BatchInv, WorkInv
  <1>8. pc = "albums" => Onward'
    BY <1>4 DEF BatchInv, WorkInv
  <1>9. pc = "saved" => to = Len(items) /\ \A i \in Group : Skipped(i)' \/ Complete(i)'
    BY <1>1 DEF BatchInv, WorkInv
  <1>10. /\ pc \in {"inspect", "attempt", "cut", "zip", "upload", "albums", "saved", "failed", "panic"}
         /\ pc = "inspect" => Sent' = {}
    BY <1>1 DEF BatchInv, WorkInv
  <1>11. WorkInv'
    BY <1>1, <1>5, <1>6, <1>7, <1>8, <1>9, <1>10 DEF WorkInv, Sending
  <1> QED  BY <1>1, <1>11 DEF BatchInv

LEMMA BatchStep == BatchInv /\ [TelegramNext]_telegramVars => BatchInv'
  <1> SUFFICES ASSUME BatchInv, [TelegramNext]_telegramVars PROVE BatchInv'
    OBVIOUS
  <1>1. CASE Attempt
    BY <1>1, AttemptKeeps
  <1>2. CASE Cut \/ CutGivenUp \/ CreateZip
    BY <1>2, CutKeeps
  <1>3. CASE CutCancelled \/ ZipFails \/ PartUploadFails
    BY <1>3, FailsQuietly DEF CutCancelled, ZipFails, PartUploadFails, inputVars
  <1>4. CASE Send
    BY <1>4, SendKeeps
  <1>5. CASE SendFails
    BY <1>5, SendFailsKeeps
  <1>6. CASE Upload \/ CancelBatch \/ UNCHANGED telegramVars
    <2>1. UNCHANGED <<items, config, chat, from, to, resent, pc, pieces>>
      BY <1>6 DEF Upload, CancelBatch, telegramVars, inputVars, spanVars
    <2> QED  BY <2>1, WaitKeeps
  <1>7. CASE Inspect \/ InspectFails
    BY <1>7, InspectKeeps
  <1> QED  BY <1>1, <1>2, <1>3, <1>4, <1>5, <1>6, <1>7 DEF TelegramNext, Step

LEMMA BatchGreedy == BatchInv => PlanIsGreedy
  <1> SUFFICES ASSUME BatchInv PROVE PlanIsGreedy
    OBVIOUS
  <1>0. MaxAlbum \in Nat /\ 1 <= MaxAlbum
    BY TelegramAssumption DEF TelegramAssumption
  <1>1. PICK a, b \in Nat : a = from /\ b = to
    BY DEF BatchInv, SpanInv
  <1>2. a <= b /\ b <= Len(items) /\ Len(items) \in Nat /\ EndsGroup(a, b)
    BY <1>1 DEF BatchInv, SpanInv
  <1>3. IsFiniteSet(a..b) /\ Cardinality(a..b) = b - a + 1 /\ Cardinality(a..b + 1) = b - a + 2
    <2>1. Cardinality(a..b) = IF a > b THEN 0 ELSE b - a + 1
      BY FS_Interval
    <2>2. Cardinality(a..b + 1) = IF a > b + 1 THEN 0 ELSE b + 1 - a + 1
      BY FS_Interval
    <2> QED  BY <1>2, <2>1, <2>2, FS_Interval
  <1>4. b - a < MaxAlbum /\ \A j \in a + 1..b : Joins(a, j)
    BY <1>2 DEF EndsGroup
  <1>5. Fits(a..b)
    <2>1. CASE a = b
      BY <1>3, <2>1 DEF Fits
    <2>2. CASE a < b
      <3>1. Joins(a, a + 1) /\ ~Alone(a)
        BY <1>4, <2>2 DEF Joins
      <3>2. \A i \in a..b : ~IsBig(items[i]) /\ items[i].eligible /\ items[i].key = items[a].key /\ items[i].chat = items[a].chat
        <4> SUFFICES ASSUME NEW i \in a..b
                     PROVE  ~IsBig(items[i]) /\ items[i].eligible /\ items[i].key = items[a].key /\ items[i].chat = items[a].chat
          OBVIOUS
        <4>1. CASE i = a
          BY <3>1, <4>1 DEF Alone
        <4>2. CASE i \in a + 1..b
          BY <1>4, <4>2 DEF Joins
        <4> QED  BY <4>1, <4>2
      <3>3. items[a].key # NoKey
        BY <3>1 DEF Alone
      <3>4. Cardinality(a..b) <= MaxAlbum
        BY <1>0, <1>3, <1>4
      <3> QED  BY <3>2, <3>3, <3>4 DEF Fits
    <2> QED  BY <1>2, <2>1, <2>2
  <1>6. ASSUME b < Len(items), Fits(a..b + 1) PROVE FALSE
    <2>1. /\ b - a + 2 <= MaxAlbum
          /\ \A i \in a..b + 1 : ~IsBig(items[i]) /\ items[i].eligible /\ items[i].key # NoKey
          /\ \A i, j \in a..b + 1 : items[i].key = items[j].key /\ items[i].chat = items[j].chat
      BY <1>2, <1>3, <1>6 DEF Fits
    <2>2. a \in a..b + 1 /\ b + 1 \in a..b + 1
      BY <1>2
    <2>3. Joins(a, b + 1)
      BY <2>1, <2>2 DEF Joins, Alone
    <2>4. b # Len(items) /\ b + 1 - a # MaxAlbum
      BY <1>0, <1>2, <1>6, <2>1
    <2> QED  BY <1>2, <2>3, <2>4 DEF EndsGroup
  <1>7. Fits(Group) /\ (to < Len(items) => ~Fits(from..to + 1))
    BY <1>1, <1>5, <1>6 DEF Group
  <1> QED  BY <1>7 DEF PlanIsGreedy, BatchInv, ChatKept

LEMMA BatchTells == BatchInv => ChatInv
  <1> SUFFICES ASSUME BatchInv PROVE ChatInv
    OBVIOUS
  <1>1. SpanInv /\ ChatKept /\ WorkInv
    BY DEF BatchInv
  <1>2. ASSUME pc = "saved", NEW i \in DOMAIN items PROVE Skipped(i) \/ Complete(i)
    <2>1. i \in Group \/ i \in 1..(from - 1)
      BY <1>1, <1>2 DEF SpanInv, WorkInv, Group
    <2> QED  BY <1>1, <1>2, <2>1 DEF ChatKept, WorkInv
  <1>3. ASSUME NEW p \in Sent, NEW i \in 1..(p.item - 1)
        PROVE  Skipped(i) \/ Complete(i) \/ {i, p.item} \subseteq Group
    <2>1. p.item \in Nat /\ p.item <= to
      BY SentTyped
    <2>2. i \in 1..(from - 1) \/ {i, p.item} \subseteq Group
      BY <1>1, <2>1 DEF SpanInv, Group
    <2> QED  BY <1>1, <2>2 DEF ChatKept
  <1>4. ChatInOrder
    BY <1>2, <1>3 DEF ChatInOrder
  <1> QED  BY <1>1, <1>4, BatchGreedy DEF ChatInv, ChatKept

(* At every moment of saving a batch to a chat: nothing of an item is there before all that precede it *)
(* are there whole or were skipped, and in the end all are; what is there twice, or in two forms, was   *)
(* left by an attempt that failed; and the items are grouped into albums as large as they may be.      *)
THEOREM ChatOrdered == TelegramSpec => []ChatInv
  <1>1. TelegramInit => BatchInv
    BY BatchStarts
  <1>2. BatchInv /\ [TelegramNext]_telegramVars => BatchInv'
    BY BatchStep
  <1>3. BatchInv => ChatInv
    BY BatchTells
  <1> QED  BY <1>1, <1>2, <1>3, PTL DEF TelegramSpec

----------------------------------------------------------------------------
(* The single-file task. *)
USE SingleFileAssumption DEF SingleFileAssumption

(* The cache file, or the pipe with its two goroutines, is where Execute says. *)
Cached == {"create", "download", "try", "upload", "backoff"}

SingleTypes ==
  /\ streamed \in BOOLEAN /\ overwritten \in BOOLEAN /\ lingering \in BOOLEAN
  /\ at \in {"start", "stream", "returned"} \union Cached
  /\ fetched \in 0..Chunks /\ sent \in Nat /\ got \in Nat /\ object \in Nat
  /\ pull \in {"off", "fetching", "writing", "ok", "failed"}
  /\ put \in {"off", "reading", "ok", "failed"}
  /\ firstErr \in {"none", "failed", "canceled"}
  /\ note.kind \in {"none", "downloading", "uploading", "retrying"} \union Ends
  /\ outcome \in {"none"} \union Ends

Phases ==
  /\ at = "returned" <=> outcome # "none"
  /\ at = "start" \/ at \in Cached => pull = "off" /\ put = "off"
  /\ at \in Cached => ~streamed
  /\ at = "stream" => streamed /\ pull # "off" /\ put # "off"
  /\ at = "returned" => pull \notin {"fetching", "writing"} /\ put # "reading"
  /\ at \in {"start", "create"} => fetched = 0
  /\ at = "create" => note.kind = "downloading"
  /\ lingering => at \notin {"start", "create"}

(* What has been received is what was read; a file that is read to its end has all chunks. *)
ChunksCounted ==
  /\ at \in {"try", "upload", "backoff"} => fetched = Chunks
  /\ at \in {"start", "stream", "upload"} => got = sent
  /\ put = "reading" => sent = IF pull = "writing" THEN fetched - 1 ELSE fetched
  /\ at = "start" => sent = 0
  /\ pull = "writing" => fetched > 0
  /\ pull = "ok" => fetched = Chunks

ErrorsKept == /\ pull = "failed" \/ put = "failed" => firstErr # "none"
              /\ at \in {"start"} \union Cached => firstErr = "none"

SingleInv == SingleTypes /\ Phases /\ ChunksCounted /\ ErrorsKept /\ FileInv

LEMMA SingleStarts == FileInit => SingleInv
  <1> SUFFICES ASSUME FileInit  PROVE SingleInv
    OBVIOUS
  <1>1. overwritten \in BOOLEAN /\ lingering \in BOOLEAN /\ streamed \in BOOLEAN
    BY Zenon DEF FileInit
  <1>2. SingleTypes
    BY <1>1 DEF FileInit, SingleTypes, Ends, Cached
  <1>3. Phases /\ ChunksCounted /\ ErrorsKept
    BY DEF FileInit, Phases, ChunksCounted, ErrorsKept, Cached
  <1>4. FileInv
    BY DEF FileInit, FileInv, DoneIsWhole, MessageTellsOutcome
  <1> QED  BY <1>2, <1>3, <1>4 DEF SingleInv

LEMMA SingleSteps == SingleInv /\ [FileNext]_singleVars => SingleInv'
  <1> SUFFICES ASSUME SingleInv, [FileNext]_singleVars  PROVE SingleInv'
    OBVIOUS
  <1> USE DEF SingleInv, SingleTypes, Phases, ChunksCounted, ErrorsKept, FileInv, DoneIsWhole, MessageTellsOutcome,
         Ends, Cached, streamVars, trackVars
  <1>1. CASE Abort
    BY <1>1 DEF Abort
  <1>2. CASE Begin
    BY <1>2 DEF Begin, Note
  <1>3. CASE CreateFails
    BY <1>3 DEF CreateFails
  <1>4. CASE Create
    BY <1>4 DEF Create
  <1>5. CASE WriteAt
    BY <1>5 DEF WriteAt, OnProgress
  <1>6. CASE DownloadFails
    BY <1>6 DEF DownloadFails, Return, OnDone, Note, FailuresUnder
  <1>7. CASE Downloaded
    BY <1>7 DEF Downloaded
  <1>8. CASE Try
    BY <1>8 DEF Try, OnUploadStart, Note
  <1>9. CASE UploadChunk
    BY <1>9 DEF UploadChunk, OnUploadProgress
  <1>10. CASE Uploaded
    BY <1>10 DEF Uploaded, OnDone, Note
  <1>11. CASE UploadFails
    <2>1. lingering' \in BOOLEAN
      <3>1. (sent > 0) \in BOOLEAN  OBVIOUS
      <3> QED  BY <1>11, <3>1 DEF UploadFails
    <2> QED  BY <1>11, <2>1 DEF UploadFails
  <1>12. CASE RetryUpload
    BY <1>12 DEF RetryUpload
  <1>13. CASE StopTrying
    BY <1>13 DEF StopTrying, Return, OnDone, Note
  <1>14. CASE LateRead
    <2>1. note' = note \/ note'.kind \in {"uploading", "retrying"}
      BY <1>14 DEF LateRead, OnUploadProgress
    <2>2. overwritten' \in BOOLEAN /\ lingering' \in BOOLEAN
      <3>1. (overwritten \/ (outcome # "none" /\ note' # note)) \in BOOLEAN  OBVIOUS
      <3> QED  BY <1>14, <3>1, Zenon DEF LateRead
    <2>3. overwritten \/ (outcome # "none" /\ note' # note) => overwritten'
      BY <1>14 DEF LateRead
    <2>4. lingering /\ ~lingering' /\ UNCHANGED <<streamed, at, fetched, sent, got, pull, put, firstErr, object, outcome>>
      BY <1>14 DEF LateRead
    <2> QED  BY <2>1, <2>2, <2>3, <2>4
  <1>15. CASE Fetch
    BY <1>15 DEF Fetch
  <1>16. CASE PipeChunk
    BY <1>16 DEF PipeChunk, OnProgress
  <1>17. CASE FetchEnds
    BY <1>17 DEF FetchEnds
  <1>18. CASE FetchFails
    BY <1>18 DEF FetchFails, GroupError, FailuresUnder
  <1>19. CASE StreamSaved
    BY <1>19 DEF StreamSaved, PipeEOF
  <1>20. CASE StreamSaveFails
    BY <1>20 DEF StreamSaveFails, GroupError, FailuresUnder
  <1>21. CASE StreamReturns
    BY <1>21 DEF StreamReturns, Return, OnDone, Note
  <1>22. CASE ReopenFails
    BY <1>22 DEF ReopenFails
  <1>23. CASE UNCHANGED singleVars
    BY <1>23 DEF singleVars
  <1> QED
    BY <1>1, <1>2, <1>3, <1>4, <1>5, <1>6, <1>7, <1>8, <1>9, <1>10, <1>11, <1>12, <1>13, <1>14, <1>15, <1>16, <1>17,
       <1>18, <1>19, <1>20, <1>21, <1>22, <1>23 DEF FileNext, SingleStep

(* For any number of attempts and chunks: a Save that succeeded has received the whole file, cached or *)
(* streamed, and the message tells how the task ended, but for a late read and a cache file that could  *)
(* not be created (execute.go:32-110, stream.go:24-80).                                                 *)
THEOREM FileIsWhole == FileSpec => []FileInv
  <1>1. SingleInv => FileInv  BY DEF SingleInv
  <1> QED  BY <1>1, SingleStarts, SingleSteps, PTL DEF FileSpec

----------------------------------------------------------------------------
(* The tasks of files. *)
USE FileTasksAssumption DEF FileTasksAssumption, Kinds, Tools, Copying, Errors, Active

(* Which control states go together. *)
Stages ==
  /\ exec \in {"head", "files"} => kind \notin Tools
  /\ exec \in {"tool", "transfer"} => kind \in Tools
  /\ exec = "finished" <=> result # None
  /\ kind \in Tools => \A f \in Files : fpc[f] \in {"queued", "saving", "ended"}
  /\ kind \in Tools /\ exec \in {"ready", "tool"} => \A f \in Files : fpc[f] = "queued"
  /\ kind \notin Tools => wanted = Files
  /\ kind \notin Tools /\ result = "ok" => groupErr = None /\ \A f \in Files : fpc[f] = "ended"

(* A goroutine that ended is accounted for, as long as the errgroup has no error. *)
EndedAccounted ==
  kind \notin Tools /\ groupErr = None =>
    \A f \in Files : fpc[f] = "ended" => f \in stored \/ (kind = "transfer" /\ f \in failed)

TransferAccounted ==
  exec = "transfer" => \A f \in wanted : fpc[f] = "ended" => f \in stored \/ f \in lost

(* A file whose copying goroutine was left behind ends with an error. *)
LateDoomed ==
  \A f \in late : kind \in Copying /\ GroupDone /\ (fpc[f] = "ended" => groupErr # None)

GroupCanceled == groupErr = "canceled" => cancelled

Promises == DoneMeansStored /\ MessageAgrees /\ CanceledMeansCancelled /\ LocalKept

IInv ==
  /\ TypeOK /\ Stages /\ EndedAccounted /\ TransferAccounted
  /\ LateDoomed /\ GroupCanceled /\ Promises

LEMMA TaskStarts == Init => IInv
  <1> SUFFICES ASSUME Init PROVE IInv
    OBVIOUS
  <1>1. TypeOK
    <2>1. attempt \in [Files -> 0..Retry] /\ fpc \in [Files -> {"queued", "ended"} \union Active]
      BY DEF Init
    <2>2. wanted \subseteq Files  BY DEF Init
    <2>3. remote \in [{"meta", "data"} -> {"none", "active", "complete", "error", "removed"}]
      BY DEF Init
    <2> QED  BY <2>1, <2>2, <2>3 DEF Init, TypeOK
  <1>2. Stages  BY DEF Init, Stages
  <1>3. EndedAccounted /\ TransferAccounted /\ LateDoomed /\ GroupCanceled
    BY DEF Init, EndedAccounted, TransferAccounted, LateDoomed, GroupCanceled
  <1>4. Promises
    BY DEF Init, Promises, DoneMeansStored, MessageAgrees, CanceledMeansCancelled, LocalKept
  <1> QED  BY <1>1, <1>2, <1>3, <1>4 DEF IInv

-----------------------------------------------------------------------------
(* The goroutine of f goes on to place; it may leave a copying goroutine behind. *)
LEMMA Moving ==
  ASSUME IInv, NEW f \in Files, NEW place \in Active,
         kind \notin Tools, fpc[f] \in Active \/ exec = "files",
         fpc' = [fpc EXCEPT ![f] = place], attempt' \in [Files -> 0..Retry],
         late' \subseteq late \union {f}, f \in late' \ late => kind \in Copying /\ GroupDone,
         UNCHANGED <<taskVars, endVars, groupVars, toolVars, stored>>
  PROVE  IInv'
  <1> USE DEF taskVars, endVars, groupVars, toolVars
  <1>0. TypeOK /\ Stages  BY DEF IInv
  <1>1. TypeOK'  BY <1>0 DEF TypeOK
  <1>2. result # "ok"
    BY <1>0 DEF Stages, TypeOK
  <1>3. Stages'  BY <1>0, <1>2 DEF Stages, TypeOK
  <1>4. EndedAccounted' /\ TransferAccounted'
    BY <1>0 DEF IInv, EndedAccounted, TransferAccounted, TypeOK
  <1>5. LateDoomed' /\ GroupCanceled'
    BY <1>0 DEF IInv, LateDoomed, GroupCanceled, GroupDone, TypeOK
  <1>6. Promises'
    BY DEF IInv, Promises, DoneMeansStored, MessageAgrees, CanceledMeansCancelled, LocalKept
  <1> QED  BY <1>1, <1>3, <1>4, <1>5, <1>6 DEF IInv

(* The goroutine of f ends with err: an error when the group has one, and none only for a stored file. *)
LEMMA Ending ==
  ASSUME IInv, NEW f \in Files, NEW err \in {None} \union Errors,
         kind \notin Tools, exec = "files" \/ fpc[f] \in Active,
         FileEnds(f, err),
         err = None => f \in stored',
         err = "canceled" => GroupDone,
         kind \in Copying /\ GroupDone => err # None,
         stored \subseteq stored', stored' \subseteq Files,
         message' \in {message, "progress"},
         message' = message \/ exec = "files",
         UNCHANGED <<taskVars, exec, result, late, toolVars>>,
         attempt' \in [Files -> 0..Retry]
  PROVE  IInv'
  <1> USE DEF taskVars, toolVars
  <1>0. TypeOK /\ Stages  BY DEF IInv
  <1>1. groupErr' \in {None} \union Errors /\ failed \subseteq failed' /\ failed' \subseteq Files
    BY <1>0 DEF FileEnds, FirstError, TypeOK
  <1>2. fpc' = [fpc EXCEPT ![f] = "ended"]  BY DEF FileEnds
  <1>3. TypeOK'  BY <1>0, <1>1, <1>2 DEF TypeOK
  <1>4. result # "ok"
    BY <1>0 DEF Stages, TypeOK
  <1>5. Stages'  BY <1>0, <1>2, <1>4 DEF Stages, TypeOK
  <1>6. groupErr # None => groupErr' = groupErr
    BY <1>0 DEF FileEnds, FirstError, TypeOK
  <1>7. groupErr' = None => err = None \/ (kind = "transfer" /\ f \in failed')
    BY <1>0 DEF FileEnds, FirstError, PassedOver, TypeOK
  <1>8. EndedAccounted'
    BY <1>0, <1>1, <1>2, <1>6, <1>7 DEF IInv, EndedAccounted, TypeOK
  <1>9. TransferAccounted'
    BY <1>0 DEF TransferAccounted, Stages
  <1>10. LateDoomed'
    BY <1>0, <1>1, <1>2, <1>6, <1>7 DEF IInv, LateDoomed, GroupDone, TypeOK
  <1>11. GroupCanceled'
    BY <1>0 DEF IInv, GroupCanceled, GroupDone, FileEnds, FirstError, PassedOver, TypeOK
  <1>12. DoneMeansStored' /\ CanceledMeansCancelled' /\ LocalKept'
    BY <1>0, <1>4 DEF IInv, Promises, DoneMeansStored, CanceledMeansCancelled, LocalKept
  <1>13. MessageAgrees'
    BY <1>0, <1>4 DEF IInv, Promises, MessageAgrees, Stages, TypeOK
  <1> QED
    BY <1>3, <1>5, <1>8, <1>9, <1>10, <1>11, <1>12, <1>13 DEF IInv, Promises

(* An attempt of f fails with err. *)
LEMMA Failing ==
  ASSUME IInv, NEW f \in Files, NEW err \in ErrorsUnder(GroupDone),
         kind \notin Tools, fpc[f] \in Active, AttemptFails(f, err),
         UNCHANGED <<taskVars, endVars, attempt, late, toolVars, stored>>
  PROVE  IInv'
  <1>0. TypeOK  BY DEF IInv
  <1>1. err \in Errors /\ err # None /\ (err = "canceled" => GroupDone)
    BY DEF ErrorsUnder
  <1>2. attempt' \in [Files -> 0..Retry] /\ stored' \subseteq Files
    BY <1>0 DEF TypeOK
  <1>3. CASE kind = "transfer"
    <2>1. FileEnds(f, err)  BY <1>3 DEF AttemptFails
    <2> QED  BY <1>1, <1>2, <1>3, <2>1, Ending DEF endVars
  <1>4. CASE kind # "transfer"
    BY <1>2, <1>4, Moving DEF AttemptFails
  <1> QED  BY <1>3, <1>4

LEMMA FilePreserves ==
  ASSUME IInv, NEW f \in Files, FileStep(f)
  PROVE  IInv'
  <1>0. TypeOK /\ Stages  BY DEF IInv
  <1>1. fpc[f] \in {"getting", "copying", "resting"} \/ exec = "files" => kind \notin Tools
    BY <1>0 DEF Stages, TypeOK
  <1>2. attempt \in [Files -> 0..Retry] /\ stored \subseteq Files
    BY <1>0 DEF TypeOK
  <1>3. CASE Go(f)
    <2>1. CASE kind \in Copying /\ \E g \in RunningFiles : Url[g] = Url[f]
      <3>1. FileEnds(f, "error") /\ UNCHANGED attempt  BY <1>3, <2>1 DEF Go
      <3> QED  BY <1>1, <1>2, <1>3, <3>1, Ending DEF Go, endVars
    <2>2. CASE ~(kind \in Copying /\ \E g \in RunningFiles : Url[g] = Url[f])
      <3>1. /\ fpc' = [fpc EXCEPT ![f] = "getting"]
            /\ attempt' = [attempt EXCEPT ![f] = 1] /\ UNCHANGED groupVars
        BY <1>3, <2>2 DEF Go
      <3>2. attempt' \in [Files -> 0..Retry]  BY <1>2, <3>1
      <3> QED  BY <1>1, <1>3, <3>1, <3>2, Moving DEF Go
    <2> QED  BY <2>1, <2>2
  <1>4. CASE Get(f)
    BY <1>1, <1>2, <1>4, Moving DEF Get
  <1>5. CASE GetFails(f)
    BY <1>1, <1>5, Failing DEF GetFails
  <1>6. CASE Copied(f)
    BY <1>1, <1>2, <1>6, Moving DEF Copied
  <1>7. CASE CopyFails(f)
    BY <1>1, <1>7, Failing DEF CopyFails
  <1>8. CASE Abandon(f)
    BY <1>1, <1>2, <1>8, Moving DEF Abandon
  <1>9. CASE Saved(f)
    <2>1. FileEnds(f, Verdict(None)) /\ Verdict(None) \in {None} \union Errors
      BY <1>9 DEF Saved, Verdict
    <2>2. /\ Verdict(None) = "canceled" => GroupDone
          /\ kind \in Copying /\ GroupDone => Verdict(None) # None
      BY DEF Verdict
    <2>3. stored \subseteq stored' /\ stored' \subseteq Files /\ f \in stored'
      BY <1>2, <1>9 DEF Saved
    <2>4. message' \in {message, "progress"}
      BY <1>9 DEF Saved, Progressed
    <2> QED  BY <1>1, <1>2, <1>9, <2>1, <2>2, <2>3, <2>4, Ending DEF Saved
  <1>10. CASE SaveFails(f)
    BY <1>1, <1>10, Failing DEF SaveFails
  <1>11. CASE TryAgain(f)
    <2>1. attempt' \in [Files -> 0..Retry]
      BY <1>2, <1>11 DEF TryAgain, AttemptLeft
    <2> QED  BY <1>1, <1>11, <2>1, Moving DEF TryAgain
  <1>12. CASE GiveUp(f)
    <2>1. FileEnds(f, Verdict("error")) /\ Verdict("error") \in Errors /\ Verdict("error") # None
      BY <1>12 DEF GiveUp, Verdict
    <2>2. Verdict("error") = "canceled" => GroupDone
      BY DEF Verdict
    <2> QED  BY <1>1, <1>2, <1>12, <2>1, <2>2, Ending DEF GiveUp, endVars
  <1> QED
    BY <1>3, <1>4, <1>5, <1>6, <1>7, <1>8, <1>9, <1>10, <1>11, <1>12 DEF FileStep

-----------------------------------------------------------------------------
(* What is so when Execute may return without an error. *)
AllAccounted ==
  /\ \A f \in wanted : f \in stored \/ (kind = "transfer" /\ f \in failed) \/ (kind \in Tools /\ f \in lost)
  /\ kind \notin Tools => groupErr = None /\ \A f \in Files : fpc[f] = "ended"

(* Execute returns err, an error that a cancellation explains if it says so, or none with every file *)
(* accounted for; no goroutine of a success is still at work.                                        *)
LEMMA Finishing ==
  ASSUME IInv, NEW err \in {None} \union Errors, Finish(err), result = None,
         err = "canceled" => cancelled,
         err = None => AllAccounted,
         kind \in Tools => \A f \in Files : fpc'[f] \in {"queued", "saving", "ended"},
         kind \notin Tools => UNCHANGED fpc,
         fpc' \in [Files -> {"queued", "ended"} \union Active],
         local' \subseteq local, kind = "aria2" => local' = local,
         remote' \in [{"meta", "data"} -> {"none", "active", "complete", "error", "removed"}],
         UNCHANGED <<taskVars, attempt, late, groupVars, gid, wanted, lost, stored>>
  PROVE  IInv'
  <1> USE DEF taskVars, groupVars
  <1>0. TypeOK /\ Stages  BY DEF IInv
  <1>1. exec' = "finished" /\ result' = (IF err = None THEN "ok" ELSE err) /\ message' = Shown(err)
    BY DEF Finish
  <1>2. /\ message' \in {"done", "canceled", "failed"}
        /\ message' = "done" <=> err = None
        /\ message' = "canceled" => err = "canceled"
    BY <1>1 DEF Shown, ShownByTransfer
  <1>3. TypeOK'  BY <1>0, <1>1, <1>2 DEF TypeOK
  <1>4. Stages'  BY <1>0, <1>1 DEF Stages, AllAccounted
  <1>5. EndedAccounted' /\ TransferAccounted' /\ GroupCanceled'
    BY <1>1 DEF IInv, EndedAccounted, TransferAccounted, GroupCanceled
  <1>6. LateDoomed'
    BY DEF IInv, LateDoomed, GroupDone
  <1>7. DoneMeansStored'  BY <1>1 DEF DoneMeansStored, AllAccounted
  <1>8. MessageAgrees'  BY <1>1, <1>2 DEF MessageAgrees
  <1>9. CanceledMeansCancelled'  BY <1>1 DEF CanceledMeansCancelled
  <1>10. LocalKept'  BY DEF IInv, Promises, LocalKept
  <1> QED
    BY <1>3, <1>4, <1>5, <1>6, <1>7, <1>8, <1>9, <1>10 DEF IInv, Promises

LEMMA MainPreserves ==
  ASSUME IInv, Start \/ Cancel \/ HeadLinks \/ FilesEnd \/ Aria2Moves
  PROVE  IInv'
  <1>0. TypeOK /\ Stages  BY DEF IInv
  <1>1. CASE Start
    <2> USE <1>0, <1>1 DEF Start, taskVars, fileVars, groupVars, toolVars
    <2>1. TypeOK'  BY DEF TypeOK
    <2>2. Stages'  BY DEF Stages, TypeOK
    <2>3. EndedAccounted' /\ TransferAccounted' /\ LateDoomed' /\ GroupCanceled'
      BY DEF IInv, EndedAccounted, TransferAccounted, LateDoomed, GroupCanceled, GroupDone
    <2>4. Promises'
      BY DEF IInv, Stages, Promises, DoneMeansStored, MessageAgrees, CanceledMeansCancelled, LocalKept
    <2> QED  BY <2>1, <2>2, <2>3, <2>4 DEF IInv
  <1>2. CASE Cancel
    <2> USE <1>0, <1>2 DEF Cancel, endVars, fileVars, groupVars, toolVars
    <2>1. TypeOK'  BY DEF TypeOK
    <2>2. Stages'  BY DEF Stages
    <2>3. EndedAccounted' /\ TransferAccounted' /\ LateDoomed' /\ GroupCanceled'
      BY DEF IInv, EndedAccounted, TransferAccounted, LateDoomed, GroupCanceled, GroupDone
    <2>4. Promises'
      BY DEF IInv, Promises, DoneMeansStored, MessageAgrees, CanceledMeansCancelled, LocalKept
    <2> QED  BY <2>1, <2>2, <2>3, <2>4 DEF IInv
  <1>3. CASE HeadLinks
    <2>1. exec = "head" /\ kind \notin Tools /\ result = None  BY <1>0, <1>3 DEF HeadLinks, Stages
    <2>2. CASE \E err \in ErrorsUnder(cancelled) : Finish(err)
      <3>1. PICK err \in Errors : Finish(err) /\ (err = "canceled" => cancelled)
        BY <2>2 DEF ErrorsUnder
      <3>2. UNCHANGED <<taskVars, fileVars, groupVars, toolVars, stored>>  BY <1>3 DEF HeadLinks
      <3> QED  BY <1>0, <2>1, <3>1, <3>2, Finishing DEF fileVars, toolVars, TypeOK
    <2>3. CASE exec' = "files" /\ UNCHANGED <<message, result>>
      <3> USE <1>0, <1>3, <2>1, <2>3 DEF HeadLinks, taskVars, fileVars, groupVars, toolVars
      <3>1. TypeOK'  BY DEF TypeOK
      <3>2. Stages'  BY DEF Stages
      <3>3. EndedAccounted' /\ TransferAccounted' /\ LateDoomed' /\ GroupCanceled'
        BY DEF IInv, EndedAccounted, TransferAccounted, LateDoomed, GroupCanceled, GroupDone
      <3>4. Promises'
        BY DEF IInv, Promises, DoneMeansStored, MessageAgrees, CanceledMeansCancelled, LocalKept
      <3> QED  BY <3>1, <3>2, <3>3, <3>4 DEF IInv
    <2> QED  BY <1>3, <2>2, <2>3 DEF HeadLinks
  <1>4. CASE FilesEnd
    <2>1. kind \notin Tools /\ result = None /\ wanted = Files /\ \A f \in Files : fpc[f] = "ended"
      BY <1>0, <1>4 DEF FilesEnd, Stages
    <2>2. groupErr = None => \A f \in wanted : f \in stored \/ (kind = "transfer" /\ f \in failed)
      BY <2>1 DEF IInv, EndedAccounted
    <2>3. groupErr = "canceled" => cancelled  BY DEF IInv, GroupCanceled
    <2>4. Finish(groupErr) /\ UNCHANGED <<taskVars, fileVars, groupVars, toolVars, stored>>
      BY <1>4 DEF FilesEnd
    <2>5. /\ groupErr \in {None} \union Errors
          /\ fpc' \in [Files -> {"queued", "ended"} \union Active]
          /\ remote' \in [{"meta", "data"} -> {"none", "active", "complete", "error", "removed"}]
          /\ UNCHANGED <<fpc, local, taskVars, attempt, late, groupVars, gid, wanted, lost, stored>>
      BY <1>0, <2>4 DEF fileVars, toolVars, TypeOK
    <2>6. groupErr = None => AllAccounted  BY <2>1, <2>2 DEF AllAccounted
    <2> QED  BY <2>1, <2>3, <2>4, <2>5, <2>6, Finishing
  <1>5. CASE Aria2Moves
    <2>1. remote' \in [{"meta", "data"} -> {"none", "active", "complete", "error", "removed"}]
      BY <1>0, <1>5 DEF Aria2Moves, TypeOK
    <2> USE <1>0, <1>5, <2>1 DEF Aria2Moves, taskVars, endVars, fileVars, groupVars
    <2>2. TypeOK' /\ Stages'  BY DEF TypeOK, Stages
    <2>3. EndedAccounted' /\ TransferAccounted' /\ LateDoomed' /\ GroupCanceled'
      BY DEF IInv, EndedAccounted, TransferAccounted, LateDoomed, GroupCanceled, GroupDone
    <2>4. Promises'
      BY DEF IInv, Promises, DoneMeansStored, MessageAgrees, CanceledMeansCancelled, LocalKept
    <2> QED  BY <2>2, <2>3, <2>4 DEF IInv
  <1> QED  BY <1>1, <1>2, <1>3, <1>4, <1>5

-----------------------------------------------------------------------------
(* A step of the loop over the tool's files, or of the tool, that does not end Execute. *)
LEMMA ToolMoving ==
  ASSUME IInv, kind \in Tools, exec \in {"tool", "transfer"}, exec' \in {exec, "transfer"},
         message' \in {message, "progress"},
         fpc' \in [Files -> {"queued", "saving", "ended"}], exec' = "tool" => UNCHANGED fpc,
         stored \subseteq stored', stored' \subseteq Files,
         wanted' \subseteq Files, local' \subseteq Files, lost' \subseteq Files,
         gid' \in {"meta", "data"},
         \A f \in wanted' : fpc'[f] = "ended" => f \in stored' \/ f \in lost',
         kind = "aria2" => \A f \in wanted' \ lost' : f \in local' \union stored',
         UNCHANGED <<taskVars, result, attempt, late, groupVars, remote>>
  PROVE  IInv'
  <1> USE DEF taskVars, groupVars
  <1>0. TypeOK /\ Stages /\ result = None /\ message # "done" /\ message # "canceled"
    BY DEF IInv, Stages, Promises, MessageAgrees, TypeOK
  <1>1. TypeOK'  BY <1>0 DEF TypeOK
  <1>2. Stages'  BY <1>0 DEF Stages
  <1>3. LateDoomed' /\ GroupCanceled' /\ EndedAccounted' /\ TransferAccounted'
    BY DEF IInv, LateDoomed, GroupCanceled, EndedAccounted, TransferAccounted
  <1>4. Promises'
    BY <1>0 DEF Promises, DoneMeansStored, MessageAgrees, CanceledMeansCancelled, LocalKept
  <1> QED  BY <1>1, <1>2, <1>3, <1>4 DEF IInv

LEMMA ToolPreserves ==
  ASSUME IInv, ToolStep
  PROVE  IInv'
  <1> USE DEF fileVars, toolVars
  <1>0. TypeOK /\ Stages  BY DEF IInv
  <1>1. exec \in {"tool", "transfer"} => kind \in Tools /\ result = None
    BY <1>0 DEF Stages
  <1>2. /\ fpc \in [Files -> {"queued", "ended"} \union Active]
        /\ kind \in Tools => \A f \in Files : fpc[f] \in {"queued", "saving", "ended"}
        /\ remote \in [{"meta", "data"} -> {"none", "active", "complete", "error", "removed"}]
    BY <1>0 DEF TypeOK, Stages
  <1>3. kind \in Tools => fpc \in [Files -> {"queued", "saving", "ended"}]
    BY <1>2
  <1>4. /\ stored \subseteq Files /\ wanted \subseteq Files /\ local \subseteq Files
        /\ lost \subseteq Files /\ gid \in {"meta", "data"}
    BY <1>0 DEF TypeOK
  <1>5. kind = "aria2" => \A f \in wanted \ lost : f \in local \union stored
    BY DEF IInv, Promises, LocalKept
  <1>6. exec = "transfer" => \A f \in wanted : fpc[f] = "ended" => f \in stored \/ f \in lost
    BY DEF IInv, TransferAccounted
  <1>7. exec = "tool" => \A f \in Files : fpc[f] = "queued"
    BY <1>0, <1>1 DEF Stages
  <1>8. \A err \in ErrorsUnder(cancelled) : err \in Errors /\ err # None /\ (err = "canceled" => cancelled)
    BY DEF ErrorsUnder
  <1>9. CASE WaitCanceled
    <2>1. remote' \in [{"meta", "data"} -> {"none", "active", "complete", "error", "removed"}]
      BY <1>2, <1>9 DEF WaitCanceled, ForceRemove
    <2> QED  BY <1>1, <1>2, <1>9, <2>1, Finishing DEF WaitCanceled
  <1>10. CASE StatusFails
    BY <1>1, <1>2, <1>10, Finishing DEF StatusFails
  <1>11. CASE Poll
    <2>0. exec = "tool" /\ kind = "aria2" /\ UNCHANGED <<taskVars, fileVars, groupVars, remote, lost, stored>>
      BY <1>11 DEF Poll
    <2>1. CASE Finish("error") /\ UNCHANGED <<gid, wanted, local>>
      BY <1>1, <1>2, <2>0, <2>1, Finishing
    <2>2. CASE /\ gid' \in {"meta", "data"} /\ Progressed
               /\ UNCHANGED <<exec, result, wanted, local>>
      BY <1>1, <1>3, <1>4, <1>5, <1>7, <2>0, <2>2, ToolMoving DEF Progressed
    <2>3. CASE /\ exec' = "transfer" /\ \E W \in SUBSET Files : wanted' = W /\ local' = W
               /\ Progressed /\ UNCHANGED <<result, gid>>
      BY <1>1, <1>3, <1>4, <1>7, <2>0, <2>3, ToolMoving DEF Progressed
    <2> QED  BY <1>4, <1>11, <2>1, <2>2, <2>3 DEF Poll
  <1>12. CASE RunYtdlp
    <2>0. exec = "tool" /\ kind = "ytdlp"
          /\ UNCHANGED <<taskVars, fileVars, groupVars, remote, gid, lost, stored>>
      BY <1>12 DEF RunYtdlp
    <2>1. CASE (\E err \in ErrorsUnder(cancelled) : Finish(err)) /\ UNCHANGED <<wanted, local>>
      BY <1>1, <1>2, <1>8, <2>0, <2>1, Finishing
    <2>2. CASE /\ exec' = "transfer"
               /\ \E W \in (SUBSET Files) \ {{}} : wanted' = W /\ local' = W
               /\ Progressed /\ UNCHANGED result
      BY <1>1, <1>3, <1>4, <1>7, <2>0, <2>2, ToolMoving DEF Progressed
    <2> QED  BY <1>12, <2>1, <2>2 DEF RunYtdlp
  <1>13. ASSUME NEW f \in Files, OpenLocal(f) PROVE IInv'
    BY <1>1, <1>3, <1>4, <1>5, <1>6, <1>13, ToolMoving DEF OpenLocal, endVars
  <1>14. ASSUME NEW f \in Files, LocalSaved(f) PROVE IInv'
    BY <1>1, <1>3, <1>4, <1>5, <1>6, <1>14, ToolMoving DEF LocalSaved, Removed, Progressed
  <1>15. CASE TransferFails
    <2>1. kind \in Tools /\ result = None /\ UNCHANGED <<taskVars, attempt, late, groupVars, remote, gid, wanted, lost, stored>>
      BY <1>1, <1>15 DEF TransferFails
    <2>2. /\ fpc' \in [Files -> {"queued", "ended"} \union Active]
          /\ \A f \in Files : fpc'[f] \in {"queued", "saving", "ended"}
      BY <1>2, <1>15, <2>1 DEF TransferFails
    <2>3. local' \subseteq local /\ (kind = "aria2" => local' = local)
      BY <1>15 DEF TransferFails, RemovedByFailure
    <2>4. PICK err \in ErrorsUnder(cancelled) : Finish(err)
      BY <1>15 DEF TransferFails
    <2> QED  BY <1>2, <1>8, <2>1, <2>2, <2>3, <2>4, Finishing
  <1>16. CASE TransferEnds
    <2>1. kind \in Tools /\ result = None /\ UNCHANGED <<taskVars, fpc, attempt, late, groupVars, gid, wanted, lost, stored>>
      BY <1>1, <1>16 DEF TransferEnds
    <2>2. local' \subseteq local /\ (kind = "aria2" => local' = local)
      BY <1>16 DEF TransferEnds
    <2>3. remote' \in [{"meta", "data"} -> {"none", "active", "complete", "error", "removed"}]
      BY <1>2, <1>16 DEF TransferEnds
    <2>4. PICK err \in {None, "error"} : Finish(err)
      BY <1>16 DEF TransferEnds
    <2>5. \A f \in wanted : f \in stored \/ f \in lost
      BY <1>6, <1>16 DEF TransferEnds
    <2>6. AllAccounted  BY <2>1, <2>5 DEF AllAccounted
    <2> QED  BY <1>2, <2>1, <2>2, <2>3, <2>4, <2>6, Finishing
  <1> QED
    BY <1>9, <1>10, <1>11, <1>12, <1>13, <1>14, <1>15, <1>16 DEF ToolStep

-----------------------------------------------------------------------------
(* The copying goroutine of a file, still the task's or left behind. *)
LEMMA CopyPreserves ==
  ASSUME IInv, NEW f \in Files, CopyProgress(f) \/ LateCopyEnds(f)
  PROVE  IInv'
  <1>0. TypeOK /\ Stages  BY DEF IInv
  <1>1. CASE CopyProgress(f)
    <2>1. kind \in Copying  BY <1>1 DEF CopyProgress, IInv, LateDoomed
    <2>2. result # "ok"
      <3>1. CASE f \in late
        BY <1>0, <2>1, <3>1 DEF Stages, IInv, LateDoomed, TypeOK
      <3>2. CASE fpc[f] = "copying"
        BY <1>0, <2>1, <3>2 DEF Stages, TypeOK
      <3> QED  BY <1>1, <3>1, <3>2 DEF CopyProgress
    <2> USE <1>0, <1>1 DEF CopyProgress, taskVars, fileVars, groupVars, toolVars
    <2>3. TypeOK' /\ Stages'  BY DEF TypeOK, Stages
    <2>4. EndedAccounted' /\ TransferAccounted' /\ LateDoomed' /\ GroupCanceled'
      BY DEF IInv, EndedAccounted, TransferAccounted, LateDoomed, GroupCanceled, GroupDone
    <2>5. DoneMeansStored' /\ CanceledMeansCancelled' /\ LocalKept'
      BY DEF IInv, Promises, DoneMeansStored, CanceledMeansCancelled, LocalKept
    <2>6. MessageAgrees'  BY <2>1, <2>2 DEF MessageAgrees
    <2> QED  BY <2>3, <2>4, <2>5, <2>6 DEF IInv, Promises
  <1>2. CASE LateCopyEnds(f)
    <2> USE <1>0, <1>2 DEF LateCopyEnds, taskVars, endVars, groupVars, toolVars
    <2>1. TypeOK' /\ Stages'  BY DEF TypeOK, Stages
    <2>2. EndedAccounted' /\ TransferAccounted' /\ LateDoomed' /\ GroupCanceled'
      BY DEF IInv, EndedAccounted, TransferAccounted, LateDoomed, GroupCanceled, GroupDone
    <2>3. Promises'
      BY DEF IInv, Promises, DoneMeansStored, MessageAgrees, CanceledMeansCancelled, LocalKept
    <2> QED  BY <2>1, <2>2, <2>3 DEF IInv
  <1> QED  BY <1>1, <1>2

LEMMA Invariance == Spec => []IInv
  <1>1. IInv /\ UNCHANGED vars => IInv'
    <2> SUFFICES ASSUME IInv, UNCHANGED vars PROVE IInv'
      OBVIOUS
    <2> USE DEF vars, taskVars, endVars, fileVars, groupVars, toolVars
    <2>1. TypeOK' /\ Stages'  BY DEF IInv, TypeOK, Stages
    <2>2. EndedAccounted' /\ TransferAccounted' /\ LateDoomed' /\ GroupCanceled'
      BY DEF IInv, EndedAccounted, TransferAccounted, LateDoomed, GroupCanceled, GroupDone
    <2>3. Promises'
      BY DEF IInv, Promises, DoneMeansStored, MessageAgrees, CanceledMeansCancelled, LocalKept
    <2> QED  BY <2>1, <2>2, <2>3 DEF IInv
  <1>2. IInv /\ [Next]_vars => IInv'
    BY <1>1, MainPreserves, ToolPreserves, FilePreserves, CopyPreserves DEF Next
  <1> QED  BY <1>2, TaskStarts, PTL DEF Spec

-----------------------------------------------------------------------------
(* The variables keep their types; what core/tasks reports is one of the results it knows. *)
THEOREM TypesKept == Spec => []TypeOK
  <1>1. IInv => TypeOK  BY DEF IInv
  <1> QED  BY <1>1, Invariance, PTL

(* A task that returns without an error has saved its files, but for those a transfer reports as *)
(* failed and those the tool's directory has lost.                                               *)
THEOREM SuccessStores == Spec => []DoneMeansStored
  <1>1. IInv => DoneMeansStored  BY DEF IInv, Promises
  <1> QED  BY <1>1, Invariance, PTL

(* The progress message says done exactly when the task has succeeded, whatever the copying *)
(* goroutines left behind do to it.                                                         *)
THEOREM MessageTellsResult == Spec => []MessageAgrees
  <1>1. IInv => MessageAgrees  BY DEF IInv, Promises
  <1> QED  BY <1>1, Invariance, PTL

(* A failure that cancels the requests of the other files is never told as a cancellation. *)
THEOREM OnlyCancelledCanceled == Spec => []CanceledMeansCancelled
  <1>1. IInv => CanceledMeansCancelled  BY DEF IInv, Promises
  <1> QED  BY <1>1, Invariance, PTL

(* What aria2 downloaded stays on its disk until the storage has it. *)
THEOREM Aria2FilesKept == Spec => []LocalKept
  <1>1. IInv => LocalKept  BY DEF IInv, Promises
  <1> QED  BY <1>1, Invariance, PTL

(* The end of a task is told truly: by its files, by its message and by its result. *)
THEOREM EndToldTruly == Spec => []EndInv
  <1>1. IInv => EndInv  BY DEF IInv, Promises, EndInv
  <1> QED  BY <1>1, Invariance, PTL

=============================================================================
