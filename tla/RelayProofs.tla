------------------------------ MODULE RelayProofs ------------------------------
(***************************************************************************)
(* The relay's cursor passes no message that was not relayed, and the row  *)
(* of a route holds its own cursor and history: for all numbers of routes, *)
(* messages, links and PUTs, every page size and every limit.              *)
(*                                                                         *)
(* The invariant has two halves.  One is about the scan alone: what it has *)
(* found is an interval that, once all pages are there, begins right after *)
(* its cursor (Paging).  The other relates the scan's and the PUTs' copies *)
(* of the row to the row itself (SnapSound, PutSound).                     *)
(*                                                                         *)
(* The files of a task come from the bot that was asked, for every number  *)
(* of bots and every size of the channel.  Neither check of the code is    *)
(* enough alone: the handler's lets through what a bot says while it is    *)
(* listened to, and that may wait in the channel for the next request; the *)
(* numbers of the messages keep out what is older than the next /start.    *)
(***************************************************************************)
EXTENDS RelayScan, RelayTalk, TLAPS

USE RelayTalkAssumption DEF RelayTalkAssumption
-----------------------------------------------------------------------------
(* The conversation. *)

Talking == talk \in {"waiting", "adding"}

(* An answer newer than the /start of the request at work, and past the handler, is its target's. *)
Genuine(a) == a.after => a.from = target

Listening == talk # "idle" => activeTarget = target /\ target \in Targets

NoFilesYet == talk \in {"idle", "sending"} => files = {}

FreshAreGenuine ==
  Talking => /\ \A h \in checked : Genuine(coming[h])
             /\ \A i \in DOMAIN responses : Genuine(responses[i])

CheckedComes == \A h \in checked : coming[h] # Nobody

TalkInv == TalkTypeOK /\ Listening /\ NoFilesYet /\ FreshAreGenuine /\ CheckedComes /\ AnswersBelong

LEMMA AgedAnswer ==
  ASSUME NEW a \in Answers
  PROVE  Aged(a) \in Answers /\ Aged(a) # Nobody /\ ~Aged(a).after
  <1>1. a # Nobody  BY DEF Answers
  <1>2. Aged(a) = [from |-> a.from, after |-> FALSE, reply |-> IF a.reply = "present" THEN "earlier" ELSE a.reply]
    BY <1>1 DEF Aged, Answers
  <1>3. Aged(a) \in Answers /\ ~Aged(a).after  BY <1>2 DEF Answers
  <1> QED  BY <1>3 DEF Answers

LEMMA TalkStarts == TalkInit => TalkInv
  <1> SUFFICES ASSUME TalkInit PROVE TalkInv
    OBVIOUS
  <1>1. TalkTypeOK
    <2>1. responses \in Seq(Answers)  BY DEF TalkInit
    <2>2. Len(responses) <= Capacity  BY DEF TalkInit
    <2> QED  BY <2>1, <2>2 DEF TalkInit, TalkTypeOK
  <1>2. Listening /\ NoFilesYet /\ FreshAreGenuine /\ CheckedComes /\ AnswersBelong
    BY DEF TalkInit, Listening, NoFilesYet, FreshAreGenuine, CheckedComes, AnswersBelong, Talking
  <1> QED  BY <1>1, <1>2 DEF TalkInv

(* The request ends, whatever becomes of the answers. *)
LEMMA Ending ==
  ASSUME TalkInv, End, responses' \in Seq(Answers), Len(responses') <= Capacity,
         coming' \in [Handlers -> Answers \union {Nobody}], checked' \subseteq Handlers, CheckedComes',
         spoken' \subseteq Targets
  PROVE  TalkInv'
  BY DEF TalkInv, End, TalkTypeOK, NoFilesYet, Listening, FreshAreGenuine, AnswersBelong, Talking

LEMMA TalkSteps == TalkInv /\ [TalkNext]_talkVars => TalkInv'
  <1> SUFFICES ASSUME TalkInv, [TalkNext]_talkVars PROVE TalkInv'
    OBVIOUS
  <1> USE DEF TalkInv, TalkTypeOK
  <1>1. ASSUME NEW t \in Targets, Begin(t) PROVE TalkInv'
    BY <1>1 DEF Begin, NoFilesYet, Listening, FreshAreGenuine, CheckedComes, AnswersBelong, Talking
  <1>2. ASSUME NEW t \in Targets, NEW h \in Handlers, BotSends(t, h) PROVE TalkInv'
    <2>1. PICK reply \in {"present", "earlier", "none"} :
            coming' = [coming EXCEPT ![h] = [from |-> t, after |-> talk \in {"waiting", "adding"}, reply |-> reply]]
      BY <1>2 DEF BotSends
    <2>2. coming' \in [Handlers -> Answers \union {Nobody}]  BY <2>1 DEF Answers
    <2>3. h \notin checked /\ \A g \in checked : coming'[g] = coming[g]  BY <1>2, <2>1 DEF BotSends, CheckedComes
    <2> QED
      BY <1>2, <2>2, <2>3 DEF BotSends, NoFilesYet, Listening, FreshAreGenuine, CheckedComes, AnswersBelong, Talking, Genuine
  <1>3. ASSUME NEW h \in Handlers, HandleUpdate(h) PROVE TalkInv'
    <2>1. CASE coming[h].from = activeTarget
      BY <1>3, <2>1 DEF HandleUpdate, NoFilesYet, Listening, FreshAreGenuine, CheckedComes, AnswersBelong, Talking, Genuine
    <2>2. CASE coming[h].from # activeTarget
      BY <1>3, <2>2 DEF HandleUpdate, NoFilesYet, Listening, FreshAreGenuine, CheckedComes, AnswersBelong, Talking, Genuine
    <2> QED  BY <2>1, <2>2
  <1>4. ASSUME NEW h \in Handlers, PutResponse(h) PROVE TalkInv'
    <2>1. coming[h] \in Answers  BY <1>4 DEF PutResponse, CheckedComes
    <2>2. /\ responses' \in Seq(Answers) /\ Len(responses') <= Capacity
          /\ \A i \in DOMAIN responses' : responses'[i] = coming[h] \/ (i \in DOMAIN responses /\ responses'[i] = responses[i])
      BY <1>4, <2>1 DEF PutResponse
    <2>3. FreshAreGenuine'
      BY <1>4, <2>2 DEF PutResponse, FreshAreGenuine, Talking, Genuine
    <2> QED  BY <1>4, <2>2, <2>3 DEF PutResponse, NoFilesYet, Listening, CheckedComes, AnswersBelong
  <1>5. CASE SendStart
    <2>1. CASE /\ talk' = "waiting" /\ spoken' = spoken \union {target} /\ coming' = [h \in Handlers |-> Aged(coming[h])]
               /\ responses' = [i \in DOMAIN responses |-> Aged(responses[i])]
               /\ UNCHANGED <<target, activeTarget, files, checked>> /\ talk = "sending"
      <3>1. target \in Targets  BY <2>1 DEF NoFilesYet, Listening
      <3>2. /\ responses' \in Seq(Answers) /\ Len(responses') = Len(responses)
            /\ \A i \in DOMAIN responses' : ~responses'[i].after
        BY <2>1, AgedAnswer
      <3>3. /\ coming' \in [Handlers -> Answers \union {Nobody}]
            /\ \A h \in Handlers : coming[h] # Nobody => coming'[h] # Nobody /\ ~coming'[h].after
        <4>1. \A h \in Handlers : Aged(coming[h]) \in Answers \union {Nobody}  BY AgedAnswer DEF Aged
        <4> QED  BY <2>1, <4>1, AgedAnswer
      <3>4. FreshAreGenuine' /\ CheckedComes'
        BY <2>1, <3>2, <3>3 DEF FreshAreGenuine, CheckedComes, Genuine
      <3> QED  BY <2>1, <3>1, <3>2, <3>3, <3>4 DEF NoFilesYet, Listening, AnswersBelong
    <2>2. CASE /\ End /\ talk = "sending" /\ spoken' \in {spoken, spoken \union {target}}
               /\ UNCHANGED <<coming, responses, checked>>
      <3>1. spoken' \subseteq Targets  BY <2>2 DEF Listening
      <3> QED  BY <2>2, <3>1, Ending DEF CheckedComes
    <2> QED  BY <1>5, <2>1, <2>2 DEF SendStart
  <1>6. CASE TakeResponse
    <2>1. /\ Head(responses) \in Answers /\ Tail(responses) \in Seq(Answers)
          /\ Len(Tail(responses)) <= Capacity /\ 1 \in DOMAIN responses /\ Head(responses) = responses[1]
          /\ \A i \in DOMAIN Tail(responses) : i + 1 \in DOMAIN responses /\ Tail(responses)[i] = responses[i + 1]
      BY <1>6 DEF TakeResponse
    <2>2. FreshAreGenuine'
      BY <1>6, <2>1 DEF TakeResponse, FreshAreGenuine, Talking, Genuine
    <2>3. files' \subseteq Answers /\ AnswersBelong'
      BY <1>6, <2>1 DEF TakeResponse, FreshAreGenuine, Talking, Genuine, AnswersBelong, Matches
    <2> QED  BY <1>6, <2>1, <2>2, <2>3 DEF TakeResponse, NoFilesYet, Listening, CheckedComes
  <1>7. CASE TimeOver
    <2>1. CASE files # {}
      BY <1>7, <2>1 DEF TimeOver, NoFilesYet, Listening, FreshAreGenuine, CheckedComes, AnswersBelong, Talking, Genuine
    <2>2. CASE files = {}
      BY <1>7, <2>2, Ending DEF TimeOver, CheckedComes
    <2> QED  BY <2>1, <2>2
  <1>8. CASE AddTasks
    BY <1>8, Ending DEF AddTasks, CheckedComes
  <1>9. CASE StartAgain
    <2>1. responses' \in Seq(Answers)  BY <1>9 DEF StartAgain
    <2>2. Len(responses') <= Capacity  BY <1>9 DEF StartAgain
    <2> QED  BY <1>9, <2>1, <2>2, Ending DEF StartAgain, CheckedComes
  <1>10. CASE UNCHANGED talkVars
    BY <1>10 DEF talkVars, NoFilesYet, Listening, FreshAreGenuine, CheckedComes, AnswersBelong, Talking, Genuine
  <1> QED
    BY <1>1, <1>2, <1>3, <1>4, <1>5, <1>6, <1>7, <1>8, <1>9, <1>10 DEF TalkNext, Process

LEMMA TalkInvariant == TalkSpec => []TalkInv
  BY TalkStarts, TalkSteps, PTL DEF TalkSpec

(* The state of the relay's conversations keeps its types; the channel stays within its buffer. *)
THEOREM TalkTypes == TalkSpec => []TalkTypeOK
  <1>1. TalkInv => TalkTypeOK  BY DEF TalkInv
  <1> QED  BY <1>1, TalkInvariant, PTL

(* The files of a request's task are answers of the bot it was sent to. *)
THEOREM FilesOfTarget == TalkSpec => []AnswersBelong
  <1>1. TalkInv => AnswersBelong  BY DEF TalkInv
  <1> QED  BY <1>1, TalkInvariant, PTL

-----------------------------------------------------------------------------
(* The scan. *)
HIDE RelayTalkAssumption DEF RelayTalkAssumption
USE RelayScanAssumption DEF RelayScanAssumption

(* All messages of a route after one and up to another have been relayed. *)
Relayed(r, from, to) == \A k \in from + 1 .. to : <<r, k>> \in relayed

Places ==
  /\ scan.at # "idle" => scan.snap \in RowTypes
  /\ scan.at \in {"fetch", "baseline", "next"} => begun = 0
  /\ begun \in {0, 1}
  /\ scan.at = "payload" => scan.left > 0
  /\ scan.at = "advance" => <<scan.snap.route, scan.item>> \in relayed

(* Pages found so far reach from the offset upwards, and above the cursor. *)
PagesFrom(found, offset, cursor) ==
  \/ offset = 0 /\ found = {}
  \/ /\ offset \in Ids /\ cursor \in Nat /\ offset > cursor
     /\ \E n \in Nat : offset <= n /\ found = offset .. n

Paging ==
  /\ scan.at = "fetch" => PagesFrom(scan.found, scan.offset, scan.snap.cursor)
  /\ scan.at = "baseline" => \E a, n \in Nat : a > 0 /\ scan.found = a .. n
  /\ scan.at = "next" => scan.snap.cursor \in Nat /\ \E n \in Nat : scan.found = scan.snap.cursor + 1 .. n
  /\ scan.at \in {"payload", "record", "advance"} =>
       /\ scan.snap.cursor \in Nat /\ scan.item = scan.snap.cursor + 1
       /\ \E n \in Nat : scan.found = scan.item + 1 .. n

ScanInv == Places /\ Paging

(* Identifiers are not given twice. *)
Numbered ==
  /\ row # None => row.id <= rows
  /\ scan.at # "idle" => scan.snap.id <= rows
  /\ \A p \in Puts : put[p] # None => put[p].id <= rows

(* The cursor a scan has for a row that still has its identifier. *)
SnapSound ==
  scan.at # "idle" /\ row # None /\ ~mixed /\ row.id = scan.snap.id /\ scan.snap.cursor # None =>
    Relayed(scan.snap.route, first[scan.snap.route], scan.snap.cursor)

(* A PUT that missed no change has read the route that the row has. *)
PutSound ==
  \A p \in Puts : put[p] # None /\ row # None /\ put[p].id = row.id /\ ~put[p].missed => row.route = put[p].route

CopyInv == Numbered /\ SnapSound /\ PutSound
IInv == TypeOK /\ ScanInv /\ CopyInv /\ NothingSkipped /\ RouteOwnsState

LEMMA MinOfInterval ==
  ASSUME NEW a \in Int, NEW n \in Int, a <= n
  PROVE  Min(a .. n) = a
  <1>1. a \in a .. n /\ \A y \in a .. n : a <= y  OBVIOUS
  <1>2. Min(a .. n) \in a .. n /\ \A y \in a .. n : Min(a .. n) <= y
    BY <1>1 DEF Min
  <1> QED  BY <1>1, <1>2

LEMMA IdsAreNumbers == Ids = 1 .. Len(Links) /\ Len(Links) \in Nat /\ \A m \in Ids : Links[m] \in Nat
  BY DEF Ids

LEMMA ScanStarts == Init => IInv
  <1> SUFFICES ASSUME Init PROVE IInv
    OBVIOUS
  <1>1. TypeOK
    <2>1. posted \in [Routes -> {0} \union Ids] /\ put \in [Puts -> {None} \union Reads] /\ first \in [Routes -> Nat]
      BY DEF Init
    <2>2. scan \in ScanTypes
      BY DEF Init, Idle, ScanTypes
    <2>3. mixed \in BOOLEAN  BY DEF Init
    <2>4. rows \in 0 .. MaxRows /\ begun \in Nat  BY DEF Init
    <2>5. relayed \subseteq Routes \X Ids /\ history \subseteq [msg : Ids, ok : BOOLEAN]  BY DEF Init
    <2> QED  BY <2>1, <2>2, <2>3, <2>4, <2>5 DEF Init, TypeOK
  <1>2. ScanInv  BY DEF Init, ScanInv, Places, Paging, Idle
  <1>3. CopyInv  BY DEF Init, CopyInv, Numbered, SnapSound, PutSound, Idle
  <1>4. NothingSkipped /\ RouteOwnsState  BY DEF Init, NothingSkipped, RouteOwnsState
  <1> QED  BY <1>1, <1>2, <1>3, <1>4 DEF IInv

-----------------------------------------------------------------------------
(* Kinds of steps. *)

LEMMA ScanKept ==
  ASSUME ScanInv, UNCHANGED <<scan, begun>>, relayed \subseteq relayed'
  PROVE  ScanInv'
  <1>1. Places'  BY DEF ScanInv, Places
  <1>2. Paging'  BY DEF ScanInv, Paging, PagesFrom
  <1> QED  BY <1>1, <1>2 DEF ScanInv

LEMMA Stopping ==
  ASSUME TypeOK, ScanInv, ScanEnds, begun' \in {0, begun}
  PROVE  ScanInv' /\ scan' \in ScanTypes
  <1>1. begun' \in {0, 1}  BY DEF ScanInv, Places
  <1>2. scan'.at = "idle"  BY DEF ScanEnds, Idle
  <1>3. ScanInv'  BY <1>1, <1>2 DEF ScanInv, Places, Paging
  <1>4. scan' \in ScanTypes  BY DEF ScanEnds, Idle, ScanTypes
  <1> QED  BY <1>3, <1>4

(* The scan moves on, and the row stays as it is. *)
LEMMA Scanning ==
  ASSUME IInv, UNCHANGED <<row, rows, put, mixed, cursorOf, first, history>>, relayed \subseteq relayed',
         scan'.at # "idle" => scan.at # "idle" /\ scan'.snap = scan.snap
  PROVE  CopyInv' /\ NothingSkipped' /\ RouteOwnsState'
  <1>1. Numbered'  BY DEF IInv, CopyInv, Numbered
  <1>2. SnapSound'  BY DEF IInv, CopyInv, SnapSound, Relayed
  <1>3. PutSound'  BY DEF IInv, CopyInv, PutSound
  <1>4. NothingSkipped'  BY DEF IInv, NothingSkipped
  <1>5. RouteOwnsState'  BY DEF IInv, RouteOwnsState
  <1> QED  BY <1>1, <1>2, <1>3, <1>4, <1>5 DEF CopyInv

-----------------------------------------------------------------------------
(* The pages of a scan. *)

LEMMA OldestOf ==
  ASSUME NEW hi \in Nat
  PROVE  /\ Oldest(hi) \in Nat \ {0} /\ Page(hi) = Oldest(hi) .. hi
         /\ hi >= PageSize => Oldest(hi) = hi - PageSize + 1 /\ Oldest(hi) <= hi
         /\ hi < PageSize => Oldest(hi) = 1
  BY DEF Oldest, Page

LEMMA UpperIsId ==
  ASSUME TypeOK, ScanInv, scan.at = "fetch"
  PROVE  Upper \in {0} \union Ids
  <1>1. scan.snap.route \in Routes  BY DEF ScanInv, Places, RowTypes
  <1>2. posted[scan.snap.route] \in {0} \union Ids  BY <1>1 DEF TypeOK
  <1>3. scan.offset \in {0} \union Ids  BY DEF TypeOK, ScanTypes
  <1> QED  BY <1>2, <1>3, IdsAreNumbers DEF Upper

LEMMA Fetching ==
  ASSUME TypeOK, ScanInv, scan.at = "fetch", FetchPage, begun' = begun, relayed' = relayed
  PROVE  scan' \in ScanTypes /\ ScanInv' /\ scan'.snap = scan.snap
  <1> DEFINE c == scan.snap.cursor
             hi == Upper
             old == Oldest(hi)
             last == c = None \/ hi < PageSize \/ old <= c
             new == scan.found \union {m \in Page(hi) : c = None \/ m > c}
  <1>1. scan.snap \in RowTypes /\ scan \in ScanTypes /\ begun = 0  BY DEF TypeOK, ScanInv, Places
  <1>2. c \in Cursors  BY <1>1 DEF RowTypes
  <1>3. hi \in {0} \union Ids /\ hi \in Nat  BY UpperIsId, IdsAreNumbers
  <1>4. /\ old \in Nat \ {0} /\ Page(hi) = old .. hi
        /\ hi >= PageSize => old = hi - PageSize + 1 /\ old <= hi
        /\ hi < PageSize => old = 1
    BY <1>3, OldestOf
  <1>5. scan' = [scan EXCEPT !.found = new, !.offset = IF last THEN 0 ELSE old,
                             !.at = IF ~last THEN "fetch" ELSE IF c = None THEN "baseline" ELSE "next"]
    BY DEF FetchPage
  <1>6. PagesFrom(scan.found, scan.offset, c)  BY DEF ScanInv, Paging
  <1> HIDE DEF c, hi, old, last, new
  <1>7. new \subseteq Ids
    <2>1. scan.found \subseteq Ids  BY <1>1 DEF ScanTypes
    <2>2. Page(hi) \subseteq Ids  BY <1>3, <1>4, IdsAreNumbers
    <2> QED  BY <2>1, <2>2 DEF new
  <1>8. ~last => old \in Ids  BY <1>3, <1>4, IdsAreNumbers DEF last
  <1>9. /\ scan'.found = new /\ scan'.snap = scan.snap /\ scan'.item = scan.item /\ scan'.left = scan.left
        /\ scan'.offset = (IF last THEN 0 ELSE old)
        /\ scan'.at = (IF ~last THEN "fetch" ELSE IF c = None THEN "baseline" ELSE "next")
    BY <1>1, <1>5 DEF ScanTypes
  <1>10. scan' \in ScanTypes
    BY <1>1, <1>5, <1>7, <1>8 DEF ScanTypes
  <1>11. Places'
    BY <1>1, <1>9 DEF Places
  <1>12. ASSUME ~last PROVE PagesFrom(new, old, c)
    <2>1. c \in Nat /\ old > c /\ hi >= PageSize  BY <1>2, <1>3, <1>4, <1>12 DEF last, Cursors
    <2>2. {m \in Page(hi) : c = None \/ m > c} = old .. hi  BY <1>2, <1>3, <1>4, <2>1
    <2>3. ASSUME scan.offset = 0, scan.found = {} PROVE \E n \in Nat : old <= n /\ new = old .. n
      <3>1. new = old .. hi /\ old <= hi  BY <1>3, <1>4, <2>1, <2>2, <2>3 DEF new
      <3> QED  BY <1>3, <3>1
    <2>4. ASSUME scan.offset # 0 PROVE \E n \in Nat : old <= n /\ new = old .. n
      <3>1. PICK n \in Nat : scan.offset <= n /\ scan.found = scan.offset .. n /\ scan.offset \in Ids
        BY <1>6, <2>4 DEF PagesFrom
      <3>2. hi = scan.offset - 1  BY <2>4 DEF hi, Upper
      <3>3. scan.offset \in Nat  BY <1>1, IdsAreNumbers DEF ScanTypes
      <3>4. old <= n /\ new = old .. n  BY <1>3, <1>4, <2>1, <2>2, <3>1, <3>2, <3>3 DEF new
      <3> QED  BY <3>4
    <2>5. \E n \in Nat : old <= n /\ new = old .. n  BY <1>6, <2>3, <2>4 DEF PagesFrom
    <2> QED  BY <1>8, <1>12, <2>1, <2>5 DEF PagesFrom
  <1>13. ASSUME last, c = None PROVE \E a, n \in Nat : a > 0 /\ new = a .. n
    <2>1. scan.found = {}  BY <1>6, <1>13 DEF PagesFrom
    <2>2. new = old .. hi  BY <1>4, <1>13, <2>1 DEF new
    <2> QED  BY <1>3, <1>4, <2>2
  <1>14. ASSUME last, c # None PROVE c \in Nat /\ \E n \in Nat : new = c + 1 .. n
    <2>1. c \in Nat  BY <1>2, <1>14 DEF Cursors
    <2>2. old <= c \/ old = 1  BY <1>3, <1>4, <1>14 DEF last
    <2>3. {m \in Page(hi) : c = None \/ m > c} = c + 1 .. hi  BY <1>3, <1>4, <1>14, <2>1, <2>2
    <2>4. CASE scan.offset = 0 /\ scan.found = {}
      <3>1. new = c + 1 .. hi  BY <2>3, <2>4 DEF new
      <3> QED  BY <1>3, <2>1, <3>1
    <2>5. CASE scan.offset # 0
      <3>1. PICK n \in Nat : scan.offset <= n /\ scan.found = scan.offset .. n /\ scan.offset > c
        BY <1>6, <2>5 DEF PagesFrom
      <3>2. hi = scan.offset - 1  BY <2>5 DEF hi, Upper
      <3>3. scan.offset \in Nat  BY <1>1, IdsAreNumbers DEF ScanTypes
      <3>4. new = c + 1 .. n  BY <1>3, <2>1, <2>3, <3>1, <3>2, <3>3 DEF new
      <3> QED  BY <2>1, <3>4
    <2> QED  BY <1>6, <2>1, <2>4, <2>5 DEF PagesFrom
  <1>15. scan'.snap.cursor = c  BY <1>9 DEF c
  <1>16. Paging'
    BY <1>9, <1>12, <1>13, <1>14, <1>15 DEF Paging
  <1> QED  BY <1>9, <1>10, <1>11, <1>16 DEF ScanInv

-----------------------------------------------------------------------------
(* The steps of a scan. *)

LEMMA LoadKeeps == IInv /\ LoadRelays => IInv'
  <1> SUFFICES ASSUME IInv, LoadRelays PROVE IInv'
    OBVIOUS
  <1> USE DEF LoadRelays, At
  <1>1. row \in RowTypes  BY DEF IInv, TypeOK
  <1>2. /\ scan'.at = "fetch" /\ scan'.snap = row /\ scan'.offset = 0 /\ scan'.found = {}
        /\ scan' \in ScanTypes
    BY <1>1 DEF Idle, ScanTypes
  <1>3. TypeOK'  BY <1>2 DEF IInv, TypeOK
  <1>4. ScanInv'  BY <1>1, <1>2 DEF ScanInv, Places, Paging, PagesFrom
  <1>5. CopyInv'
    BY <1>1, <1>2 DEF IInv, CopyInv, Numbered, SnapSound, PutSound, NothingSkipped, Relayed
  <1>6. NothingSkipped' /\ RouteOwnsState'  BY DEF IInv, NothingSkipped, RouteOwnsState
  <1> QED  BY <1>3, <1>4, <1>5, <1>6 DEF IInv

LEMMA FetchKeeps == IInv /\ Fetch => IInv'
  <1> SUFFICES ASSUME IInv, Fetch PROVE IInv'
    OBVIOUS
  <1> USE DEF Fetch, At
  <1>1. scan' \in ScanTypes /\ ScanInv' /\ (scan'.at # "idle" => scan'.snap = scan.snap)
    <2>1. CASE FetchPage  BY <2>1, Fetching DEF IInv
    <2>2. CASE ScanEnds  BY <2>2, Stopping DEF IInv, ScanEnds, Idle
    <2> QED  BY <2>1, <2>2
  <1>2. TypeOK'  BY <1>1 DEF IInv, TypeOK
  <1>3. CopyInv' /\ NothingSkipped' /\ RouteOwnsState'  BY <1>1, Scanning
  <1> QED  BY <1>1, <1>2, <1>3 DEF IInv

LEMMA NextMessageKeeps == IInv /\ NextMessage => IInv'
  <1> SUFFICES ASSUME IInv, NextMessage PROVE IInv'
    OBVIOUS
  <1>1. PICK n \in Nat : scan.found = scan.snap.cursor + 1 .. n /\ scan.snap.cursor \in Nat
    BY DEF IInv, ScanInv, Paging, NextMessage, At
  <1> DEFINE m == Min(scan.found)
  <1>2. m = scan.snap.cursor + 1 /\ m <= n
    <2>1. scan.snap.cursor + 1 \in Int /\ n \in Int /\ scan.snap.cursor + 1 <= n
      BY <1>1 DEF NextMessage
    <2>2. Min(scan.snap.cursor + 1 .. n) = scan.snap.cursor + 1  BY <2>1, MinOfInterval
    <2> QED  BY <1>1, <2>1, <2>2
  <1>3. m \in Ids /\ Links[m] \in Nat
    <2>1. m \in scan.found  BY <1>1, <1>2
    <2> QED  BY <2>1, IdsAreNumbers DEF IInv, TypeOK, ScanTypes
  <1>4. scan' = [scan EXCEPT !.item = m, !.found = @ \ {m}, !.left = Links[m], !.ok = TRUE,
                             !.at = IF Links[m] = 0 THEN "record" ELSE "payload"]
    BY DEF NextMessage
  <1> HIDE DEF m
  <1>5. scan \in ScanTypes  BY DEF IInv, TypeOK
  <1>6. /\ scan' \in ScanTypes /\ scan'.item = m /\ scan'.found = scan.found \ {m} /\ scan'.left = Links[m]
        /\ scan'.snap = scan.snap
        /\ scan'.at = (IF Links[m] = 0 THEN "record" ELSE "payload")
    BY <1>3, <1>4, <1>5, IdsAreNumbers DEF ScanTypes
  <1>7. scan'.found = scan'.item + 1 .. n
    <2>1. m \in Int /\ (m .. n) \ {m} = m + 1 .. n  BY <1>1, <1>2
    <2>2. scan.found = m .. n  BY <1>1, <1>2
    <2> QED  BY <1>6, <2>1, <2>2
  <1>8. begun' \in {0, 1}  BY DEF IInv, ScanInv, Places, NextMessage, At
  <1>9. Places'  BY <1>3, <1>6, <1>8 DEF IInv, ScanInv, Places, NextMessage, At
  <1>10. Paging'  BY <1>1, <1>2, <1>6, <1>7 DEF Paging
  <1>11. TypeOK'  BY <1>6, <1>8 DEF IInv, TypeOK, NextMessage, At
  <1>12. CopyInv' /\ NothingSkipped' /\ RouteOwnsState'  BY <1>6, Scanning DEF NextMessage, At
  <1> QED  BY <1>9, <1>10, <1>11, <1>12 DEF IInv, ScanInv

LEMMA PayloadKeeps == IInv /\ ProcessPayload => IInv'
  <1> SUFFICES ASSUME IInv, ProcessPayload PROVE IInv'
    OBVIOUS
  <1> USE DEF ProcessPayload, At
  <1>1. scan \in ScanTypes /\ scan.left \in Nat \ {0}  BY DEF IInv, TypeOK, ScanInv, Places, ScanTypes
  <1>2. /\ scan' \in ScanTypes /\ scan'.item = scan.item /\ scan'.found = scan.found /\ scan'.snap = scan.snap
        /\ scan'.at \in {"payload", "record"} /\ (scan'.at = "payload" => scan'.left > 0)
    <2>1. CASE scan' = [scan EXCEPT !.left = @ - 1, !.at = IF scan.left = 1 THEN "record" ELSE "payload"]
      <3>1. scan.left - 1 \in Nat /\ (scan.left # 1 => scan.left - 1 > 0)  BY <1>1
      <3> QED  BY <1>1, <2>1, <3>1 DEF ScanTypes
    <2>2. CASE scan' = [scan EXCEPT !.ok = FALSE, !.at = "record"]
      BY <1>1, <2>2 DEF ScanTypes
    <2> QED  BY <2>1, <2>2
  <1>3. ScanInv'  BY <1>2 DEF IInv, ScanInv, Places, Paging
  <1>4. TypeOK'  BY <1>2 DEF IInv, TypeOK
  <1>5. CopyInv' /\ NothingSkipped' /\ RouteOwnsState'  BY <1>2, Scanning
  <1> QED  BY <1>3, <1>4, <1>5 DEF IInv

(* The cursor of the row and of the scan moves to m. *)
LEMMA Moving ==
  ASSUME IInv, RouteUnchanged, scan.at # "idle", NEW m \in Nat, MoveCursor(m),
         scan' \in ScanTypes, scan'.snap = [scan.snap EXCEPT !.cursor = m],
         UNCHANGED <<rows, put, mixed, history, relayed>>, first' \in [Routes -> Nat],
         ~mixed => Relayed(scan.snap.route, first'[scan.snap.route], m)
  PROVE  /\ row' \in RowTypes /\ cursorOf' \in Routes
         /\ CopyInv' /\ NothingSkipped' /\ RouteOwnsState'
  <1>1. row \in RowTypes /\ scan.snap \in RowTypes
    BY DEF RouteUnchanged, IInv, TypeOK, ScanInv, Places
  <1>2. row' = [row EXCEPT !.cursor = m] /\ cursorOf' = scan.snap.route  BY DEF MoveCursor
  <1>3. /\ row' \in RowTypes /\ cursorOf' \in Routes /\ row'.cursor = m /\ row'.id = row.id /\ row'.route = row.route
        /\ scan'.snap.cursor = m /\ scan'.snap.id = scan.snap.id /\ scan'.snap.route = scan.snap.route
    BY <1>1, <1>2 DEF RowTypes, Cursors
  <1>4. row.route = scan.snap.route /\ row.id = scan.snap.id /\ row # None /\ row' # None
    BY <1>3 DEF RouteUnchanged
  <1>5. Numbered'  BY <1>3, <1>4 DEF IInv, CopyInv, Numbered
  <1>6. SnapSound'  BY <1>3, <1>4 DEF SnapSound, Relayed
  <1>7. PutSound'  BY <1>3, <1>4 DEF IInv, CopyInv, PutSound
  <1>8. NothingSkipped'  BY <1>3, <1>4 DEF NothingSkipped, Relayed
  <1>9. RouteOwnsState'  BY <1>2, <1>3, <1>4 DEF IInv, RouteOwnsState
  <1> QED  BY <1>3, <1>5, <1>6, <1>7, <1>8, <1>9 DEF CopyInv

LEMMA BaselineKeeps == IInv /\ Baseline => IInv'
  <1> SUFFICES ASSUME IInv, Baseline PROVE IInv'
    OBVIOUS
  <1> DEFINE c == InitialCursor
  <1>1. scan \in ScanTypes /\ scan.snap \in RowTypes /\ begun = 0
    BY DEF Baseline, At, IInv, TypeOK, ScanInv, Places
  <1>2. c \in Nat /\ \E n \in Nat : scan.found = c + 1 .. n
    <2>1. PICK a \in Nat, n \in Nat : a > 0 /\ scan.found = a .. n
      BY DEF Baseline, At, IInv, ScanInv, Paging
    <2>2. CASE scan.found = {}
      <3>1. c = 0  BY <2>2 DEF InitialCursor
      <3>2. scan.found = 1 .. 0  BY <2>2
      <3> QED  BY <3>1, <3>2
    <2>3. CASE scan.found # {}
      <3>1. a <= n  BY <2>1, <2>3
      <3>2. c = a - 1  BY <2>1, <2>3, <3>1, MinOfInterval DEF InitialCursor
      <3> QED  BY <2>1, <3>2
    <2> QED  BY <2>2, <2>3
  <1> HIDE DEF c
  <1>3. CASE /\ RouteUnchanged /\ MoveCursor(c) /\ first' = [first EXCEPT ![scan.snap.route] = c]
             /\ scan' = [scan EXCEPT !.at = "next", !.snap.cursor = c]
    <2>1. /\ scan' \in ScanTypes /\ scan'.at = "next" /\ scan'.snap = [scan.snap EXCEPT !.cursor = c]
          /\ scan'.snap.cursor = c /\ scan'.found = scan.found /\ scan'.snap \in RowTypes
      BY <1>1, <1>2, <1>3 DEF ScanTypes, RowTypes, Cursors
    <2>2. first' \in [Routes -> Nat] /\ first'[scan.snap.route] = c
      BY <1>1, <1>2, <1>3 DEF IInv, TypeOK, RowTypes
    <2>3. UNCHANGED <<rows, put, mixed, history, relayed, posted, begun>>  BY DEF Baseline, At
    <2>4. Relayed(scan.snap.route, first'[scan.snap.route], c)  BY <1>2, <2>1, <2>2 DEF Relayed
    <2>5. /\ row' \in RowTypes /\ cursorOf' \in Routes /\ CopyInv' /\ NothingSkipped' /\ RouteOwnsState'
    <3>1. scan.at # "idle"  BY DEF Baseline, At
    <3> QED  BY <1>2, <1>3, <2>1, <2>2, <2>3, <2>4, <3>1, Moving
    <2>6. ScanInv'  BY <1>1, <1>2, <2>1, <2>3 DEF IInv, ScanInv, Places, Paging
    <2>7. TypeOK'  BY <2>1, <2>2, <2>3, <2>5 DEF IInv, TypeOK
    <2> QED  BY <2>5, <2>6, <2>7 DEF IInv
  <1>4. CASE ScanEnds /\ UNCHANGED <<row, cursorOf, first>>
    <2>1. ScanInv' /\ scan' \in ScanTypes  BY <1>4, Stopping DEF Baseline, At, IInv
    <2>2. CopyInv' /\ NothingSkipped' /\ RouteOwnsState'  BY <1>4, Scanning DEF Baseline, At, ScanEnds, Idle
    <2>3. TypeOK'  BY <1>4, <2>1 DEF Baseline, At, IInv, TypeOK
    <2> QED  BY <2>1, <2>2, <2>3 DEF IInv
  <1> QED  BY <1>3, <1>4 DEF Baseline, c

LEMMA AdvanceKeeps == IInv /\ Advance => IInv'
  <1> SUFFICES ASSUME IInv, Advance PROVE IInv'
    OBVIOUS
  <1> DEFINE m == scan.item
  <1>1. scan \in ScanTypes /\ scan.snap \in RowTypes /\ <<scan.snap.route, m>> \in relayed
    BY DEF Advance, At, IInv, TypeOK, ScanInv, Places
  <1>2. m \in Nat /\ m = scan.snap.cursor + 1 /\ scan.snap.cursor \in Nat /\ \E n \in Nat : scan.found = m + 1 .. n
    BY DEF Advance, At, IInv, ScanInv, Paging
  <1> HIDE DEF m
  <1>3. CASE /\ RouteUnchanged /\ MoveCursor(m) /\ begun' = 0
             /\ scan' = [scan EXCEPT !.at = "next", !.snap.cursor = m]
    <2>1. /\ scan' \in ScanTypes /\ scan'.at = "next" /\ scan'.snap = [scan.snap EXCEPT !.cursor = m]
          /\ scan'.snap.cursor = m /\ scan'.found = scan.found /\ scan'.snap \in RowTypes
      BY <1>1, <1>2, <1>3 DEF ScanTypes, RowTypes, Cursors
    <2>2. UNCHANGED <<rows, put, mixed, history, relayed, posted, first>>  BY DEF Advance, At
    <2>3. ASSUME ~mixed PROVE Relayed(scan.snap.route, first'[scan.snap.route], m)
      <3>1. Relayed(scan.snap.route, first[scan.snap.route], scan.snap.cursor)
        BY <1>2, <1>3, <2>3 DEF IInv, CopyInv, SnapSound, RouteUnchanged, Advance, At
      <3>2. first[scan.snap.route] \in Nat  BY <1>1 DEF IInv, TypeOK, RowTypes
      <3>3. ASSUME NEW k \in first[scan.snap.route] + 1 .. m PROVE <<scan.snap.route, k>> \in relayed
        <4>1. k = m \/ k \in first[scan.snap.route] + 1 .. scan.snap.cursor  BY <1>2, <3>2, <3>3
        <4> QED  BY <1>1, <3>1, <4>1 DEF Relayed
      <3> QED  BY <2>2, <3>3 DEF Relayed
    <2>4. /\ row' \in RowTypes /\ cursorOf' \in Routes /\ CopyInv' /\ NothingSkipped' /\ RouteOwnsState'
      <3>1. scan.at # "idle" /\ first' \in [Routes -> Nat]  BY DEF Advance, At, IInv, TypeOK
      <3> QED  BY <1>2, <1>3, <2>1, <2>2, <2>3, <3>1, Moving
    <2>5. ScanInv'  BY <1>1, <1>2, <1>3, <2>1 DEF IInv, ScanInv, Places, Paging
    <2>6. TypeOK'  BY <1>3, <2>1, <2>2, <2>4 DEF IInv, TypeOK
    <2> QED  BY <2>4, <2>5, <2>6 DEF IInv
  <1>4. CASE ScanEnds /\ UNCHANGED <<row, cursorOf, begun>>
    <2>1. ScanInv' /\ scan' \in ScanTypes  BY <1>4, Stopping DEF IInv
    <2>2. CopyInv' /\ NothingSkipped' /\ RouteOwnsState'  BY <1>4, Scanning DEF Advance, At, ScanEnds, Idle
    <2>3. TypeOK'  BY <1>4, <2>1 DEF Advance, At, IInv, TypeOK
    <2> QED  BY <2>1, <2>2, <2>3 DEF IInv
  <1> QED  BY <1>3, <1>4 DEF Advance, AdvanceRow, m

LEMMA RecordKeeps == IInv /\ Record => IInv'
  <1> SUFFICES ASSUME IInv, Record PROVE IInv'
    OBVIOUS
  <1>1. /\ scan \in ScanTypes /\ scan.snap \in RowTypes /\ scan.item \in Ids /\ scan.at = "record"
        /\ scan.snap.cursor \in Nat /\ scan.item = scan.snap.cursor + 1
    <2>1. scan.snap.cursor \in Nat /\ scan.item = scan.snap.cursor + 1
      BY DEF Record, At, IInv, ScanInv, Paging
    <2>2. scan.item \in {0} \union Ids  BY DEF IInv, TypeOK, ScanTypes
    <2> QED  BY <2>1, <2>2 DEF Record, At, IInv, TypeOK, ScanInv, Places
  <1>2. UNCHANGED <<posted, rows, put, mixed, row, begun, first, cursorOf>>  BY DEF Record, At
  <1>3. relayed' = IF scan.ok THEN relayed \union {<<scan.snap.route, scan.item>>} ELSE relayed
    BY DEF Record
  <1>4. relayed \subseteq relayed' /\ relayed' \subseteq Routes \X Ids
    BY <1>1, <1>3 DEF IInv, TypeOK, RowTypes
  <1>5. /\ scan' \in ScanTypes /\ ScanInv'
        /\ (scan'.at # "idle" => scan'.snap = scan.snap)
    <2>1. CASE scan.ok /\ GoTo("advance")
      <3>1. scan' \in ScanTypes /\ scan'.at = "advance" /\ scan'.item = scan.item /\ scan'.snap = scan.snap
            /\ scan'.found = scan.found
        BY <1>1, <2>1 DEF GoTo, ScanTypes
      <3>2. <<scan.snap.route, scan.item>> \in relayed'  BY <1>3, <2>1
      <3> QED  BY <1>1, <1>2, <3>1, <3>2 DEF IInv, ScanInv, Places, Paging
    <2>2. CASE ScanEnds
      BY <1>2, <2>2, Stopping DEF IInv, ScanEnds, Idle
    <2> QED  BY <2>1, <2>2 DEF Record, AfterRecordOf
  <1>6. CASE UNCHANGED history
    <2>1. CopyInv' /\ NothingSkipped' /\ RouteOwnsState'
      BY <1>1, <1>2, <1>4, <1>5, <1>6, Scanning
    <2>2. TypeOK'  BY <1>2, <1>4, <1>5, <1>6 DEF IInv, TypeOK
    <2> QED  BY <1>5, <2>1, <2>2 DEF IInv
  <1>7. CASE RouteUnchanged /\ RecordHistory
    <2>1. PICK kept \in SUBSET history : history' = kept \union {[msg |-> scan.item, ok |-> scan.ok]}
      BY <1>7 DEF RecordHistory
    <2>2. scan.ok \in BOOLEAN  BY <1>1 DEF ScanTypes
    <2>3. history' \subseteq [msg : Ids, ok : BOOLEAN]  BY <1>1, <2>1, <2>2 DEF IInv, TypeOK
    <2>4. TypeOK'  BY <1>2, <1>4, <1>5, <1>7, <2>3 DEF IInv, TypeOK, RouteUnchanged
    <2>5. RouteOwnsState'
      <3>1. row.route = scan.snap.route /\ row # None  BY <1>7 DEF RouteUnchanged
      <3>2. ASSUME ~mixed, NEW h \in history', h.ok PROVE <<row.route, h.msg>> \in relayed'
        <4>1. CASE h \in history
          BY <1>4, <3>1, <3>2, <4>1 DEF IInv, RouteOwnsState
        <4>2. CASE h = [msg |-> scan.item, ok |-> scan.ok]
          BY <1>3, <3>1, <3>2, <4>2
        <4> QED  BY <2>1, <4>1, <4>2
      <3> QED  BY <1>2, <3>1, <3>2 DEF IInv, RouteOwnsState
    <2>6. Numbered'  BY <1>1, <1>2, <1>5 DEF IInv, CopyInv, Numbered
    <2>7. SnapSound'  BY <1>1, <1>2, <1>4, <1>5 DEF IInv, CopyInv, SnapSound, Relayed
    <2>8. PutSound'  BY <1>2 DEF IInv, CopyInv, PutSound
    <2>9. NothingSkipped'  BY <1>2, <1>4 DEF IInv, NothingSkipped
    <2> QED  BY <1>5, <2>4, <2>5, <2>6, <2>7, <2>8, <2>9 DEF IInv, CopyInv
  <1> QED  BY <1>6, <1>7 DEF Record

LEMMA StopKeeps == IInv /\ (NoMoreMessages \/ Restart) => IInv'
  <1> SUFFICES ASSUME IInv, NoMoreMessages \/ Restart PROVE IInv'
    OBVIOUS
  <1>1. CASE NoMoreMessages
    <2>1. ScanInv' /\ scan' \in ScanTypes  BY <1>1, Stopping DEF NoMoreMessages, IInv
    <2>2. CopyInv' /\ NothingSkipped' /\ RouteOwnsState'
      BY <1>1, Scanning DEF NoMoreMessages, At, ScanEnds, Idle
    <2>3. TypeOK'  BY <1>1, <2>1 DEF NoMoreMessages, At, IInv, TypeOK
    <2> QED  BY <2>1, <2>2, <2>3 DEF IInv
  <1>2. CASE Restart
    <2>1. ScanInv' /\ scan' \in ScanTypes  BY <1>2, Stopping DEF Restart, IInv
    <2>2. CopyInv'
      BY <1>2 DEF Restart, ScanEnds, Idle, IInv, CopyInv, Numbered, SnapSound, PutSound
    <2>3. NothingSkipped' /\ RouteOwnsState'
      BY <1>2 DEF Restart, ghostVars, IInv, NothingSkipped, RouteOwnsState
    <2>4. TypeOK'  BY <1>2, <2>1 DEF Restart, ghostVars, IInv, TypeOK
    <2> QED  BY <2>1, <2>2, <2>3, <2>4 DEF IInv
  <1> QED  BY <1>1, <1>2

-----------------------------------------------------------------------------
(* What happens outside of a scan. *)

LEMMA PostKeeps == IInv /\ (\E r \in Routes : Post(r)) => IInv'
  <1> SUFFICES ASSUME IInv, NEW r \in Routes, Post(r) PROVE IInv'
    OBVIOUS
  <1>1. UNCHANGED <<row, rows, history, put, scan, begun, relayed, first, cursorOf, mixed>>
    BY DEF Post, ghostVars
  <1>2. posted' \in [Routes -> {0} \union Ids]  BY DEF Post, IInv, TypeOK
  <1>3. TypeOK'  BY <1>1, <1>2 DEF IInv, TypeOK
  <1>4. ScanInv'  BY <1>1, ScanKept DEF IInv
  <1>5. CopyInv' /\ NothingSkipped' /\ RouteOwnsState'  BY <1>1, Scanning
  <1> QED  BY <1>3, <1>4, <1>5 DEF IInv

LEMMA CreateKeeps ==
  IInv /\ (\E r \in Routes, o \in Owners, e \in BOOLEAN : CreateBotRelay(r, o, e)) => IInv'
  <1> SUFFICES ASSUME IInv, NEW r \in Routes, NEW o \in Owners, NEW e \in BOOLEAN, CreateBotRelay(r, o, e)
               PROVE  IInv'
    OBVIOUS
  <1>1. /\ row = None /\ rows < MaxRows /\ rows' = rows + 1 /\ cursorOf' = None /\ mixed' = FALSE
        /\ row' = [id |-> rows + 1, route |-> r, owner |-> o, enabled |-> e, cursor |-> None]
        /\ UNCHANGED <<posted, history, put, scan, begun, relayed, first>>
    BY DEF CreateBotRelay
  <1>2. rows \in 0 .. MaxRows /\ history = {}  BY <1>1 DEF IInv, TypeOK
  <1>3. row' \in RowTypes /\ rows' \in 0 .. MaxRows  BY <1>1, <1>2 DEF RowTypes, Cursors
  <1>4. TypeOK'  BY <1>1, <1>3 DEF IInv, TypeOK
  <1>5. ScanInv'  BY <1>1, ScanKept DEF IInv
  <1>6. Numbered'
    <2>1. scan.at # "idle" => scan.snap.id \in Nat  BY DEF IInv, ScanInv, Places, RowTypes
    <2>2. \A p \in Puts : put[p] # None => put[p].id \in Nat  BY DEF IInv, TypeOK, Reads
    <2> QED  BY <1>1, <1>2, <2>1, <2>2 DEF IInv, CopyInv, Numbered
  <1>7. SnapSound'
    <2>1. scan.at # "idle" => scan.snap.id \in Nat /\ scan.snap.id <= rows
      BY DEF IInv, CopyInv, Numbered, ScanInv, Places, RowTypes
    <2> QED  BY <1>1, <1>2, <2>1 DEF SnapSound
  <1>8. PutSound'
    <2>1. \A p \in Puts : put[p] # None => put[p].id \in Nat /\ put[p].id <= rows
      BY DEF IInv, CopyInv, Numbered, TypeOK, Reads
    <2> QED  BY <1>1, <1>2, <2>1 DEF PutSound
  <1>9. NothingSkipped' /\ RouteOwnsState'  BY <1>1, <1>2 DEF NothingSkipped, RouteOwnsState
  <1> QED  BY <1>4, <1>5, <1>6, <1>7, <1>8, <1>9 DEF IInv, CopyInv

LEMMA PutKeeps == IInv /\ (\E p \in Puts : PutReads(p) \/ PutFails(p)) => IInv'
  <1> SUFFICES ASSUME IInv, NEW p \in Puts, PutReads(p) \/ PutFails(p) PROVE IInv'
    OBVIOUS
  <1>1. UNCHANGED <<posted, row, rows, history, scan, begun, relayed, first, cursorOf, mixed>>
    BY DEF PutReads, PutFails, ghostVars
  <1>2. put' \in [Puts -> {None} \union Reads]
    <2>1. CASE PutReads(p)
      <3>1. [id |-> row.id, route |-> row.route, missed |-> FALSE] \in Reads
        BY <2>1 DEF PutReads, IInv, TypeOK, RowTypes, Reads
      <3> QED  BY <2>1, <3>1 DEF PutReads, IInv, TypeOK
    <2>2. CASE PutFails(p)  BY <2>2 DEF PutFails, IInv, TypeOK
    <2> QED  BY <2>1, <2>2
  <1>3. \A q \in Puts : put'[q] = put[q] \/ put'[q] = None
                        \/ (row # None /\ put'[q] = [id |-> row.id, route |-> row.route, missed |-> FALSE])
    BY DEF PutReads, PutFails, IInv, TypeOK
  <1>4. TypeOK'  BY <1>1, <1>2 DEF IInv, TypeOK
  <1>5. ScanInv'  BY <1>1, ScanKept DEF IInv
  <1>6. Numbered'  BY <1>1, <1>3 DEF IInv, CopyInv, Numbered
  <1>7. SnapSound'  BY <1>1 DEF IInv, CopyInv, SnapSound, Relayed
  <1>8. PutSound'  BY <1>1, <1>3 DEF IInv, CopyInv, PutSound
  <1>9. NothingSkipped' /\ RouteOwnsState'  BY <1>1 DEF IInv, NothingSkipped, RouteOwnsState
  <1> QED  BY <1>4, <1>5, <1>6, <1>7, <1>8, <1>9 DEF IInv, CopyInv

LEMMA UpdateKeeps ==
  IInv /\ (\E p \in Puts, r \in Routes, o \in Owners, e \in BOOLEAN : UpdateBotRelay(p, r, o, e)) => IInv'
  <1> SUFFICES ASSUME IInv, NEW p \in Puts, NEW r \in Routes, NEW o \in Owners, NEW e \in BOOLEAN,
                      UpdateBotRelay(p, r, o, e)
               PROVE  IInv'
    OBVIOUS
  <1>1. UNCHANGED <<posted, rows, scan, begun, relayed, first>> /\ put[p] # None
    BY DEF UpdateBotRelay
  <1>2. /\ put' \in [Puts -> {None} \union Reads]
        /\ \A q \in Puts : put'[q] # None => /\ put[q] # None /\ put'[q].id = put[q].id /\ put'[q].route = put[q].route
                                             /\ put'[q].missed = (put[q].missed \/ Moves(p, r))
    <2>1. put' = [q \in Puts |-> IF q = p \/ put[q] = None THEN None ELSE [put[q] EXCEPT !.missed = @ \/ Moves(p, r)]]
      BY DEF UpdateBotRelay
    <2>2. Moves(p, r) \in BOOLEAN  BY DEF Moves
    <2>3. put \in [Puts -> {None} \union Reads]  BY DEF IInv, TypeOK
    <2> HIDE DEF Moves
    <2> QED  BY <2>1, <2>2, <2>3 DEF Reads
  <1>3. ScanInv'  BY <1>1, ScanKept DEF IInv
  <1>4. CASE row = None \/ row.id # put[p].id
    <2>1. UNCHANGED <<row, history, cursorOf, mixed>>  BY <1>4 DEF UpdateBotRelay
    <2>2. TypeOK'  BY <1>1, <1>2, <2>1 DEF IInv, TypeOK
    <2>3. CopyInv'  BY <1>1, <1>2, <2>1 DEF IInv, CopyInv, Numbered, SnapSound, PutSound, Relayed
    <2>4. NothingSkipped' /\ RouteOwnsState'  BY <1>1, <2>1 DEF IInv, NothingSkipped, RouteOwnsState
    <2> QED  BY <1>3, <2>2, <2>3, <2>4 DEF IInv
  <1>5. CASE row # None /\ row.id = put[p].id
    <2>1. /\ row' = [row EXCEPT !.route = r, !.owner = o, !.enabled = e,
                                !.cursor = IF RouteChanged(p, r) THEN None ELSE @]
          /\ history' = (IF RouteChanged(p, r) THEN {} ELSE history)
          /\ cursorOf' = (IF RouteChanged(p, r) THEN None ELSE cursorOf)
          /\ mixed' = (mixed \/ (put[p].missed /\ ~RouteChanged(p, r)))
      BY <1>5 DEF UpdateBotRelay
    <2>2. row \in RowTypes  BY <1>5 DEF IInv, TypeOK
    <2>3. /\ row' \in RowTypes /\ row'.id = row.id /\ row'.route = r
          /\ row'.cursor = (IF RouteChanged(p, r) THEN None ELSE row.cursor)
      BY <2>1, <2>2 DEF RowTypes, Cursors
    <2>4. mixed' \in BOOLEAN  BY <2>1 DEF IInv, TypeOK
    <2>5. TypeOK'
      BY <1>1, <1>2, <1>5, <2>1, <2>3, <2>4 DEF IInv, TypeOK
    <2>6. ~mixed' => ~mixed  BY <2>1 DEF IInv, TypeOK
    <2>7. ~mixed' /\ ~RouteChanged(p, r) => row.route = r
      BY <1>1, <1>5, <2>1 DEF IInv, TypeOK, CopyInv, PutSound, RouteChanged
    <2>8. Numbered'  BY <1>1, <1>2, <1>5, <2>3 DEF IInv, CopyInv, Numbered
    <2>9. SnapSound'  BY <1>1, <1>5, <2>3, <2>6 DEF IInv, CopyInv, SnapSound, Relayed
    <2>10. PutSound'
      <3>1. Moves(p, r) <=> row.route # r  BY <1>5 DEF Moves
      <3> QED  BY <1>2, <1>5, <2>3, <3>1 DEF IInv, CopyInv, PutSound
    <2>11. NothingSkipped'
      BY <1>1, <1>5, <2>3, <2>6, <2>7 DEF IInv, NothingSkipped
    <2>12. RouteOwnsState'
      BY <1>1, <1>5, <2>1, <2>3, <2>6, <2>7 DEF IInv, RouteOwnsState
    <2> QED  BY <1>3, <2>5, <2>8, <2>9, <2>10, <2>11, <2>12 DEF IInv, CopyInv
  <1> QED  BY <1>4, <1>5

LEMMA DeleteKeeps == IInv /\ DeleteBotRelay => IInv'
  <1> SUFFICES ASSUME IInv, DeleteBotRelay PROVE IInv'
    OBVIOUS
  <1> USE DEF DeleteBotRelay
  <1>1. TypeOK'  BY DEF IInv, TypeOK
  <1>2. ScanInv'  BY ScanKept DEF IInv
  <1>3. CopyInv'  BY DEF IInv, CopyInv, Numbered, SnapSound, PutSound
  <1>4. NothingSkipped' /\ RouteOwnsState'  BY DEF NothingSkipped, RouteOwnsState
  <1> QED  BY <1>1, <1>2, <1>3, <1>4 DEF IInv

LEMMA ScanInvariant == Spec => []IInv
  <1>1. IInv /\ [Next]_vars => IInv'
    <2> SUFFICES ASSUME IInv, [Next]_vars PROVE IInv'
      OBVIOUS
    <2>1. CASE UNCHANGED vars
      <3>1. UNCHANGED <<posted, row, rows, history, put, scan, begun, relayed, first, cursorOf, mixed>>
        BY <2>1 DEF vars, scanVars, ghostVars
      <3>2. TypeOK'  BY <3>1 DEF IInv, TypeOK
      <3>3. ScanInv'  BY <3>1, ScanKept DEF IInv
      <3>4. CopyInv' /\ NothingSkipped' /\ RouteOwnsState'  BY <3>1, Scanning
      <3> QED  BY <3>2, <3>3, <3>4 DEF IInv
    <2> QED
      BY <2>1, PostKeeps, LoadKeeps, FetchKeeps, BaselineKeeps, NextMessageKeeps, PayloadKeeps, RecordKeeps,
         AdvanceKeeps, StopKeeps, CreateKeeps, PutKeeps, UpdateKeeps, DeleteKeeps DEF Next, ScanStep
  <1> QED  BY <1>1, ScanStarts, PTL DEF Spec

(* The state of a route, its scan and its requests keep their types. *)
THEOREM ScanTypesKept == Spec => []TypeOK
  <1>1. IInv => TypeOK  BY DEF IInv
  <1> QED  BY <1>1, ScanInvariant, PTL

(* No message between the place where the scans of a route began and its cursor is left out. *)
THEOREM CursorPassesRelayed == Spec => []NothingSkipped
  <1>1. IInv => NothingSkipped  BY DEF IInv
  <1> QED  BY <1>1, ScanInvariant, PTL

(* The cursor and the history in the row were written for the route the row has. *)
THEOREM RowOfItsRoute == Spec => []RouteOwnsState
  <1>1. IInv => RouteOwnsState  BY DEF IInv
  <1> QED  BY <1>1, ScanInvariant, PTL

(* At most one more message is begun for a route that has been changed. *)
THEOREM ChangedRouteLeft == Spec => []StaleAtMostOne
  <1>1. IInv => StaleAtMostOne  BY DEF IInv, ScanInv, Places, StaleAtMostOne
  <1> QED  BY <1>1, ScanInvariant, PTL

(* What a change of the route promises, for the row that is kept and for the scan that goes on. *)
THEOREM RouteChangeKept == Spec => []RouteInv
  <1>1. RouteOwnsState /\ StaleAtMostOne => RouteInv  BY DEF RouteInv
  <1> QED  BY <1>1, RowOfItsRoute, ChangedRouteLeft, PTL
=============================================================================
