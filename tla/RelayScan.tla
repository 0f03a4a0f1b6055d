------------------------------- MODULE RelayScan -------------------------------
(***************************************************************************)
(* One route of the bot relay: the scan of its source channel, the row of  *)
(* the route in the database with its cursor and history, and the HTTP     *)
(* requests that change or delete the row while a scan is at work.         *)
(*                                                                         *)
(* A scan works on the row as it was loaded; the database refuses what it  *)
(* writes when the route has another identifier, owner, source or target   *)
(* by then.  The conversation with the target bot is a step that succeeds  *)
(* or fails (RelayTalk).  A route stands for a source and a target; the    *)
(* messages of a source are numbered from 1 without gaps.                  *)
(***************************************************************************)
EXTENDS Integers, Sequences, FiniteSets, FiniteSetsExt

CONSTANTS Routes, Owners, Puts, Links, PageSize, HistoryLimit, MaxRows, None

Cursors == {None} \union Nat
RowTypes == [id : 1..MaxRows, route : Routes, owner : Owners, enabled : BOOLEAN, cursor : Cursors]
Reads == [id : 1..MaxRows, route : Routes, missed : BOOLEAN]      \* what a PUT has read

ASSUME RelayScanAssumption ==
  /\ Routes # {} /\ Owners # {}
  /\ Links \in Seq(Nat)                    \* links in each message a source may post
  /\ PageSize \in Nat \ {0} /\ HistoryLimit \in Nat \ {0} /\ MaxRows \in Nat
  /\ None \notin Nat /\ None \notin Routes /\ None \notin RowTypes /\ None \notin Reads

VARIABLES
  posted,      \* the newest message of each route's source
  row,         \* the route in the database, or None
  rows,        \* identifiers given so far
  history,     \* its history
  scan,        \* the scan: where it is, its snapshot, messages found, message in hand, links left
  put,         \* what each PUT has read, or None
  begun,       \* history: messages begun for a row that had changed, since the cursor last moved
  relayed,     \* history: messages all of whose links were relayed
  first,       \* history: the cursor at which the route's scans began
  cursorOf,    \* history: the route for which the row's cursor was written
  mixed        \* history: a PUT that missed another one's change of route has kept its cursor

scanVars == <<posted, row, rows, history, put>>
ghostVars == <<relayed, first, cursorOf, mixed>>
vars == <<scanVars, scan, begun, ghostVars>>

Ids == DOMAIN Links
Idle == [at |-> "idle", snap |-> None, offset |-> 0, found |-> {}, item |-> 0, left |-> 0, ok |-> TRUE]

Init ==
  /\ posted \in [Routes -> {0} \union Ids]
  /\ row = None /\ rows = 0 /\ history = {}
  /\ scan = Idle /\ put = [p \in Puts |-> None]
  /\ begun = 0 /\ relayed = {} /\ first = [r \in Routes |-> 0] /\ cursorOf = None /\ mixed = FALSE

(* Where both UPDATEs look: identifier, owner, source and target are those of the snapshot. *)
RouteUnchanged ==
  /\ row # None
  /\ row.id = scan.snap.id /\ row.owner = scan.snap.owner /\ row.route = scan.snap.route
AnyRow == row # None /\ row.id = scan.snap.id

At(place) == scan.at = place /\ UNCHANGED <<posted, rows, put, mixed>>
GoTo(place) == scan' = [scan EXCEPT !.at = place]
ScanEnds == scan' = Idle

-----------------------------------------------------------------------------
(* The source posts a message. *)
Post(r) ==
  /\ posted[r] + 1 \in Ids
  /\ posted' = [posted EXCEPT ![r] = @ + 1]
  /\ UNCHANGED <<row, rows, history, put, scan, begun, ghostVars>>

(* scanDueRelays loads the rows; one that is disabled is passed over. *)
LoadRelays ==
  /\ At("idle") /\ row # None /\ row.enabled
  /\ scan' = [Idle EXCEPT !.at = "fetch", !.snap = row]
  /\ begun' = 0
  /\ UNCHANGED <<row, history, relayed, first, cursorOf>>

(* MessagesGetHistory: a page of the newest messages up to hi. *)
Oldest(hi) == IF hi > PageSize THEN hi - PageSize + 1 ELSE 1
Page(hi) == Oldest(hi)..hi
Upper == IF scan.offset = 0 THEN posted[scan.snap.route] ELSE scan.offset - 1

(* The first scan takes one page, a later one goes on until it has reached the cursor. *)
FetchOnePage ==
  scan' = [scan EXCEPT !.found = {m \in Page(Upper) : scan.snap.cursor = None \/ m > scan.snap.cursor},
                       !.offset = 0, !.at = IF scan.snap.cursor = None THEN "baseline" ELSE "next"]
FetchPage ==
  LET cursor == scan.snap.cursor
      last == cursor = None \/ Upper < PageSize \/ Oldest(Upper) <= cursor
  IN scan' = [scan EXCEPT
       !.found = @ \union {m \in Page(Upper) : cursor = None \/ m > cursor},
       !.offset = IF last THEN 0 ELSE Oldest(Upper),
       !.at = IF ~last THEN "fetch" ELSE IF cursor = None THEN "baseline" ELSE "next"]

Fetch ==
  /\ At("fetch")
  /\ FetchPage \/ ScanEnds
  /\ UNCHANGED <<row, history, begun, relayed, first, cursorOf>>

(* UpdateBotRelayLastMessageID. *)
MoveCursor(m) ==
  /\ row' = [row EXCEPT !.cursor = m]
  /\ cursorOf' = scan.snap.route

(* The first scan begins before the oldest message of the newest page. *)
InitialCursor == IF scan.found = {} THEN 0 ELSE Min(scan.found) - 1

Baseline ==
  /\ At("baseline")
  /\ \/ /\ RouteUnchanged
        /\ MoveCursor(InitialCursor)
        /\ first' = [first EXCEPT ![scan.snap.route] = InitialCursor]
        /\ scan' = [scan EXCEPT !.at = "next", !.snap.cursor = InitialCursor]
     \/ ScanEnds /\ UNCHANGED <<row, cursorOf, first>>
  /\ UNCHANGED <<history, begun, relayed>>

NextMessage ==
  /\ At("next") /\ scan.found # {}
  /\ LET m == Min(scan.found) IN
       scan' = [scan EXCEPT !.item = m, !.found = @ \ {m}, !.left = Links[m], !.ok = TRUE,
                            !.at = IF Links[m] = 0 THEN "record" ELSE "payload"]
  /\ begun' = IF RouteUnchanged THEN begun ELSE begun + 1
  /\ UNCHANGED <<row, history, relayed, first, cursorOf>>

NoMoreMessages ==
  /\ At("next") /\ scan.found = {}
  /\ ScanEnds
  /\ UNCHANGED <<row, history, begun, relayed, first, cursorOf>>

(* processRelayPayload: a failure leaves the message's other links. *)
ProcessPayload ==
  /\ At("payload")
  /\ \/ scan' = [scan EXCEPT !.left = @ - 1, !.at = IF scan.left = 1 THEN "record" ELSE "payload"]
     \/ scan' = [scan EXCEPT !.ok = FALSE, !.at = "record"]
  /\ UNCHANGED <<row, history, begun, relayed, first, cursorOf>>

(* RecordBotRelayHistory: one entry for a message; beyond the limit entries go. *)
RecordHistory ==
  LET others == {h \in history : h.msg # scan.item} IN
    \E kept \in SUBSET others :
      /\ kept = others \/ Cardinality(kept) = HistoryLimit - 1
      /\ Cardinality(kept) < HistoryLimit
      /\ history' = kept \union {[msg |-> scan.item, ok |-> scan.ok]}

(* An error of record is logged only; an error of the message ends the scan. *)
AfterRecordOf(ok) == IF ok THEN GoTo("advance") ELSE ScanEnds

Record ==
  /\ At("record")
  /\ \/ RouteUnchanged /\ RecordHistory
     \/ UNCHANGED history
  /\ relayed' = IF scan.ok THEN relayed \union {<<scan.snap.route, scan.item>>} ELSE relayed
  /\ AfterRecordOf(scan.ok)
  /\ UNCHANGED <<row, begun, first, cursorOf>>

AdvanceAnyRow ==
  /\ AnyRow /\ MoveCursor(scan.item)
  /\ scan' = [scan EXCEPT !.at = "next", !.snap.cursor = scan.item]
AdvanceRow ==
  /\ RouteUnchanged /\ MoveCursor(scan.item)
  /\ scan' = [scan EXCEPT !.at = "next", !.snap.cursor = scan.item]

Advance ==
  /\ At("advance")
  /\ \/ AdvanceRow /\ begun' = 0
     \/ ScanEnds /\ UNCHANGED <<row, cursorOf, begun>>
  /\ UNCHANGED <<history, relayed, first>>

(* The program stops and is started again; or its context ends. *)
Restart ==
  /\ ScanEnds /\ begun' = 0 /\ scan # Idle
  /\ put' = [p \in Puts |-> None]
  /\ UNCHANGED <<posted, row, rows, history, ghostVars>>

-----------------------------------------------------------------------------
(* POST. *)
CreateBotRelay(r, o, e) ==
  /\ row = None /\ rows < MaxRows
  /\ rows' = rows + 1
  /\ row' = [id |-> rows + 1, route |-> r, owner |-> o, enabled |-> e, cursor |-> None]
  /\ cursorOf' = None /\ mixed' = FALSE
  /\ UNCHANGED <<posted, history, put, scan, begun, relayed, first>>

(* PUT loads the row, then asks Telegram for source and target. *)
PutReads(p) ==
  /\ put[p] = None /\ row # None
  /\ put' = [put EXCEPT ![p] = [id |-> row.id, route |-> row.route, missed |-> FALSE]]
  /\ UNCHANGED <<posted, row, rows, history, scan, begun, ghostVars>>

PutFails(p) ==
  /\ put[p] # None
  /\ put' = [put EXCEPT ![p] = None]
  /\ UNCHANGED <<posted, row, rows, history, scan, begun, ghostVars>>

RouteChanged(p, r) == put[p].route # r
Moves(p, r) == row # None /\ row.id = put[p].id /\ row.route # r

(* UpdateBotRelay: all fields; the cursor and the history go when the route is not the one it read. *)
UpdateBotRelay(p, r, o, e) ==
  /\ put[p] # None
  /\ put' = [q \in Puts |-> IF q = p \/ put[q] = None THEN None ELSE [put[q] EXCEPT !.missed = @ \/ Moves(p, r)]]
  /\ IF row = None \/ row.id # put[p].id
       THEN UNCHANGED <<row, history, cursorOf, mixed>>
       ELSE /\ row' = [row EXCEPT !.route = r, !.owner = o, !.enabled = e,
                                  !.cursor = IF RouteChanged(p, r) THEN None ELSE @]
            /\ history' = IF RouteChanged(p, r) THEN {} ELSE history
            /\ cursorOf' = IF RouteChanged(p, r) THEN None ELSE cursorOf
            /\ mixed' = (mixed \/ (put[p].missed /\ ~RouteChanged(p, r)))
  /\ UNCHANGED <<posted, rows, scan, begun, relayed, first>>

DeleteBotRelay ==
  /\ row # None
  /\ row' = None /\ history' = {} /\ cursorOf' = None
  /\ UNCHANGED <<posted, rows, put, scan, begun, relayed, first, mixed>>

ScanStep ==
  \/ Fetch \/ Baseline \/ NextMessage \/ NoMoreMessages \/ ProcessPayload \/ Record \/ Advance
Next ==
  \/ \E r \in Routes : Post(r)
  \/ LoadRelays \/ ScanStep \/ Restart \/ DeleteBotRelay
  \/ \E r \in Routes, o \in Owners, e \in BOOLEAN : CreateBotRelay(r, o, e)
  \/ \E p \in Puts : PutReads(p) \/ PutFails(p)
  \/ \E p \in Puts, r \in Routes, o \in Owners, e \in BOOLEAN : UpdateBotRelay(p, r, o, e)
Spec == Init /\ [][Next]_vars

-----------------------------------------------------------------------------
ScanTypes ==
  [at : {"idle", "fetch", "baseline", "next", "payload", "record", "advance"},
   snap : {None} \union RowTypes, offset : {0} \union Ids, found : SUBSET Ids,
   item : {0} \union Ids, left : Nat, ok : BOOLEAN]

TypeOK ==
  /\ posted \in [Routes -> {0} \union Ids] /\ rows \in 0..MaxRows
  /\ row \in {None} \union RowTypes
  /\ history \subseteq [msg : Ids, ok : BOOLEAN] /\ (row = None => history = {})
  /\ scan \in ScanTypes
  /\ put \in [Puts -> {None} \union Reads]
  /\ relayed \subseteq Routes \X Ids /\ first \in [Routes -> Nat]
  /\ cursorOf \in {None} \union Routes /\ mixed \in BOOLEAN /\ begun \in Nat

(* "A failure does not pass the current message": every message between the place where the scans *)
(* of the route began and its cursor was relayed, whatever was changed, failed or restarted, but  *)
(* for two PUTs at once.                                                                          *)
NothingSkipped ==
  row # None /\ row.cursor # None /\ ~mixed =>
    \A m \in first[row.route] + 1 .. row.cursor : <<row.route, m>> \in relayed

(* The cursor and the history in the row are those of its route: a scan that goes on for a route  *)
(* that has been changed writes neither.                                                          *)
RouteOwnsState ==
  row # None /\ ~mixed =>
    /\ row.cursor # None => cursorOf = row.route
    /\ \A h \in history : h.ok => <<row.route, h.msg>> \in relayed

(* After a change of the route at most one more message is relayed for the old one. *)
StaleAtMostOne == begun <= 1

(* What a change of the route promises: what is kept is of the new route, and the old one stops soon. *)
RouteInv == RouteOwnsState /\ StaleAtMostOne
=============================================================================
