------------------------------ MODULE TelegramSave ------------------------------
(* Saving a batch to a Telegram chat (storage/telegram): the items are inspected, neighbours of  *)
(* one source group are planned as an album, and each group is prepared (uploaded) and sent,     *)
(* again from its start after a failure. A file over the split size is skipped, cut into playable *)
(* video parts, or packed into a ZIP whose parts go out in several albums. A send whose answer   *)
(* is lost has put its messages into the chat.                                                   *)
EXTENDS Naturals, Sequences, FiniteSets, SequencesExt

CONSTANTS
  ItemSets,     \* the batches: sequences of items
  MaxAlbum,     \* tglimit.MaxAlbumItems
  MaxParts,     \* bound: the parts of a ZIP
  MaxTries,     \* config.Retry
  SplitAttempts \* videoSplitAttempts

\* An item has a size (over the split size, or over the upload limit too), a kind (a video, fit for
\* an album or not), its source group and its chat.
NoKey == "none"
IsBig(item) == item.size # "small"

ASSUME TelegramAssumption ==
  /\ \A batch \in ItemSets : batch # <<>> /\ batch \in Seq({batch[i] : i \in DOMAIN batch})
  /\ MaxAlbum \in Nat \ {0} /\ MaxParts \in Nat

VARIABLES
  items,
  from, to,   \* the group at work: its first and its last item
  config,     \* SkipLarge, SplitLargeVideo, and whether the name is a pattern for filepath.Glob
  chat,       \* the messages: albums, as sequences of pieces
  pc, tries,
  ready,      \* the pieces uploaded for the group
  pieces,     \* the pieces the group is to be sent as
  splits,     \* the attempts to cut the video
  temp,       \* temporary files are on disk
  stopped,    \* the task is cancelled
  resent      \* the items of which a failed attempt left something in the chat
telegramVars == <<items, from, to, config, chat, pc, tries, ready, pieces, splits, temp, stopped, resent>>
inputVars == <<items, config>>
spanVars == <<from, to>>

Piece(i, form, k, n) == [item |-> i, form |-> form, k |-> k, n |-> n]
Parts(i, form, n) == [k \in 1..n |-> Piece(i, form, k, n)]

(* ---- planMediaGroups: the group that begins with item i goes on as far as the items fit ---- *)
Alone(i) == IsBig(items[i]) \/ ~items[i].eligible \/ items[i].key = NoKey
Joins(i, k) ==
  /\ ~Alone(i) /\ ~IsBig(items[k]) /\ items[k].eligible
  /\ items[k].chat = items[i].chat /\ items[k].key = items[i].key

EndsGroup(i, k) ==
  /\ k - i < MaxAlbum /\ \A j \in i + 1..k : Joins(i, j)
  /\ k = Len(items) \/ k + 1 - i = MaxAlbum \/ ~Joins(i, k + 1)

TelegramInit ==
  /\ items \in ItemSets /\ from = 1 /\ to \in {k \in DOMAIN items : EndsGroup(1, k)}
  /\ config \in [skipLarge : BOOLEAN, splitVideo : BOOLEAN, pattern : BOOLEAN]
  /\ chat = <<>> /\ pc = "inspect" /\ tries = 0
  /\ ready = 0 /\ pieces = <<>> /\ splits = 0 /\ temp = FALSE /\ stopped = FALSE /\ resent = {}

Group == from..to
Big == from = to /\ IsBig(items[from])
SkippedGroup == Big /\ items[from].size = "huge" /\ config.skipLarge
Goto(place) == pc' = place

(* ---- saveBatch: every item that is not over the split size is read for its type ---- *)
Inspect ==
  /\ pc = "inspect" /\ Goto("attempt")
  /\ UNCHANGED <<inputVars, chat, spanVars, tries, ready, pieces, splits, temp, stopped, resent>>

\* An item cannot be read: the batch fails before anything is planned.
InspectFails ==
  /\ pc = "inspect" /\ (\E i \in DOMAIN items : ~IsBig(items[i])) /\ Goto("failed")
  /\ UNCHANGED <<inputVars, chat, spanVars, tries, ready, pieces, splits, temp, stopped, resent>>

(* ---- saveMediaGroup: one attempt, and retry.Retry around it ---- *)
GroupSaved ==
  /\ tries' = 0 /\ splits' = 0 /\ ready' = 0 /\ pieces' = <<>>
  /\ \/ to = Len(items) /\ Goto("saved") /\ UNCHANGED spanVars
     \/ /\ from' = to + 1 /\ to' \in {k \in DOMAIN items : k > to /\ EndsGroup(to + 1, k)}
        /\ Goto("attempt")

Left == {i \in DOMAIN items : \E m \in DOMAIN chat : \E p \in DOMAIN chat[m] : chat[m][p].item = i}
AttemptPassedOver(left) ==
  /\ resent' = resent
  /\ GroupSaved

AttemptFailed(left) ==
  /\ tries' = tries + 1 /\ splits' = 0 /\ ready' = 0 /\ pieces' = <<>>
  /\ resent' = resent \union (Group \cap left)
  /\ Goto(IF tries + 1 < MaxTries /\ ~stopped THEN "attempt" ELSE "failed")
  /\ UNCHANGED spanVars

\* The limiter's wait ends with the context.
Attempt ==
  /\ pc = "attempt"
  /\ \/ /\ SkippedGroup /\ GroupSaved /\ UNCHANGED resent
     \/ /\ ~SkippedGroup /\ stopped /\ AttemptFailed(Left)
     \/ /\ ~SkippedGroup /\ ~stopped /\ UNCHANGED <<spanVars, tries, splits, ready, resent>>
        /\ pieces' = IF Big THEN <<>> ELSE [k \in 1..(to - from + 1) |-> Piece(from + k - 1, "whole", 1, 1)]
        /\ Goto(CASE ~Big -> "upload"
                  [] Big /\ config.splitVideo /\ items[from].video -> "cut"
                  [] OTHER -> "zip")
  /\ UNCHANGED <<inputVars, chat, temp, stopped>>

(* ---- createLosslessVideoParts: at most one album of parts, each below the limit ---- *)
Cut ==
  /\ pc = "cut" /\ splits < SplitAttempts /\ splits' = splits + 1
  /\ \/ \E n \in 2..MaxAlbum : pieces' = Parts(from, "video", n) /\ temp' = TRUE /\ Goto("upload")
     \/ temp' = TRUE /\ UNCHANGED pieces /\ Goto("cut")       \* a part is too large: shorter segments
     \/ temp' = FALSE /\ UNCHANGED pieces /\ Goto("zip")      \* a tool failed, or too few or many parts
  /\ UNCHANGED <<inputVars, chat, spanVars, tries, ready, stopped, resent>>

CutGivenUp ==
  /\ pc = "cut" /\ splits = SplitAttempts
  /\ temp' = FALSE /\ Goto("zip")
  /\ UNCHANGED <<inputVars, chat, spanVars, tries, ready, pieces, splits, stopped, resent>>

\* The context's error while cutting is returned without the fallback.
CutCancelled ==
  /\ pc = "cut" /\ stopped /\ temp' = FALSE /\ AttemptFailed(Left)
  /\ UNCHANGED <<inputVars, chat, stopped>>

(* ---- splitUpload: the parts are found by a pattern made of the file's name ---- *)
CreateZip ==
  /\ pc = "zip" /\ temp' = TRUE
  /\ \E n \in 2..MaxParts :
       pieces' = IF config.pattern THEN <<>> ELSE Parts(from, "zip", n)
  /\ Goto(IF config.pattern THEN "panic" ELSE "upload")
  /\ UNCHANGED <<inputVars, chat, spanVars, tries, ready, splits, stopped, resent>>

ZipFails ==
  /\ pc = "zip" /\ temp' = FALSE /\ AttemptFailed(Left)
  /\ UNCHANGED <<inputVars, chat, stopped>>

(* ---- prepareMedia of each piece, one after another, and the albums ---- *)
Upload ==
  /\ pc = "upload" /\ ready < Len(pieces) /\ ready' = ready + 1
  /\ UNCHANGED <<inputVars, chat, pc, spanVars, tries, pieces, splits, temp, stopped, resent>>

PartUploadFails ==
  /\ pc = "upload" /\ ready < Len(pieces) /\ temp' = FALSE /\ AttemptFailed(Left)
  /\ UNCHANGED <<inputVars, chat, stopped>>

Album == SubSeq(pieces, 1, IF Len(pieces) < MaxAlbum THEN Len(pieces) ELSE MaxAlbum)
Rest == SubSeq(pieces, Len(Album) + 1, Len(pieces))

Send ==
  /\ pc \in {"upload", "albums"} /\ pieces # <<>> /\ (pc = "upload" => ready = Len(pieces))
  /\ chat' = Append(chat, Album)
  /\ \/ Rest = <<>> /\ temp' = FALSE /\ GroupSaved /\ UNCHANGED resent
     \/ Rest # <<>> /\ pieces' = Rest /\ Goto("albums") /\ UNCHANGED <<spanVars, tries, splits, ready, temp, resent>>
  /\ UNCHANGED <<inputVars, stopped>>

\* The request fails, or its answer is lost with the album in the chat.
SendFails ==
  /\ pc \in {"upload", "albums"} /\ pieces # <<>> /\ (pc = "upload" => ready = Len(pieces))
  /\ \/ UNCHANGED chat /\ AttemptFailed(Left)
     \/ chat' = Append(chat, Album) /\ AttemptFailed(Left \union {Album[k].item : k \in DOMAIN Album})
  /\ temp' = FALSE
  /\ UNCHANGED <<inputVars, stopped>>

CancelBatch ==
  /\ ~stopped /\ stopped' = TRUE
  /\ UNCHANGED <<inputVars, chat, pc, spanVars, tries, ready, pieces, splits, temp, resent>>

Step ==
  \/ Inspect \/ InspectFails \/ Attempt \/ Cut \/ CutGivenUp \/ CutCancelled \/ CreateZip \/ ZipFails
  \/ Upload \/ PartUploadFails \/ Send \/ SendFails
TelegramNext == Step \/ CancelBatch

TelegramFairness == WF_telegramVars(Step)
TelegramSpec == TelegramInit /\ [][TelegramNext]_telegramVars /\ TelegramFairness

-----------------------------------------------------------------------------
Sent == UNION {{chat[m][p] : p \in DOMAIN chat[m]} : m \in DOMAIN chat}
Skipped(i) == items[i].size = "huge" /\ config.skipLarge
Complete(i) == \E p \in Sent : p.item = i /\ \A k \in 1..p.n : Piece(i, p.form, k, p.n) \in Sent

(* When the batch is reported saved, every item is in the chat with all its parts, unless it was *)
(* skipped for its size; and nothing of an item is in the chat before all that precede it in the *)
(* batch are there whole, through every failure and repetition (telegram.go:401-424, 478-540).   *)
ChatInOrder ==
  /\ pc = "saved" => \A i \in DOMAIN items : Skipped(i) \/ Complete(i)
  /\ \A p \in Sent : \A i \in 1..(p.item - 1) : Skipped(i) \/ Complete(i) \/ {i, p.item} \subseteq Group

(* A piece is twice in the chat, or an item in two forms, only if an attempt failed after it had *)
(* put something of that item there: a lost answer, or a ZIP's album after the first.            *)
Twice(p) == \E m, n \in DOMAIN chat : m # n /\ p \in Range(chat[m]) \cap Range(chat[n])
RepeatedOnlyAfterLoss ==
  \A p \in Sent : (Twice(p) \/ \E q \in Sent : q.item = p.item /\ q.form # p.form) => p.item \in resent

(* A group never mixes source groups or chats and no album is larger than Telegram allows; but   *)
(* no two neighbouring groups could have been one album (telegram.go:443-463, 634-649).           *)
Fits(S) ==
  \/ Cardinality(S) = 1
  \/ /\ Cardinality(S) <= MaxAlbum
     /\ \A i \in S : ~IsBig(items[i]) /\ items[i].eligible /\ items[i].key # NoKey
     /\ \A i, j \in S : items[i].key = items[j].key /\ items[i].chat = items[j].chat
PlanIsGreedy ==
  /\ Fits(Group) /\ (to < Len(items) => ~Fits(from..to + 1))
  /\ \A m \in DOMAIN chat : Len(chat[m]) \in 1..MaxAlbum

(* What a batch promises of the chat it is sent to.                                              *)
ChatInv == ChatInOrder /\ RepeatedOnlyAfterLoss /\ PlanIsGreedy

(* The batch returns, with its temporary files removed, unless parts are looked for by a name    *)
(* that is a pattern: no part is found and the first of them is taken (telegram.go:563, 617).    *)
BatchReturns == <>((pc \in {"saved", "failed"} /\ ~temp) \/ (pc = "panic" /\ config.pattern))
=============================================================================
