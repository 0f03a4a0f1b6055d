------------------------------- MODULE ApiTask -------------------------------
(***************************************************************************)
(* POST /api/v1/tasks (api/handlers.go, api/factory.go): what a request    *)
(* names is gathered first (the messages behind Telegram links, a download *)
(* added to aria2, the files of a page, a video or another storage), then  *)
(* the record is made and the task offered to the queue.  Requests run in  *)
(* goroutines of their own; the bot and the user account, which read the   *)
(* messages (api/tgfiles.go), connect and log out meanwhile.               *)
(***************************************************************************)
EXTENDS Naturals, FiniteSets, Sequences, SequencesExt

CONSTANTS
  Asked,        \* [ids of tasks -> [type, links, files]]: links for "tgfiles", what it finds for the rest
  Album,        \* [messages -> album], NoAlbum for a message outside of any
  NoAlbum,
  Media,        \* the messages with media
  Files,        \* those whose media can be saved as a file
  Sees,         \* [{"bot", "user"} -> the messages each may read]
  Fleeting,     \* bound: the messages that somebody may delete
  MaxRequests   \* bound: the requests that arrive

VARIABLES
  up,           \* the clients that are connected
  deleted,      \* messages that are gone from their chat
  storages,     \* the storage of the requests is initialised
  request,      \* [ids -> where the handler is and what it has gathered]
  records,      \* ids the progress store has
  queued,       \* tasks the queue took
  queueClosed,  \* the queue is closed
  downloads     \* downloads that were added to aria2

requestVars == <<up, deleted, storages, request, records, queued, queueClosed, downloads>>

Ids == DOMAIN Asked
Links == [msg : DOMAIN Album, single : BOOLEAN]

ASSUME ApiTaskAssumption ==
  /\ \A r \in Ids : /\ Asked[r].links \in Seq(Links) /\ Asked[r].files \in Seq(Nat)
                    /\ Asked[r].type # "tgfiles" => Asked[r].links = <<>>
  /\ IsFiniteSet(Files) /\ Files \subseteq Media

File(client, m) == [client |-> client, msg |-> m]

RequestInit ==
  /\ up \in SUBSET {"bot", "user"} /\ deleted = {} /\ storages \in BOOLEAN
  /\ request = [r \in Ids |-> [pc |-> "new", rest |-> Asked[r].links, files |-> <<>>]]
  /\ records = {} /\ queued = {} /\ queueClosed = FALSE /\ downloads = {}

Goes(r, pc) == request' = [request EXCEPT ![r].pc = pc]
Outside == <<up, deleted, storages, queueClosed>>

----------------------------------------------------------------------------
(* CreateTask asks for a storage that is there already, and for something to *)
(* save.                                                                     *)
CreateTask(r) ==
  /\ request[r].pc = "new" /\ Cardinality({q \in Ids : request[q].pc # "new"}) < MaxRequests
  /\ Goes(r, IF ~storages \/ (Asked[r].type = "tgfiles" /\ request[r].rest = <<>>) THEN "error" ELSE "gather")
  /\ UNCHANGED <<Outside, records, queued, downloads>>

(* getMessageWithContext: the bot, and when it cannot read the message the   *)
(* user account; what either has read before comes from its cache, though it *)
(* be deleted.  A link that cannot be read, or whose message has no media,   *)
(* is passed over, and so is media that makes no file.                       *)
Readers(m) == {c \in up : m \in Sees[c]}
Whole(link) == Album[link.msg] # NoAlbum /\ ~link.single

InOrder(msgs) == SetToSortSeq(msgs \cap Files, <)
FilesOf(c, msgs) == [i \in 1..Cardinality(msgs \cap Files) |-> File(c, InOrder(msgs)[i])]

(* A request that is done with the link at its front, which brought these    *)
(* files.                                                                    *)
Passed(q, fs) == [pc |-> "gather", rest |-> Tail(q.rest), files |-> q.files \o fs]

ReadLink(r) ==
  LET q == request[r]
      link == Head(q.rest)
  IN /\ q.pc = "gather" /\ q.rest # <<>>
     /\ \/ request' = [request EXCEPT ![r] = Passed(q, <<>>)]
        \/ \E c \in Readers(link.msg) :
             /\ link.msg \in Media
             /\ request' = [request EXCEPT ![r] =
                   IF Whole(link) THEN [pc |-> "album", rest |-> q.rest, files |-> q.files, client |-> c]
                   ELSE Passed(q, FilesOf(c, {link.msg}))]
     /\ UNCHANGED <<Outside, records, queued, downloads>>

(* getGroupedMessagesWithContext: of the album what the same client can read *)
(* (and of what is gone what it has in its cache), or the message alone when *)
(* that fails or brings nothing.  What has no file is passed over.           *)
AlbumOf(c, m) == {n \in Sees[c] : Album[n] = Album[m]}
Readings(c, m, gone) == {got \in SUBSET AlbumOf(c, m) : AlbumOf(c, m) \ gone \subseteq got}

ReadAlbum(r) ==
  LET q == request[r]
      m == Head(q.rest).msg
  IN /\ q.pc = "album"
     /\ \E got \in {{m}} \cup (Readings(q.client, m, deleted) \ {{}}) :
          request' = [request EXCEPT ![r] = Passed(q, FilesOf(q.client, got))]
     /\ UNCHANGED <<Outside, records, queued, downloads>>

Gathered(r) ==
  /\ request[r].pc = "gather" /\ Asked[r].type = "tgfiles" /\ request[r].rest = <<>>
  /\ Goes(r, IF request[r].files = <<>> THEN "error" ELSE "made")
  /\ UNCHANGED <<Outside, records, queued, downloads>>

(* The other types: URLs need nothing more, a parser, a page or the list of  *)
(* a storage may fail or find nothing, and aria2 is told to download before  *)
(* there is a task.  Of a parser alone nothing is asked: an item without     *)
(* resources makes a task too.                                               *)
GatheringFor(r, types) == request[r].pc = "gather" /\ Asked[r].type \in types
Found(r) ==
  /\ Asked[r].files # <<>> \/ Asked[r].type = "parseditem"
  /\ request' = [request EXCEPT ![r] =
       [pc |-> "made", rest |-> <<>>,
        files |-> [i \in 1..Len(Asked[r].files) |-> File("web", Asked[r].files[i])]]]

TakeURLs(r) ==
  /\ GatheringFor(r, {"directlinks", "ytdlp"}) /\ Found(r)
  /\ UNCHANGED <<Outside, records, queued, downloads>>

AddURI(r) ==
  /\ GatheringFor(r, {"aria2"}) /\ Found(r)
  /\ downloads' = downloads \cup {r}
  /\ UNCHANGED <<Outside, records, queued>>

Parse(r) ==
  /\ GatheringFor(r, {"parseditem"}) /\ Found(r)
  /\ UNCHANGED <<Outside, records, queued, downloads>>

ListSource(r) ==
  /\ GatheringFor(r, {"tphpics", "transfer"}) /\ Found(r)
  /\ UNCHANGED <<Outside, records, queued, downloads>>

GatherFails(r) ==
  /\ \/ GatheringFor(r, {"aria2", "parseditem", "tphpics", "transfer"})
     \/ GatheringFor(r, {"directlinks", "ytdlp"}) /\ Asked[r].files = <<>>
  /\ Goes(r, "error")
  /\ UNCHANGED <<Outside, records, queued, downloads>>

(* registerAndEnqueueTask: the record first, and away with it when the queue *)
(* refuses the task.                                                         *)
RegisterTask(r) ==
  /\ request[r].pc = "made"
  /\ records' = records \cup {r} /\ Goes(r, "registered")
  /\ UNCHANGED <<Outside, queued, downloads>>

Enqueue(r) ==
  /\ request[r].pc = "registered" /\ ~queueClosed
  /\ queued' = queued \cup {r} /\ Goes(r, "created")
  /\ UNCHANGED <<Outside, records, downloads>>

ForgetsRecord(r) ==
  /\ request[r].pc = "registered" /\ queueClosed /\ Goes(r, "error")
  /\ UNCHANGED <<Outside, records, queued, downloads>>

Unregister(r) ==
  /\ request[r].pc = "registered" /\ queueClosed
  /\ records' = records \ {r} /\ Goes(r, "error")
  /\ UNCHANGED <<Outside, queued, downloads>>

(* Clients connect and leave, messages are deleted, the storage is made by   *)
(* someone's first use of it, the queue is closed at the end.                *)
World ==
  /\ \/ up' \in SUBSET {"bot", "user"} /\ UNCHANGED <<deleted, storages, queueClosed>>
     \/ (\E m \in Fleeting : deleted' = deleted \cup {m}) /\ UNCHANGED <<up, storages, queueClosed>>
     \/ storages' = TRUE /\ UNCHANGED <<up, deleted, queueClosed>>
     \/ queueClosed' = TRUE /\ UNCHANGED <<up, deleted, storages>>
  /\ UNCHANGED <<request, records, queued, downloads>>

ApiNext ==
  \/ \E r \in Ids : CreateTask(r) \/ ReadLink(r) \/ ReadAlbum(r) \/ Gathered(r) \/ TakeURLs(r)
       \/ AddURI(r) \/ Parse(r) \/ ListSource(r) \/ GatherFails(r) \/ RegisterTask(r) \/ Enqueue(r) \/ Unregister(r)
  \/ World

ApiSpec == RequestInit /\ [][ApiNext]_requestVars

----------------------------------------------------------------------------
(* Where the task puts a file: NewTGFileTask and NewTaskElement take the path *)
(* of the request for the path of the file, the other tasks join the name.    *)
PlaceOf(r, f) == IF Asked[r].type = "tgfiles" THEN <<"path">> ELSE <<"path", f.msg>>

(* An answer tells what happened: "created" when the record is there and the *)
(* queue took the task, an error when neither is, whatever was gathered and  *)
(* registered on the way.  A link brings its message alone; or, if it is to  *)
(* an album, all that one client, which sees the message, can read of the    *)
(* album, in its order, missing none but deleted ones, though clients come   *)
(* and go and messages are deleted between the two calls.                    *)
Brings(link, fs, gone) ==
  \E c \in {"bot", "user"} :
    /\ link.msg \in Sees[c]
    /\ \/ fs = FilesOf(c, {link.msg})
       \/ Whole(link) /\ \E got \in Readings(c, link.msg, gone) : fs = FilesOf(c, got)

AnswerTells ==
  \A r \in Ids :
    /\ request[r].pc = "created" => r \in records \cap queued
    /\ request[r].pc = "created" /\ Asked[r].type # "parseditem" => request[r].files # <<>>
    /\ request[r].pc = "error" => r \notin records \cup queued
    /\ Len(Asked[r].links) = 1 /\ request[r].files # <<>> => Brings(Asked[r].links[1], request[r].files, deleted)

(* "Subdirectory path within the storage" (docs/content/en/usage/api.md:251): *)
(* the files of one request lie below the path, each with a place of its own. *)
PathIsDirectory ==
  \A r \in queued : \A i, j \in DOMAIN request[r].files :
    LET f == request[r].files[i]
        g == request[r].files[j]
    IN f.msg # g.msg => PlaceOf(r, f) # PlaceOf(r, g)
=============================================================================
