------------------------------ MODULE SaveFlow ------------------------------
(***************************************************************************)
(* How a request to save files becomes a task: the buttons the bot sends   *)
(* (storage, directory, what to do about names that are taken), the cache  *)
(* that keeps what each button stands for, silent mode, the user's rules,  *)
(* and the plan that CreateAndAdd...TaskWithEdit makes of them.  Updates   *)
(* are handled concurrently: a button may be pressed twice, answered after *)
(* its entry expired, or after the settings it depends on have changed.    *)
(***************************************************************************)
EXTENDS Naturals, FiniteSets, Sequences, SequencesExt

CONSTANTS
  Request,      \* [messages -> [kind, files]]: what each message asks to save
  Group,        \* [files -> group], NoGroup for a file outside of any album
  NoGroup,
  Usable,       \* the storages the user may use
  Rules,        \* the user's rules: a sequence of [hits, stor, dir]
  DirRow,       \* the rows /dir can make: [ids -> [stor, path]], ids positive
  Settings,     \* the settings the user moves between
  Slots,        \* handlers that run during the behaviour: 1..n
  MaxRequests,  \* messages that arrive
  MaxEdits      \* changes of settings, directories and stored files

ASSUME RequestAssumption ==
  \A m \in DOMAIN Request : Request[m].files \in Seq(DOMAIN Group) /\ Request[m].files # <<>>

VARIABLES
  user,         \* the user's row: silent, apply, strategy, defStor, defDir
  dirs,         \* ids of the directories in the database
  stored,       \* the places that hold a file
  cache,        \* what the buttons that have not expired stand for
  shown,        \* [messages -> the buttons the chat shows under the bot's answer]
  gone,         \* files that left the storage a transfer copies from
  said,         \* [messages -> what the bot's answer says]
  handler,      \* [Slots -> a handler of an update]
  tasks,        \* the tasks added to the queue
  edits

flowVars == <<user, dirs, stored, gone, cache, shown, said, handler, tasks, edits>>

Messages == DOMAIN Request
Kinds == {"file", "range", "transfer"}
Strategies == {"rename", "ask", "overwrite", "skip"}
NoDir == 0
CHOSEN == "CHOSEN"
NewForAlbum == "NEW-FOR-ALBUM"

Free == [pc |-> "free"]
FirstFree == CHOOSE s \in Slots : handler[s] = Free /\ \A r \in Slots : handler[r] = Free => s <= r
SomeFree == \E s \in Slots : handler[s] = Free

Place(s, d, f) == [stor |-> s, dir |-> d, file |-> f]
InDir(path) == IF path = "" THEN <<>> ELSE <<path>>
FilesOf(m) == ToSet(Request[m].files)

FlowInit ==
  /\ user \in Settings
  /\ dirs \in SUBSET DOMAIN DirRow
  /\ stored = {} /\ gone = {}
  /\ cache = {} /\ tasks = {} /\ edits = 0
  /\ shown = [m \in Messages |-> {}]
  /\ said = [m \in Messages |-> [what |-> "nothing"]]
  /\ handler = [s \in Slots |-> Free]

----------------------------------------------------------------------------
(* ApplyRule: every rule is tried and the last that hits decides. *)
ApplyRule == [f \in DOMAIN Group |->
  LET hits(r) == f \in r.hits
      last == SelectLastInSeq(Rules, hits)
  IN IF last = 0 THEN [stor |-> "", dir |-> ""] ELSE [stor |-> Rules[last].stor, dir |-> Rules[last].dir]]

Matched(f) == user.apply /\ ApplyRule[f] # [stor |-> "", dir |-> ""]
RuleStorage(f, s) == IF ApplyRule[f].stor \in {"", CHOSEN} THEN s ELSE ApplyRule[f].stor
AlbumDir(f) == Matched(f) /\ ApplyRule[f].dir = NewForAlbum

(* Where a file sent alone goes: a rule without a directory keeps the one chosen. *)
SinglePlace(f, s, d) ==
  IF ~Matched(f) THEN Place(s, d, f)
  ELSE Place(RuleStorage(f, s), IF ApplyRule[f].dir = "" THEN d ELSE InDir(ApplyRule[f].dir), f)

(* The positions in the batch of the files that go into the folder of album g, *)
(* and where the files of a batch go; an album of one such file goes nowhere,   *)
(* nor does such a file outside of an album.                                    *)
InAlbum(fs, g) == {i \in DOMAIN fs : AlbumDir(fs[i]) /\ Group[fs[i]] = g}
DroppedPair(fs, f) == AlbumDir(f) /\ (Group[f] = NoGroup \/ Cardinality(InAlbum(fs, Group[f])) <= 2)
Dropped(fs, f) == AlbumDir(f) /\ (Group[f] = NoGroup \/ Cardinality(InAlbum(fs, Group[f])) <= 1)
BatchPlace(fs, f, s, d) ==
  CASE ~Matched(f) -> Place(s, d, f)
    [] AlbumDir(f) -> LET first == fs[Min(InAlbum(fs, Group[f]))]
                      IN Place(RuleStorage(first, s), Append(d, first), f)
    [] OTHER -> Place(RuleStorage(f, s), InDir(ApplyRule[f].dir), f)

(* The plan: the place of every file that has one, under the rules as they are. *)
Plan(add, d) ==
  LET fs == Request[add.msg].files
  IN IF Request[add.msg].kind = "transfer" THEN {Place(add.stor, d, f) : f \in FilesOf(add.msg) \ gone}
     ELSE IF add.batch THEN {BatchPlace(fs, f, add.stor, d) : f \in {f \in ToSet(fs) : ~Dropped(fs, f)}}
     ELSE {SinglePlace(fs[1], add.stor, d)}

StrategyOfUser(add) == IF user.strategy \in Strategies THEN user.strategy
                       ELSE IF add.answer \in Strategies THEN add.answer ELSE "rename"

Strategy(add) == IF add.answer \in Strategies THEN add.answer
                 ELSE IF user.strategy \in Strategies THEN user.strategy ELSE "rename"

----------------------------------------------------------------------------
(* The edits of the bot's answer. *)
Say(m, what, buttons) ==
  /\ said' = [said EXCEPT ![m] = what]
  /\ shown' = [shown EXCEPT ![m] = buttons]
  /\ cache' = cache \cup buttons

Finished(s) == handler' = [handler EXCEPT ![s] = [pc |-> "done"]]

StorageButtons(m) ==
  {[msg |-> m, stor |-> s, dirSet |-> FALSE, dirID |-> NoDir, dir |-> <<>>, answer |-> "",
    batch |-> Len(Request[m].files) > 1, trail |-> [stor |-> s, dir |-> <<>>, prompt |-> {}, apply |-> FALSE]]
     : s \in Usable}

(* handleSilentMode around handleMediaMessage, handleSaveCmd and their       *)
(* silent twins; handleTransferCmd always asks.  A range of messages is a   *)
(* batch even when one file is found, and is saved without the default      *)
(* directory.                                                               *)
Silent(m) == Request[m].kind # "transfer" /\ user.silent /\ user.defStor # ""
DirGone == user.defDir # NoDir /\ user.defDir \notin dirs

Arrives(m) ==
  /\ said[m].what = "nothing" /\ SomeFree
  /\ Cardinality({r \in Messages : said[r].what # "nothing"}) < MaxRequests

OffersStorages(m) ==
  /\ Arrives(m)
  /\ Say(m, [what |-> "storages"], StorageButtons(m))
  /\ Finished(FirstFree)
  /\ UNCHANGED <<user, dirs, stored, gone, tasks, edits>>
Loud(m) == Silent(m) => user.defStor \in Usable /\ DirGone

AskForFile(m) == Request[m].kind = "file" /\ Loud(m) /\ OffersStorages(m)
AskForRange(m) == Request[m].kind = "range" /\ Loud(m) /\ OffersStorages(m)
AskForTransfer(m) == Request[m].kind = "transfer" /\ OffersStorages(m)

Refuse(m) ==
  /\ Arrives(m)
  /\ Silent(m) /\ user.defStor \notin Usable
  /\ Say(m, [what |-> "failed"], {})
  /\ Finished(FirstFree)
  /\ UNCHANGED <<user, dirs, stored, gone, tasks, edits>>

SaveSilently(m) ==
  LET d == IF user.defDir = NoDir \/ Request[m].kind = "range" THEN <<>> ELSE InDir(DirRow[user.defDir].path)
  IN /\ Arrives(m)
     /\ Silent(m) /\ user.defStor \in Usable /\ ~DirGone
     /\ handler' = [handler EXCEPT ![FirstFree] =
          [pc |-> "create", dir |-> d,
           add |-> [msg |-> m, stor |-> user.defStor, dirSet |-> FALSE, dirID |-> NoDir, dir |-> <<>>,
                    answer |-> "", batch |-> Request[m].kind = "range" \/ Len(Request[m].files) > 1,
                    trail |-> [stor |-> user.defStor, dir |-> d, prompt |-> {}, apply |-> FALSE]]]]
     /\ Say(m, [what |-> "working"], {})
     /\ UNCHANGED <<user, dirs, stored, gone, tasks, edits>>

----------------------------------------------------------------------------
(* The user presses a button that the chat shows; its data may expire before the handler reads it. *)
Press(m) ==
  /\ SomeFree
  /\ \E add \in shown[m] :
       handler' = [handler EXCEPT ![FirstFree] = [pc |-> "pressed", add |-> add]]
  /\ UNCHANGED <<user, dirs, stored, gone, cache, shown, said, tasks, edits>>

Expire(m) ==
  /\ \E add \in cache : add.msg = m
  /\ cache' = {add \in cache : add.msg # m}
  /\ UNCHANGED <<user, dirs, stored, gone, shown, said, handler, tasks, edits>>

(* handleAddCallback up to the task's type.  The alerts leave the message as it is. *)
DirsFor(s) == {i \in dirs : DirRow[i].stor = s}
Expired(add) == add \notin cache
AsksForDir(add) == ~add.dirSet /\ DirsFor(add.stor) # {}
DirLost(add) == add.dirID # NoDir /\ add.dirID \notin dirs

Alert(s) ==
  /\ handler[s].pc = "pressed"
  /\ LET add == handler[s].add
     IN Expired(add) \/ (~AsksForDir(add) /\ DirLost(add))
  /\ Finished(s)
  /\ UNCHANGED <<user, dirs, stored, gone, cache, shown, said, tasks, edits>>

DirButtons(add) ==
  {[add EXCEPT !.dirID = i, !.dirSet = TRUE,
               !.trail.dir = IF i = NoDir THEN <<>> ELSE InDir(DirRow[i].path)]
     : i \in DirsFor(add.stor) \cup {NoDir}}

AskForDir(s) ==
  /\ handler[s].pc = "pressed"
  /\ LET add == handler[s].add
     IN /\ ~Expired(add) /\ AsksForDir(add)
        /\ Say(add.msg, [what |-> "dirs"], DirButtons(add))
  /\ Finished(s)
  /\ UNCHANGED <<user, dirs, stored, gone, tasks, edits>>

SettleDir(s) ==
  /\ handler[s].pc = "pressed"
  /\ LET add == handler[s].add
         d == IF add.dirID # NoDir THEN InDir(DirRow[add.dirID].path) ELSE add.dir
     IN /\ ~Expired(add) /\ ~AsksForDir(add) /\ ~DirLost(add)
        /\ handler' = [handler EXCEPT ![s] = [pc |-> "create", add |-> add, dir |-> d]]
  /\ UNCHANGED <<user, dirs, stored, gone, cache, shown, said, tasks, edits>>

----------------------------------------------------------------------------
(* CreateAndAddTGFileTaskWithEdit and CreateAndAddBatchTGFileTaskWithEdit   *)
(* read the user, apply the rules, look every place up, and then fail, ask, *)
(* skip, or make a task and add it; handleTransferCallback adds without     *)
(* looking.                                                                 *)
Creating(s) == handler[s].pc = "create"
PlanOf(s) == Plan(handler[s].add, handler[s].dir)
IsTransfer(s) == Request[handler[s].add.msg].kind = "transfer"
Taken(s) == IF IsTransfer(s) \/ Strategy(handler[s].add) \notin {"ask", "skip"} THEN {}
            ELSE PlanOf(s) \cap stored
BadStorage(s) == ~IsTransfer(s) /\ \E f \in FilesOf(handler[s].add.msg) :
                   Matched(f) /\ RuleStorage(f, handler[s].add.stor) \notin Usable

(* The user cannot be read, an element of the task cannot be made, or the *)
(* files of a transfer cannot be listed; always when a rule names a        *)
(* storage that the user may not use, or no file of a transfer is left.    *)
MakeFails(s) ==
  /\ Creating(s)
  /\ Say(handler[s].add.msg, [what |-> "failed"], {})
  /\ Finished(s)
  /\ UNCHANGED <<user, dirs, stored, gone, tasks, edits>>

(* The prompt of a single file carries the place it found, that of a batch *)
(* the storage and directory it started from.                              *)
AnswerButtons(s) ==
  LET add == handler[s].add
      p == CHOOSE p \in Taken(s) : TRUE
      base == IF add.batch THEN [stor |-> add.stor, dir |-> handler[s].dir] ELSE [stor |-> p.stor, dir |-> p.dir]
  IN {[add EXCEPT !.stor = base.stor, !.dir = base.dir, !.dirSet = TRUE, !.dirID = NoDir, !.answer = a,
                  !.trail.prompt = Taken(s), !.trail.apply = user.apply]
        : a \in {"rename", "overwrite", "skip"}}

AskAboutTaken(s) ==
  /\ Creating(s) /\ ~BadStorage(s)
  /\ Strategy(handler[s].add) = "ask" /\ Taken(s) # {}
  /\ Say(handler[s].add.msg, [what |-> "conflict"], AnswerButtons(s))
  /\ Finished(s)
  /\ UNCHANGED <<user, dirs, stored, gone, tasks, edits>>

Verdict(s, what) ==
  [what |-> what, saved |-> PlanOf(s) \ Taken(s), skipped |-> {p.file : p \in Taken(s)}, apply |-> user.apply]

SkipAll(s) ==
  /\ Creating(s) /\ ~BadStorage(s) /\ ~IsTransfer(s)
  /\ Strategy(handler[s].add) # "ask" \/ Taken(s) = {}
  /\ PlanOf(s) \ Taken(s) = {}
  /\ Say(handler[s].add.msg, Verdict(s, "skipped"), {})
  /\ Finished(s)
  /\ UNCHANGED <<user, dirs, stored, gone, tasks, edits>>

MakeTask(s) ==
  /\ Creating(s) /\ ~BadStorage(s)
  /\ Strategy(handler[s].add) # "ask" \/ Taken(s) = {}
  /\ PlanOf(s) \ Taken(s) # {}
  /\ handler' = [handler EXCEPT ![s] =
       [pc |-> "add", verdict |-> Verdict(s, "added"),
        task |-> [add |-> handler[s].add, places |-> PlanOf(s) \ Taken(s), apply |-> user.apply,
                  overwrite |-> ~IsTransfer(s) /\ Strategy(handler[s].add) = "overwrite",
                  setting |-> user.strategy]]]
  /\ UNCHANGED <<user, dirs, stored, gone, cache, shown, said, tasks, edits>>

(* core.AddTask, which may refuse it; by now any of the places may be taken. *)
AddTask(s) ==
  /\ handler[s].pc = "add"
  /\ tasks' = tasks \cup {handler[s].task}
  /\ Say(handler[s].task.add.msg, handler[s].verdict, {})
  /\ Finished(s)
  /\ UNCHANGED <<user, dirs, stored, gone, edits>>

AddFails(s) ==
  /\ handler[s].pc = "add"
  /\ Say(handler[s].task.add.msg, [what |-> "failed"], {})
  /\ Finished(s)
  /\ UNCHANGED <<user, dirs, stored, gone, tasks, edits>>

----------------------------------------------------------------------------
(* Meanwhile settings change, directories come and go, another save takes a *)
(* place this one is about to look up, a file leaves a transfer's source.   *)
ChangeSettings ==
  /\ edits < MaxEdits
  /\ edits' = edits + 1
  /\ \/ user' \in Settings /\ UNCHANGED <<dirs, stored, gone>>
     \/ dirs' \in SUBSET DOMAIN DirRow /\ UNCHANGED <<user, stored, gone>>
     \/ /\ \E s \in Slots : Creating(s) /\ \E p \in PlanOf(s) : stored' = stored \cup {p}
        /\ UNCHANGED <<user, dirs, gone>>
     \/ /\ \E m \in Messages : Request[m].kind = "transfer" /\ \E f \in FilesOf(m) : gone' = gone \cup {f}
        /\ UNCHANGED <<user, dirs, stored>>
  /\ UNCHANGED <<cache, shown, said, handler, tasks>>

Handle(s) ==
  Alert(s) \/ AskForDir(s) \/ SettleDir(s) \/ MakeFails(s) \/ AskAboutTaken(s) \/ SkipAll(s)
  \/ MakeTask(s) \/ AddTask(s) \/ AddFails(s)

FlowNext ==
  \/ \E m \in Messages : AskForFile(m) \/ AskForRange(m) \/ AskForTransfer(m) \/ Refuse(m) \/ SaveSilently(m)
  \/ \E m \in Messages : Press(m) \/ Expire(m)
  \/ \E s \in Slots : Handle(s)
  \/ ChangeSettings

FlowSpec == FlowInit /\ [][FlowNext]_flowVars

----------------------------------------------------------------------------
(* A task puts every file that no rule moves exactly where the buttons of    *)
(* its own chain said, however many of them were pressed meanwhile; it       *)
(* replaces files only when the button said so, or the settings when there   *)
(* was no such button; what a prompt listed is replaced by "overwrite",      *)
(* unless rules were switched since the prompt, and left alone by "skip".    *)
ChoicesKept ==
  \A t \in tasks :
    LET trail == t.add.trail
        answer == t.add.answer
    IN /\ \A p \in t.places : Request[t.add.msg].kind = "transfer" \/ ~t.apply
                                => p.stor \in {trail.stor} \cup {q.stor : q \in trail.prompt}
       /\ \A p \in t.places : (Request[t.add.msg].kind = "transfer" \/ (~t.apply /\ ~trail.apply))
                                => p = Place(trail.stor, trail.dir, p.file)
       /\ t.overwrite => "overwrite" = (IF answer = "" THEN t.setting ELSE answer)
       /\ answer = "overwrite" /\ t.apply = trail.apply => trail.prompt \subseteq t.places
       /\ answer = "skip" => t.places \cap trail.prompt = {}

(* Every file of a request whose answer is final is in the task or named as *)
(* skipped, except the files that left the source of a transfer, and those  *)
(* of a batch that a NEW-FOR-ALBUM rule leaves alone in their album.        *)
Together(fs, f) == {i \in DOMAIN fs : ApplyRule[fs[i]].dir = NewForAlbum /\ Group[fs[i]] = Group[f]}
LeftAlone(m, f) ==
  /\ Request[m].kind = "range" \/ Len(Request[m].files) > 1
  /\ ApplyRule[f].dir = NewForAlbum
  /\ Group[f] = NoGroup \/ Cardinality(Together(Request[m].files, f)) <= 1

FilesAccounted ==
  \A m \in Messages : said[m].what \in {"added", "skipped"} =>
    LET v == said[m]
        left == IF Request[m].kind = "transfer" THEN gone ELSE {f \in FilesOf(m) : v.apply /\ LeftAlone(m, f)}
    IN FilesOf(m) = {p.file : p \in v.saved} \cup v.skipped \cup (FilesOf(m) \cap left)
=============================================================================
