---------------------------- MODULE UserSettings ----------------------------
(***************************************************************************)
(* The user's row of the database and the directories, rules and watched   *)
(* chats that belong to it, under the handlers of /silent, /storage,       *)
(* /config, /fnametmpl, /rule, /dir, /watch and /unwatch, each of which    *)
(* runs in a goroutine of its own.  Most handlers read the whole user,     *)
(* change one field and save the whole user; gorm's Save also inserts the  *)
(* rows of the associations that were read and are not there any more.     *)
(***************************************************************************)
EXTENDS Naturals

CONSTANTS
  Storages,     \* the storages the user may use, and
  NoStorage,    \* the empty name
  Chats,
  Commands,     \* what the user asks for: [name, value, dir]
  Handlers,     \* handlers that save, in the order they start: 1..n
  MaxRows       \* rows the tables ever hold: ids 1..MaxRows

VARIABLES
  row,          \* the user's row
  rows,         \* the rows of the tables dirs, rules and watch_chats
  nextId,
  command,      \* [Handlers -> what the handler does and what it has read]
  told,         \* what the bot's answers have said the settings are
  stale,        \* what a save of something read earlier has undone since
  kept          \* a new default storage has kept the directory of the one before

settingVars == <<row, rows, nextId, command, told, stale, kept>>

Fields == {"silent", "defStor", "defDir", "apply", "conflict", "fname", "tmpl"}
Row(table, i, v) == [table |-> table, id |-> i, value |-> v]
Of(table) == {r \in rows : r.table = table}
DirsOf(s) == {r \in Of("dirs") : r.value = s}
Watched(c) == {r \in Of("chats") : r.value = c}

Idle == [pc |-> "idle"]

SettingsInit ==
  /\ \E s \in Storages \cup {NoStorage} :
       row = [silent |-> FALSE, defStor |-> s, defDir |-> 0, apply |-> FALSE,
              conflict |-> "", fname |-> "", tmpl |-> ""]
  /\ rows = {} /\ nextId = 1
  /\ command = [h \in Handlers |-> Idle]
  /\ told = [row |-> row, rows |-> {}]
  /\ stale = [fields |-> {}, rows |-> {}] /\ kept = FALSE

----------------------------------------------------------------------------
(* A handler reads the user with all its rows. *)
Read(h) ==
  /\ command[h] = Idle /\ \A g \in Handlers : command[g] = Idle => h <= g
  /\ \E c \in Commands : command' = [command EXCEPT ![h] = [pc |-> "read", cmd |-> c, row |-> row, rows |-> rows]]
  /\ UNCHANGED <<row, rows, nextId, told, stale, kept>>

(* handleSetDefaultCallback looks a chosen directory up, and asks for one when *)
(* the storage has directories; the button of a directory names its storage.   *)
DirChosen(h) == command[h].cmd.dir # 0
DirRowOf(h) == {r \in DirsOf(command[h].cmd.value) : r.id = command[h].cmd.dir}

(* The handlers that answer without saving: silent mode without a default   *)
(* storage, a directory that is gone, the question for a directory, a chat  *)
(* that is watched already.                                                 *)
AnswersOnly(h) ==
  LET c == command[h].cmd
      snap == command[h].row
  IN \/ c.name = "silent" /\ ~snap.silent /\ snap.defStor = NoStorage
     \/ c.name = "watch" /\ (snap.defStor = NoStorage \/ Watched(c.value) # {})
     \/ c.name = "default" /\ IF DirChosen(h) THEN DirRowOf(h) = {} ELSE DirsOf(c.value) # {}

Answer(h) ==
  /\ command[h].pc = "read" /\ AnswersOnly(h)
  /\ command' = [command EXCEPT ![h] = [pc |-> "done"]]
  /\ UNCHANGED <<row, rows, nextId, told, stale, kept>>

(* The one field the handler changes in what it has read. *)
Changed(h) ==
  LET c == command[h].cmd
      snap == command[h].row
  IN CASE c.name = "silent" -> [snap EXCEPT !.silent = ~@]
       [] c.name = "conflict" -> [snap EXCEPT !.conflict = c.value]
       [] c.name = "fname" -> [snap EXCEPT !.fname = c.value]
       [] c.name = "tmpl" -> [snap EXCEPT !.tmpl = c.value]
       [] c.name = "default" -> IF DirChosen(h) THEN [snap EXCEPT !.defStor = c.value, !.defDir = c.dir]
                                ELSE [snap EXCEPT !.defStor = c.value]
Saving == {"silent", "conflict", "fname", "tmpl", "default"}

(* The fields the user asked to set, and the rows that the save would bring back. *)
Own(h) ==
  LET c == command[h].cmd
  IN IF c.name = "default" THEN {"defStor"} \cup {f \in {"defDir"} : DirChosen(h)}
     ELSE {c.name}
Back(h) == command[h].rows \ rows
Doubles(rs) == {r \in rs : r.table = "chats" /\ \E q \in rs \ {r} : q.table = "chats" /\ q.value = r.value}

Decide(h) ==
  /\ command[h].pc = "read" /\ ~AnswersOnly(h)
  /\ command' = [command EXCEPT ![h].pc = "save",
                                ![h].row = IF command[h].cmd.name \in Saving THEN Changed(h) ELSE @,
                                ![h].cmd = IF command[h].cmd.name \in Saving
                                           THEN [name |-> "save", own |-> Own(h)] ELSE @]
  /\ kept' = (kept \/ (command[h].cmd.name = "default" /\ ~DirChosen(h) /\ command[h].row.defDir # 0))
  /\ UNCHANGED <<row, rows, nextId, told, stale>>

(* UpdateUser: every column, and every row of the associations. *)
UpdateUser(h) ==
  LET own == command[h].cmd.own
      new == command[h].row
  IN /\ command[h].pc = "save" /\ command[h].cmd.name = "save"
     /\ row' = new
     /\ rows' = rows \cup command[h].rows
     /\ told' = [told EXCEPT !.row = [f \in Fields |-> IF f \in own THEN new[f] ELSE told.row[f]]]
     /\ stale' = [fields |-> (stale.fields \ own) \cup {f \in Fields \ own : row[f] # new[f]},
                   rows |-> stale.rows \cup Back(h) \cup Doubles(rows')]
     /\ command' = [command EXCEPT ![h] = [pc |-> "done"]]
     /\ UNCHANGED <<nextId, kept>>

SwitchRulesInUser(h) ==
  LET on == ~command[h].row.apply
  IN /\ command[h].pc = "save" /\ command[h].cmd.name = "switch"
     /\ row' = [command[h].row EXCEPT !.apply = on]
     /\ told' = [told EXCEPT !.row.apply = on]
     /\ stale' = [stale EXCEPT !.fields = @ \ {"apply"}]
     /\ command' = [command EXCEPT ![h] = [pc |-> "done"]]
     /\ UNCHANGED <<rows, nextId, kept>>

(* /rule switch: one column, from the value that was read. *)
SwitchRules(h) ==
  LET on == ~command[h].row.apply
  IN /\ command[h].pc = "save" /\ command[h].cmd.name = "switch"
     /\ row' = [row EXCEPT !.apply = on]
     /\ told' = [told EXCEPT !.row.apply = on]
     /\ stale' = [stale EXCEPT !.fields = @ \ {"apply"}]
     /\ command' = [command EXCEPT ![h] = [pc |-> "done"]]
     /\ UNCHANGED <<rows, nextId, kept>>

(* WatchChat saves the list that was read with the new chat at its end. *)
WatchChat(h) ==
  LET c == command[h].cmd.value
      new == Row("chats", nextId, c)
      back == {r \in Back(h) : r.table = "chats"}
  IN /\ command[h].pc = "save" /\ command[h].cmd.name = "watch"
     /\ nextId <= MaxRows /\ nextId' = nextId + 1
     /\ rows' = rows \cup {new} \cup back
     /\ told' = [told EXCEPT !.rows = @ \cup {new}]
     /\ stale' = [stale EXCEPT !.rows = @ \cup back \cup Doubles(rows')]
     /\ command' = [command EXCEPT ![h] = [pc |-> "done"]]
     /\ UNCHANGED <<row, kept>>

(* /dir and /rule add and del, and UnwatchChat, which deletes the first row of the chat. *)
AddRow ==
  /\ nextId <= MaxRows /\ nextId' = nextId + 1
  /\ \E new \in {Row("dirs", nextId, s) : s \in Storages} \cup {Row("rules", nextId, NoStorage)} :
       /\ rows' = rows \cup {new}
       /\ told' = [told EXCEPT !.rows = @ \cup {new}]
  /\ UNCHANGED <<row, command, stale, kept>>

DeleteRow ==
  /\ \E r \in Of("dirs") \cup Of("rules") :
       /\ rows' = rows \ {r}
       /\ told' = [told EXCEPT !.rows = @ \ {r}]
       /\ stale' = [stale EXCEPT !.rows = @ \ {r}]
  /\ UNCHANGED <<row, nextId, command, kept>>

UnwatchChat ==
  /\ \E c \in Chats :
       /\ Watched(c) # {}
       /\ LET first == CHOOSE r \in Watched(c) : \A q \in Watched(c) : r.id <= q.id
          IN rows' = rows \ {first}
       /\ told' = [told EXCEPT !.rows = {r \in @ : ~(r.table = "chats" /\ r.value = c)}]
  /\ UNCHANGED <<row, nextId, command, stale, kept>>

SettingsNext ==
  \/ \E h \in Handlers : Read(h) \/ Answer(h) \/ Decide(h) \/ UpdateUser(h) \/ SwitchRules(h) \/ WatchChat(h)
  \/ AddRow \/ DeleteRow \/ UnwatchChat

SettingsSpec == SettingsInit /\ [][SettingsNext]_settingVars

----------------------------------------------------------------------------
(* What the bot has answered is what the database holds, except for what a  *)
(* save of something read before has undone since; a chat that was unwatched *)
(* is watched no more unless two commands had watched it at once.           *)
AnswersHold ==
  /\ \A f \in Fields \ stale.fields : row[f] = told.row[f]
  /\ \A r \in (rows \cup told.rows) \ stale.rows : r \in rows <=> r \in told.rows

(* The directory of silent mode is one of the default storage, unless the   *)
(* directory was deleted, or the default storage was changed to one without *)
(* directories, which keeps the directory of the storage before.            *)
DefaultDirFits ==
  row.defDir # 0 =>
    \/ \E r \in DirsOf(row.defStor) : r.id = row.defDir
    \/ ~\E r \in Of("dirs") : r.id = row.defDir
    \/ kept

(* What the settings of a user promise: the answers of the bot hold in the   *)
(* database, and the default directory fits the default storage.            *)
SettingsInv == AnswersHold /\ DefaultDirFits
=============================================================================
