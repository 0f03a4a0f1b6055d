------------------------------- MODULE MCSaving -------------------------------
(***************************************************************************)
(* What the bot does with a save beside its task, one part at a time: the  *)
(* buttons, for an album and other files; the settings of a user; two      *)
(* saves of one name in a storage, and in Alist; and the message of a      *)
(* batch.                                                                  *)
(***************************************************************************)
EXTENDS SaveFlow, UserSettings, StorageSave, AlistSave, BatchMessage

VARIABLE part

(* A file and a range that share an album, a transfer, and a file whose rule names no storage. *)
SaveOf(k, fs) == [kind |-> k, files |-> fs]
MCRequest ==
  [one |-> SaveOf("file", <<"f1">>), many |-> SaveOf("range", <<"f1", "f3", "f2">>),
   move |-> SaveOf("transfer", <<"f1">>), other |-> SaveOf("file", <<"f4">>)]
MCGroup == [f1 |-> "g", f2 |-> "g", f3 |-> "none", f4 |-> "none"]
MCRules == <<[hits |-> {"f1", "f2"}, stor |-> "B", dir |-> "NEW-FOR-ALBUM"],
             [hits |-> {"f3"}, stor |-> "CHOSEN", dir |-> "r"], [hits |-> {"f4"}, stor |-> "Z", dir |-> ""]>>
UserOf(s, a, c, st, d) == [silent |-> s, apply |-> a, strategy |-> c, defStor |-> st, defDir |-> d]
MCSettings == {UserOf(FALSE, TRUE, "ask", "", 0), UserOf(FALSE, FALSE, "ask", "", 0),
               UserOf(TRUE, TRUE, "skip", "A", 1), UserOf(TRUE, FALSE, "overwrite", "Z", 0)}
MCDirRow == [i \in {1} |-> [stor |-> "A", path |-> "d"]]

Command(n, v, d) == [name |-> n, value |-> v, dir |-> d]
MCCommands ==
  {Command("silent", "", 0), Command("switch", "", 0), Command("conflict", "skip", 0),
   Command("fname", "n", 0), Command("tmpl", "t", 0), Command("watch", "c", 0),
   Command("default", "A", 0), Command("default", "B", 0), Command("default", "A", 1)}

MCSlots == 1..4
MCHandlers == 1..2

On(p) == part = p

(* A part that does not run stays in one of its initial states. *)
MCInit ==
  /\ part \in {"flow", "settings", "saves", "alist", "message"}
  /\ FlowInit /\ SettingsInit /\ SaveInit /\ AlistInit /\ MessageInit
  /\ ~On("flow") => user = UserOf(FALSE, TRUE, "ask", "", 0) /\ dirs = {}
  /\ ~On("settings") => row.defStor = NoStorage
  /\ ~On("saves") => kind = "local" /\ before = {} /\ overwrite = {} /\ ~dir
  /\ ~On("alist") => ~account /\ seekable = {} /\ ~taken /\ ~made

(* Bounds: at most two handlers at work, and one change, or two where a single file is saved. *)
Bounded ==
  /\ Cardinality({s \in Slots : handler'[s].pc \notin {"free", "done"}}) <= 2
  /\ said["one"].what = "nothing" => edits' <= 1
MCNext ==
  \/ On("flow") /\ FlowNext /\ Bounded
     /\ UNCHANGED <<part, settingVars, saveVars, alistVars, messageVars>>
  \/ On("settings") /\ SettingsNext
     /\ UNCHANGED <<part, flowVars, saveVars, alistVars, messageVars>>
  \/ On("saves") /\ SaveNext
     /\ UNCHANGED <<part, flowVars, settingVars, alistVars, messageVars>>
  \/ On("alist") /\ AlistNext
     /\ UNCHANGED <<part, flowVars, settingVars, saveVars, messageVars>>
  \/ On("message") /\ (ProgressNext \/ QueueNext)
     /\ UNCHANGED <<part, flowVars, settingVars, saveVars, alistVars>>

MCSpec == MCInit /\ [][MCNext]_<<part, flowVars, settingVars, saveVars, alistVars, messageVars>>
=============================================================================
