-------------------------------- MODULE MCFiles --------------------------------
(***************************************************************************)
(* Files on their way to a storage, one part at a time: the tasks that are *)
(* not of Telegram, with three files of which two are one link; the task   *)
(* of one Telegram file; a batch sent to a Telegram chat; the registry     *)
(* that makes the storages, with three callers beside LoadStorages; and    *)
(* of the watch subcommand the pool of uploads and the watcher.            *)
(***************************************************************************)
EXTENDS FileTasks, SingleFile, StorageRegistry, TelegramSave, DirUploader

CONSTANTS Chosen,    \* which of "tasks", "single", "chat", "registry", "uploader" and "watcher" may run
          f1, f2, f3,
          TopFiles, DeepFiles, MaxSize, MaxVersion    \* of the watcher

VARIABLES part,
          size, written, dir, watches, events, run, ctxDone, entry, orphans, begun, looked, lastSize,
          given, unseen, robbed

W == INSTANCE DirWatcher WITH version <- written

watcherVars == <<size, written, dir, watches, events, run, ctxDone, entry, orphans, begun, looked, lastSize,
                 given, unseen, robbed>>

MCUrl == [f \in {f1, f2, f3} |-> IF f = f3 THEN f1 ELSE f]

(* Batches of two or three: one album, two groups, a document or a large video among photos, two chats. *)
Item(length, video, eligible, key, target) ==
  [size |-> length, video |-> video, eligible |-> eligible, key |-> key, chat |-> target]
Photo(key, target) == Item("small", FALSE, TRUE, key, target)
Photo1 == Photo("k1", "c1")
Photo2 == Photo("k2", "c1")
Document == Item("small", FALSE, FALSE, "k1", "c1")
Video(length) == Item(length, TRUE, FALSE, "k1", "c1")
MCItemSets ==
  {<<Photo1, Photo1, Photo1>>, <<Photo1, Photo2, Photo2>>, <<Photo1, Document, Photo1>>,
   <<Photo1, Photo("k1", "c2")>>, <<Photo("none", "c1"), Photo("none", "c1")>>,
   <<Video("split"), Photo1>>, <<Video("huge"), Photo1, Photo1>>}

(* The second user has one of the storages of the first, and one that there is not. *)
MCUserIDs == <<777, 888>>
MCNamesOf == [u \in {777, 888} |-> IF u = 777 THEN <<"A", "B">> ELSE <<"B", "C">>]

On(p) == part = p

(* A part that does not run stays in one of its initial states. *)
MCInit ==
  /\ part \in Chosen
  /\ Init /\ FileInit /\ TelegramInit /\ RegistryInit /\ UploaderInit /\ W!WatcherInit
  /\ ~On("tasks") => kind = "direct" /\ ~stream
  /\ ~On("single") => ~streamed /\ ~closes
  /\ ~On("chat") => items = <<Photo1, Photo("k1", "c2")>> /\ ~config.skipLarge /\ ~config.splitVideo /\ ~config.pattern
  /\ ~On("watcher") => ~dir /\ run = "scan"
MCNext ==
  \/ On("tasks") /\ Next /\ UNCHANGED <<part, singleVars, telegramVars, registryVars, uploaderVars, watcherVars>>
  \/ On("single") /\ FileNext /\ UNCHANGED <<part, vars, telegramVars, registryVars, uploaderVars, watcherVars>>
  \/ On("chat") /\ TelegramNext /\ UNCHANGED <<part, vars, singleVars, registryVars, uploaderVars, watcherVars>>
  \/ On("registry") /\ RegistryNext /\ UNCHANGED <<part, vars, singleVars, telegramVars, uploaderVars, watcherVars>>
  \/ On("uploader") /\ UploaderNext /\ UNCHANGED <<part, vars, singleVars, telegramVars, registryVars, watcherVars>>
  \/ On("watcher") /\ W!WatcherNext /\ UNCHANGED <<part, vars, singleVars, telegramVars, registryVars, uploaderVars>>

(* The fairness of each module, in its part.  One file, or one worker, never leaves a worker to *)
(* wait for a place that others take before it, so that weak fairness is enough for the workers. *)
MCFairness ==
  /\ WF_vars(On("tasks") /\ Start) /\ WF_vars(On("tasks") /\ HeadLinks)
  /\ WF_vars(On("tasks") /\ FilesEnd) /\ WF_vars(On("tasks") /\ ToolStep)
  /\ \A f \in Files : WF_vars(On("tasks") /\ FileStep(f))
  /\ WF_singleVars(On("single") /\ SingleStep)
  /\ WF_telegramVars(On("chat") /\ Step)
  /\ \A c \in Everyone : WF_registryVars(On("registry") /\ (Lead(c) \/ Join(c)))
  /\ \A n \in Names :
       WF_registryVars(On("registry") /\ (LookAgain(n) \/ NewStorage(n) \/ InitFails(n) \/ Keep(n)))
  /\ \A p \in Submitters : WF_uploaderVars(On("uploader") /\ ~panicked /\ Submit(p))
  /\ \A w \in Uploaders : WF_uploaderVars(On("uploader") /\ ~panicked /\ main # "returned" /\ Work(w))
  /\ WF_watcherVars(On("watcher") /\ W!RunStep)
  /\ \A f \in W!WatchedFiles : WF_watcherVars(On("watcher") /\ W!TimerStep(f))

MCSpec ==
  /\ MCInit
  /\ [][MCNext]_<<part, vars, singleVars, telegramVars, registryVars, uploaderVars, watcherVars>>
  /\ MCFairness

(* Whatever has been begun ends, with the exceptions each module names. *)
FilesReturn ==
  /\ On("tasks") => ExecuteReturns
  /\ On("single") => FileReturns
  /\ On("chat") => BatchReturns
  /\ On("registry") => EveryoneAnswered

(* DirWatcher: every content that is written reaches the uploader, with the two exceptions named there. *)
ChangesSubmitted == W!ChangesSubmitted
=============================================================================
