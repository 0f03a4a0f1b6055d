------------------------------ MODULE DirWatcher -------------------------------
(* The watcher of the watch subcommand, cmd/watch/watcher.go: the event loop of Run, the timers  *)
(* that wait for a file to keep its size, the watches of new directories and the scans.          *)
(*                                                                                               *)
(* Files are in the root or in a directory below it, which may come into being later. A timer's  *)
(* callback runs in a goroutine of its own; as its identity only matters for Stop, timers are    *)
(* counted: the one in the map, which may have fired already, and those the map has lost. The    *)
(* operating system and fsnotify are external: they report the changes of watched directories in *)
(* order. Submit is the uploader's, here the content it was called with.                         *)
EXTENDS Integers, Sequences, FiniteSets

CONSTANTS
  TopFiles,   \* the files in the root
  DeepFiles,  \* the files in the directory
  MaxSize,    \* bound: the sizes of a file
  MaxVersion  \* bound: how often a file is written

WatchedFiles == TopFiles \union DeepFiles
Gone == -1
Sizes == Gone..MaxSize

VARIABLES
  size,       \* per file, its size on the disk, or Gone
  version,    \* per file, how often it was written
  dir,        \* the directory exists
  watches,    \* the watched directories
  events,     \* fsnotify's channel
  run,        \* "scan", "add", "loop", "backfill" or "stopped"
  ctxDone,
  entry,      \* per file, its timer in pending: "none", "armed" or "fired"
  orphans,    \* per file, its armed timers that pending does not hold
  begun,      \* per file, the callbacks that have not looked at the file yet
  looked,     \* per file and size, the callbacks that have seen it
  lastSize,   \* per file, the size last observed, or Gone
  given,      \* per file, the version at the last Submit
  unseen,     \* per file, the version last written where no watch reports it
  robbed      \* per file, the version when a callback that had missed it took its timer
watcherVars == <<size, version, dir, watches, events, run, ctxDone, entry, orphans, begun, looked, lastSize, given, unseen, robbed>>
diskVars == <<size, version, dir, unseen>>
timerVars == <<entry, orphans, begun, looked, lastSize>>

DirOf(f) == IF f \in TopFiles THEN "root" ELSE "sub"
CanExist(f) == f \in DeepFiles => dir

WatcherInit ==
  /\ size = [f \in WatchedFiles |-> Gone] /\ version = [f \in WatchedFiles |-> 0]
  /\ dir \in BOOLEAN /\ watches = {} /\ events = <<>>
  /\ run \in {"scan", "add"}           \* with --initial-scan, and without
  /\ ctxDone = FALSE
  /\ entry = [f \in WatchedFiles |-> "none"] /\ orphans = [f \in WatchedFiles |-> 0]
  /\ begun = [f \in WatchedFiles |-> 0] /\ looked = [f \in WatchedFiles |-> [s \in Sizes |-> 0]]
  /\ lastSize = [f \in WatchedFiles |-> Gone]
  /\ given = [f \in WatchedFiles |-> 0] /\ unseen = [f \in WatchedFiles |-> 0]
  /\ robbed = [f \in WatchedFiles |-> 0]

(* ---- the user's programs ---- *)
Notify(d, kind, f) == events' = IF d \in watches THEN Append(events, <<kind, f>>) ELSE events

WriteFile(f) ==
  /\ CanExist(f) /\ version[f] < MaxVersion
  /\ version' = [version EXCEPT ![f] = @ + 1]
  /\ \E s \in 0..MaxSize : s >= size[f] /\ size' = [size EXCEPT ![f] = s]
  /\ Notify(DirOf(f), "write", f)
  /\ unseen' = IF DirOf(f) \in watches THEN unseen ELSE [unseen EXCEPT ![f] = version'[f]]
  /\ UNCHANGED <<dir, watches, run, ctxDone, timerVars, given, robbed>>

RemoveFile(f) ==
  /\ size[f] # Gone /\ size' = [size EXCEPT ![f] = Gone]
  /\ Notify(DirOf(f), "remove", f)
  /\ UNCHANGED <<version, dir, watches, run, ctxDone, timerVars, given, unseen, robbed>>

MakeDir ==
  /\ ~dir /\ dir' = TRUE
  /\ Notify("root", "mkdir", "sub")
  /\ UNCHANGED <<size, version, watches, run, ctxDone, timerVars, given, unseen, robbed>>

Interrupt ==
  /\ ~ctxDone /\ ctxDone' = TRUE
  /\ UNCHANGED <<diskVars, watches, events, run, timerVars, given, robbed>>

(* ---- scanExisting and addDir ---- *)
\* Every file there is submitted as it is; it is no longer unseen.
Scan(files) ==
  LET there == {f \in files : size[f] # Gone} IN
  /\ given' = [f \in WatchedFiles |-> IF f \in there THEN version[f] ELSE given[f]]
  /\ unseen' = [f \in WatchedFiles |-> IF f \in there THEN 0 ELSE unseen[f]]

InitialScan ==
  /\ run = "scan" /\ run' = "add"
  /\ Scan(WatchedFiles)
  /\ UNCHANGED <<size, version, dir, watches, events, ctxDone, timerVars, robbed>>

\* Run: the root and the directories in it.
AddRoot ==
  /\ run = "add" /\ run' = "loop"
  /\ watches' = {"root"} \union (IF dir THEN {"sub"} ELSE {})
  /\ UNCHANGED <<diskVars, events, ctxDone, timerVars, given, robbed>>

\* handleEvent for a new directory: it is watched first and scanned then.
AddNewDir ==
  /\ run = "loop" /\ events # <<>> /\ Head(events)[1] = "mkdir"
  /\ events' = Tail(events) /\ watches' = watches \union {"sub"} /\ run' = "backfill"
  /\ UNCHANGED <<diskVars, ctxDone, timerVars, given, robbed>>

Backfill ==
  /\ run = "backfill" /\ run' = "loop"
  /\ IF ctxDone THEN UNCHANGED <<given, unseen>> ELSE Scan(DeepFiles)
  /\ UNCHANGED <<size, version, dir, watches, events, ctxDone, timerVars, robbed>>

(* ---- the other events ---- *)
\* cancelPending: Stop has no effect on a timer that has fired.
Forget(f) ==
  /\ entry' = [entry EXCEPT ![f] = "none"] /\ lastSize' = [lastSize EXCEPT ![f] = Gone]
  /\ UNCHANGED orphans

\* scheduleUpload
HandleWrite ==
  /\ run = "loop" /\ events # <<>> /\ Head(events)[1] = "write"
  /\ events' = Tail(events)
  /\ LET f == Head(events)[2] IN
       entry' = IF size[f] = Gone THEN entry ELSE [entry EXCEPT ![f] = "armed"]
  /\ UNCHANGED <<diskVars, watches, run, ctxDone, orphans, begun, looked, lastSize, given, robbed>>

HandleRemove ==
  /\ run = "loop" /\ events # <<>> /\ Head(events)[1] = "remove"
  /\ events' = Tail(events) /\ Forget(Head(events)[2])
  /\ UNCHANGED <<diskVars, watches, run, ctxDone, begun, looked, given, robbed>>

\* The loop ends and cleanup stops the timers of the map.
StopWatching ==
  /\ run = "loop" /\ ctxDone /\ run' = "stopped"
  /\ entry' = [f \in WatchedFiles |-> "none"] /\ lastSize' = [f \in WatchedFiles |-> Gone]
  /\ watches' = {} /\ events' = <<>>
  /\ UNCHANGED <<diskVars, ctxDone, orphans, begun, looked, given, robbed>>

(* ---- the timers: maybeUpload ---- *)
TimerFires(f) ==
  /\ \/ entry[f] = "armed" /\ entry' = [entry EXCEPT ![f] = "fired"] /\ UNCHANGED orphans
     \/ orphans[f] > 0 /\ orphans' = [orphans EXCEPT ![f] = @ - 1] /\ UNCHANGED entry
  /\ begun' = [begun EXCEPT ![f] = IF ctxDone THEN @ ELSE @ + 1]
  /\ UNCHANGED <<diskVars, watches, events, run, ctxDone, looked, lastSize, given, robbed>>

Look(f) ==
  /\ begun[f] > 0 /\ begun' = [begun EXCEPT ![f] = @ - 1]
  /\ looked' = [looked EXCEPT ![f][size[f]] = @ + 1]
  /\ UNCHANGED <<diskVars, watches, events, run, ctxDone, entry, orphans, lastSize, given, robbed>>

TakeLooked(f, s) == looked[f][s] > 0 /\ looked' = [looked EXCEPT ![f][s] = @ - 1]

FileGone(f) ==
  /\ TakeLooked(f, Gone) /\ Forget(f)
  /\ robbed' = [robbed EXCEPT ![f] = IF entry[f] = "armed" THEN version[f] ELSE @]
  /\ UNCHANGED <<diskVars, watches, events, run, ctxDone, begun, given>>

WaitNoMore(f, s) ==
  /\ s # Gone /\ TakeLooked(f, s) /\ lastSize[f] # s
  /\ lastSize' = [lastSize EXCEPT ![f] = s]
  /\ UNCHANGED <<diskVars, watches, events, run, ctxDone, entry, orphans, begun, given, robbed>>

\* The size has changed: another window. A timer armed meanwhile is overwritten but not stopped.
WaitOn(f, s) ==
  /\ s # Gone /\ TakeLooked(f, s) /\ lastSize[f] # s
  /\ lastSize' = [lastSize EXCEPT ![f] = s]
  /\ orphans' = [orphans EXCEPT ![f] = IF entry[f] = "armed" THEN @ + 1 ELSE @]
  /\ entry' = [entry EXCEPT ![f] = "armed"]
  /\ UNCHANGED <<diskVars, watches, events, run, ctxDone, begun, given, robbed>>

\* The size is stable: the entry goes, whichever timer it held, and the file is submitted.
StableUpload(f, s) ==
  /\ s # Gone /\ TakeLooked(f, s) /\ lastSize[f] = s
  /\ lastSize' = [lastSize EXCEPT ![f] = Gone]
  /\ orphans' = [orphans EXCEPT ![f] = IF entry[f] = "armed" THEN @ + 1 ELSE @]
  /\ entry' = [entry EXCEPT ![f] = "none"]
  /\ given' = [given EXCEPT ![f] = version[f]]
  /\ UNCHANGED <<diskVars, watches, events, run, ctxDone, begun, robbed>>

UserStep == MakeDir \/ Interrupt \/ \E f \in WatchedFiles : WriteFile(f) \/ RemoveFile(f)
RunStep == InitialScan \/ AddRoot \/ AddNewDir \/ Backfill \/ HandleWrite \/ HandleRemove \/ StopWatching
TimerStep(f) ==
  TimerFires(f) \/ Look(f) \/ FileGone(f) \/ \E s \in 0..MaxSize : WaitOn(f, s) \/ StableUpload(f, s)

WatcherNext == UserStep \/ RunStep \/ \E f \in WatchedFiles : TimerStep(f)

\* The loop and the timers run; nothing is assumed of the programs that write.
WatcherFairness == WF_watcherVars(RunStep) /\ \A f \in WatchedFiles : WF_watcherVars(TimerStep(f))

WatcherSpec == WatcherInit /\ [][WatcherNext]_watcherVars /\ WatcherFairness

-----------------------------------------------------------------------------
(* Whatever the order of events and timers, every content written where it is watched or         *)
(* scanned is handed to the uploader by a Submit that comes after it, unless the file goes or    *)
(* the user interrupts: overlapping callbacks overwrite each other's map entries, but lose no    *)
(* change. Two are lost: one written after the initial scan has passed and before Run watches    *)
(* the directory (cmd.go:129-136), and one written to a file made anew, when a callback that saw *)
(* it gone stops the timer of its new event (watcher.go:158-162).                                *)
ChangesSubmitted ==
  \A f \in WatchedFiles : \A v \in 1..MaxVersion :
    (version[f] >= v) ~> \/ given[f] >= v \/ size[f] = Gone \/ ctxDone
                         \/ unseen[f] >= v \/ robbed[f] >= v
=============================================================================
