# SaveAny-Bot: a TLA+ verification project

SaveAny-Bot is a Telegram bot, with an HTTP API and a command line beside it, that saves files from
Telegram and from the web to storages: a local directory, WebDAV, AList, S3, rclone, another
Telegram chat. This directory holds TLA+ models of its concurrent parts, TLC configurations that
check them on small instances, and proofs checked by TLAPS.

Contents: [1 the system](#1-the-system), [2 the modules](#2-the-modules), [3 the runs](#3-the-runs),
[4 fairness](#4-fairness), [5 what is proved](#5-what-is-proved),
[6 where code and documents part](#6-where-code-and-documents-part),
[7 what is not modelled](#7-what-is-not-modelled), [8 plan](#8-plan).

## 1 The system

`cmd/run.go` reads the configuration, opens the database, loads the storages, logs the optional
user client in, starts the HTTP API and the bot, and starts the workers. From then on everything
happens in goroutines: one for each update of Telegram, one for each HTTP request, the timers' own,
`workers` task workers, and for each running task the goroutines of its downloads and uploads.

| Part | State it keeps | Operations | Talks to | Hard behaviour | What makes it correct |
|---|---|---|---|---|---|
| Task queue, `pkg/queue` | list of tasks, two maps by identifier, condition variable | `Add`, `Get`, `Done`, `CancelTask`, `Close` | workers, requests | condition variable, cancelling outside the lock, identifiers used again | list and maps agree, one task for an identifier, no lost wake-up, a cancelled task never starts |
| Runner, `core` | semaphore, one loop for each worker | `AddTask`, `CancelTask`, `worker` | queue, hooks, events | cancelled tasks that end in another way, events out of order | every task is served, every record settles |
| Progress records, `api/progress.go`, `api/webhook.go` | a record for each task | `RegisterTask`, `Emit`, `DeleteTask`, clean-up | runner, HTTP requests | record read after unlocking, late events, DELETE against completion | a webhook is fired once, with a status the task earned |
| Batch task, `core/tasks/batchtfile` | item phases, byte counters, errgroups, pipes | `Execute`, callbacks of the storage | downloader, storages, progress message | late callbacks, errors passed over, cancellation, a pipe nobody reads | what is reported agrees with what is stored; `Execute` returns |
| Other tasks, `core/tasks/*` | counters, the progress message | `Execute` | HTTP, yt-dlp, aria2, storages | copying goroutine that outlives the task, polling, retries | as above |
| Progress messages, `tgutil/progress_edit.go` | a queue of one edit and the final one | `Submit` | Telegram | an old edit overtaking the final one | the final edit is the last |
| Album collection, `handlers/media_group.go` | a group of files and a timer for each album | file arrives, timer fires | shortcuts, queue | a timer stopped too late | each file is handled once, no group is left without a timer |
| Watched chats, `client/user/watch.go`, `handlers/watch.go` | events and timers by message, a channel, albums by chat and user | message arrives, listener, album callback, `/watch` | user client, database, queue | deliveries repeated around an expiry, one file object for all users | a message is saved once for each user who wants it |
| Save shortcuts, `handlers/utils/shortcut`, `ruleutil`, `conflictutil` | none of their own | build paths, apply rules and conflict strategies | database, storages, queue | check of existence long before the save | a file is skipped, renamed or overwritten as its user chose |
| Directory watcher, `cmd/watch` | sizes and timers by file, jobs channel, map of files in flight | file events, scan, `Submit`, workers, `Close` | storages | files changed while uploading, shutdown | the last content of a stable file is uploaded |
| Bot relay, `handlers/bot_relay.go`, `api/bot_relay.go` | target, cursor, history in the database | scan, link, PUT, DELETE | user client, another bot | serial conversation with a bot that answers late | every message is relayed once, the cursor never passes one that was not |
| User login, `api/userbot_auth.go`, `client/user` | one attempt with its state and channels | start, code, password, cancel, logout | Telegram | a cancelled attempt that answers | one attempt is current, and only it changes the state |
| Configuration, `config`, `api/config.go` | the file, the live settings | load, save with redacted secrets, product settings | file system | lost update, crash while renaming, secrets addressed by position | an edit changes what was edited |
| Database, `database` | users, watches, rules, folders, relays (SQLite) | CRUD, `syncUsers` | handlers | snapshot saved back over newer rows | a deleted row stays deleted |
| Storages, `storage/*` | clients, tokens, caches | `Save`, `Exists`, `ListFiles`, albums | the services | names chosen by check and then create, partial files, token refresh, albums retried as a whole | a file that is reported saved is there, whole, and replaced no other |
| Storage registry, `storage/load.go` | storages by name, by user | `GetStorageByName`, `LoadStorages` | everything that saves | concurrent first use | one instance for each name |
| Creation of tasks, `api/factory.go`, `api/tgfiles.go` | none of its own | `CreateTask` by type | clients, aria2, queue, records | clients that come and go between two reads, an album that cannot be read | a task exists exactly when the request was answered with one |
| Parsers, `parsers`, `plugins` | none between calls | `Parse` | web sites | none | outside this project |
| Downloader, `common/tdler` | clients by data centre | `Parallel`, `Stream` | Telegram | engine closed under a download | every byte once |
| Log files, `common/logfile` | current file | write, rotate, read the tail | API | rotation, reading backwards in blocks | the tail is the last lines |
| Cache, `common/cache` | entries with a lifetime | `Set`, `Get` | handlers | an entry that is rejected or gone | a click on an expired entry is refused |
| Bot handlers | what the buttons carry, in the cache | commands and callbacks | all of the above | two clicks on one button | one task for one choice |

PROJECT.json lists these parts with their files and how far each is modelled, and under "hazards"
the lines where something can go wrong that a test would hardly reach.

## 2 The modules

```
TaskPool  <-- implemented by --  TaskQueue  <-- INSTANCE --  TaskRunner      MCTasks, MCApi
                                 TaskQueueProofs
TaskRunner, UserLogin, ApiTask, ConfigFile  -- ApiProofs                     MCApi
GroupCollector  <-- EXTENDS --  MediaGroup  -- TelegramProofs                MCTelegram
       ^--- INSTANCE ---------  ChatWatch   -- TelegramProofs    UserLogin   MCTelegram
DirWatcher  --Submit-->  DirUploader  -- DirUploaderProofs                   MCFiles
BatchTask  -- BatchTaskProofs                BatchMessage                    MCBatch, MCSaving
FileTasks, SingleFile, TelegramSave, StorageRegistry  -- FilesProofs         MCFiles
SaveFlow, UserSettings, StorageSave, AlistSave, BatchMessage  -- SavingProofs  MCSaving
RelayScan, RelayTalk  -- RelayProofs                                         MCBotRelay
```

The MC modules on the right give the constants values, and bring the modules of one area into one run.
Their variable `part`, which Init chooses and no step changes, says which of the modules runs; the
others stay in one of their initial states. So one run holds several state graphs side by side, each
no larger than in a run of its own, and fairness is stated for each action in its part
(`WF_v(On("part") /\ A)`). Modules that share variables in the code are composed by INSTANCE instead:
TaskRunner runs TaskQueue, ChatWatch and MediaGroup run GroupCollector.
A proof module and the MC module of its area extend the same components, so that the names of actions and
variables are apart within an area, and a theorem is about the very definition that the run checks.

**TaskQueue** (`pkg/queue/queue.go`). One action for each method: all but `CancelTask` hold the mutex
throughout, so each is one step; `Get` gives the mutex up in `cond.Wait`, and `getter` says which
workers sleep, which are signalled and which have left. `CancelTask` is two steps, `CancelFind`
under the lock and `CancelApply` after it. `Get` drops the cancelled tasks it passes; `Release`
models which index entries go with them. **TaskPool** says what callers rely on: accepted tasks
start in order, each identifier has one owner, a task cancelled while waiting never starts.
`TaskQueue!ImplementsPool` is the refinement, with the waiting tasks read off the list and the
running ones off the workers.

**TaskRunner** (`core/core.go`, `pkg/taskevent`, `api/progress.go`, `api/factory.go`,
`api/handlers.go`, `cmd/run.go`). Instantiates TaskQueue on its own variables. `wpc` is where each
worker is in its loop (token, `Get`, start event, `Execute`, done event, `Done`, token back);
`creation` where the creator of a task is (register the record, add, queued event, or delete the
record when the queue refuses); `kpc` where a cancel request is. `rec` is the store of records and
`sent` the payloads of webhooks. `Emit` takes the store's lock twice; the two critical sections are
one step, because what happens between them is the decision they make. `Notify` is a separate step:
it builds the payload after unlocking. `straggler` is the goroutine of `directlinks` that copies a
response body and may emit after the terminal event.

**BatchTask** (`core/tasks/batchtfile`). One `Execute`, from the execution plan (`Stretch`: files of
one album go together, the others file by file) to the final report. `epc` is where each file's
goroutine is; `saver` and `sender` are the two goroutines of a streamed file and `pipeErr` the
error their errgroup keeps. `phase` and `uploaded` are the item's fields, changed only by operators
named after the methods of `item_progress.go`. `AfterStretch` is what `Execute` does between
stretches: pass over the error or stop, finish the items, report. `LateRead` is the callback of a
read that the transport began before `Save` failed. Progress is counted in `Size` steps. Creating,
writing and inspecting a cache file fail as its download does.

**FileTasks** (`core/tasks/directlinks`, `parsed`, `telegraph`, `transfer`, `aria2dl`, `ytdlp`). One
`Execute` of the kind that `kind` names. `exec` is where it is: the HEAD requests of links, the files,
the tool at work (`Poll` and `StatusFails` are the ticks of aria2's wait loop, `WaitCanceled` its
`ctx.Done`), the transfer of the tool's files. `fpc` is where each file's goroutine is, between `Go`
(the errgroup's limit, and the refusal of a link that is being processed already) and `FileEnds`
(first error of the errgroup, or a failure that a transfer records). Links and parsed resources are
copied to a cache file by a goroutine that the attempt may abandon (`Abandon`, `late`); it may still
edit the progress message (`CopyProgress`). `remote` is what aria2 has: a metadata download and the
one that follows it, `gid` the one that is looked at; `local` and `stored` are the files on the tool's
disk and in the storage. `Verdict` is the error a file ends with after its attempts.

**GroupCollector** (`handlers/media_group.go`, and again in `handlers/watch.go`). Files that arrive
for a key wait in a group; each restarts the timer. `Timer.Stop` does not wait for a callback that
has fired, so a timer is unused, armed, stopped, fired or done. **MediaGroup** adds what happens to
the files that the callback took (`SaveSilently`, `AskForStorage`, `GiveUp`) and in which folder the
shortcuts put them. **ChatWatch** is the whole path of a watched message: debounce (`Restart`,
`TakeEvent`, `SendEvent`), the channel, the listener that goes through the users (`HandleUser`), the
album collector, and `/watch` and `/unwatch` reduced to who watches (`ToggleWatch`; the rows behind it
are UserSettings').

**DirUploader** (`cmd/watch/uploader.go`). `Submit` is its critical section and then its select;
`inflight` is the map, absent, clean or dirty; workers take a job, try up to `Retries` times (a file may
fail to open, `OpenFails`, or to be saved, `StoreFails`), and requeue the file when it was submitted again.
The content of a file is a number, so that what was uploaded can be compared with what was submitted.

**RelayScan** (`handlers/bot_relay.go`, `api/bot_relay.go`, `database/bot_relay.go`). `row` is the
route in the database, `scan.snap` the copy of it that a scan works on, `put` what each PUT has read
before it asks Telegram for source and target. `Fetch` is one page; `Baseline` the first cursor;
`NextMessage`, `ProcessPayload`, `Record` and `Advance` go through the messages found, oldest first.
`RouteUnchanged` is the WHERE of the scan's two updates. POST, PUT and DELETE may come between any two
steps. **RelayTalk** (same file) is the conversation with a target bot: `Begin` sets whom the
handler listens to, `HandleUpdate` and `PutResponse` are a handler's goroutine before and at the channel,
`TakeResponse` the loop that collects files until `TimeOver`. Bots may answer at any time, also a
request that is over, and the channel keeps what nobody has taken. How a conversation ends is all
that RelayScan needs of it, a link relayed or not, so the two have no variable in common.

**ApiTask** (`api/handlers.go`, `api/factory.go`, `api/tgfiles.go`). A request from `CreateTask` to its
answer. `ReadLink` reads the message behind a link with the bot or, failing that, the user account,
`ReadAlbum` the rest of an album with the client that read the message: what this client sees (`Sees`), with or without
what has been deleted, which its cache may still have (`Readings`), and of that what makes a file (`Files`); `AddURI` puts the download into
aria2 before there is a task; `RegisterTask`, `Enqueue` and `Unregister` are record and queue. `World`
is what happens meanwhile: clients log in and out, messages are deleted, storages appear, the queue closes.

**ConfigFile** (`config/file.go`, `config/product.go`). A text is a sequence of lines, a line the header
of a table or of an array of tables or a key with its value. `PutBack` gives placeholders their secrets
by their number in the text; `Patch` is the form's edit, replacements and insertions at offsets of the
text that was read (`TableEnd` is where a table ends): every line of the patched text has a spot, which is the line
it is or follows, the turn of its table and its key, and the stable sort puts the lines in the order of their
spots (`Before`); writing goes by temporary file and rename, or in
place where the file is a mount, and may fail or crash between any two steps.

**UserLogin** (`api/userbot_auth.go`, `client/user/userclient.go`). `attempt` and `status` are the
manager's; `lib` and `question` where the login library is in each attempt, also in one that was
cancelled; `chan` the channels with answers; `Update` changes the status only for the current attempt.
The login at start and the published client (`client`, `startup`), and DELETE with its logout and
restart, complete it.

**DirWatcher** (`cmd/watch/watcher.go`). The event loop of `Run`, the scans, and the timers that wait
for a file to keep its size. `entry` is a file's timer in the map, `orphans` the armed timers the map
has lost, `begun` and `looked` callbacks on their way: `WaitOn` is what a callback does when the size
has changed. Its `Submit` is where DirUploader begins.

**SingleFile** (`core/tasks/tfile`). One `Execute`, cached (`Create`, `WriteAt`, attempts of
`Save` from `Try` to `Uploaded` or `UploadFails`, or one whose cache file cannot be opened, `ReopenFails`) or streamed (`Fetch`, `PipeChunk`, `StreamSaved`),
with a lingering read of a failed one (`LateRead`), the pipe (`PipeEOF`), the deferred report, and the
progress message `note`, edited in the callbacks themselves.

**BatchMessage** (`core/tasks/batchtfile/progress.go`, `common/utils/tgutil/progress_edit.go`). What the
message of a batch shows: `ProgressText` is rendered under a lock and given to the queue of edits, a slot
of one (`slot`) with a runner that performs them; `SubmitReplaces`, `SubmitMeetsFinal` and `PutBack` are
the cases of `Submit` when the slot is full. A text shows its lines by item, so that an item has one at
most; the order of the lines is left out.

**TelegramSave** (`storage/telegram`). A batch sent to a chat: all items are looked at first (`Inspect`), and neighbours of one group are an album. The code plans
all groups first; as each depends only on the item it begins with, the module keeps the group at work
(`from`, `to`) and finds the end of the next one when it is reached (`EndsGroup`).
`Upload` prepares an item, `Send` sends an album, again from its start after a failure
(`AttemptFailed`); files over the limit are skipped, cut as videos or packed into ZIP parts. A send may
have arrived although its answer is lost.

**StorageRegistry** (`storage/load.go`). `Ask`, the flight of singleflight (`Lead`, `Join`, `LookAgain`,
`NewStorage`, `Keep`, `Land`), and the lists that LoadStorages makes.

**SaveFlow** (`handlers/add_task.go`, `save.go`, `media.go`, `transfer.go`, `middleware.go`,
`utils/shortcut/tftask.go`, `ruleutil`, `conflictutil`). From a message to a task: buttons and the
cache behind them (`cache`, `shown`), directories, prompts about names that are taken, silent mode, and
the places that rules give to files (`Plan`). A handler looks up what exists and makes the task (`MakeTask`),
or fails (`MakeFails`); then it adds it, or is refused (`AddTask`, `AddFails`). `trail` is a record of the choices that led to a button,
which the code does not have: properties compare a task with it.

**UserSettings** (`database`, `handlers/config.go`, `dir.go`, `rule.go`, `silent.go`, `watch.go`). A
handler reads the user with all rows (`Read`), changes a field (`Decide`) and saves everything
(`UpdateUser`); rules are switched in one column (`SwitchRules`).

**StorageSave** (`storage/local`, `s3`, `minio`, `webdav`, `rclone`, `fsutil/unique.go`). Two saves of one
name: probe, numbered names (`NextName`), the directory, the file, chunk by chunk where it is local; a
caller tries again after a failure. **AlistSave** (`storage/alist`) adds the token that saves share:
the request that is turned away and repeated (`Put`, `PutAgain`), the merged login (`Join`, `FlightLooks`, `Login`) with its window.

## 3 The runs

Every bound is a constant of a .cfg or an MC module. `CHECK_DEADLOCK FALSE` stands everywhere,
because every part may come to rest: no more tasks, files, messages.

| Run | Parts and instance | Question | Why the bound is enough |
|---|---|---|---|
| tasks | the queue with 3 tasks of which 2 share an identifier, 2 workers, 2 callers; the runner with a task of the API with a webhook, one of the bot that copies, a worker and a cancelling request | Do list and maps agree, is every wake-up served, is TaskPool implemented, does the runner give the queue its fairness, does everything settle after `Close`? | Two tasks of one identifier and another make a `Done` or a `Get` meet a foreign entry; two workers make a lost signal visible |
| api | the runner as above with 2 workers and 2 callers, of which the bot's button acts only while one worker at most is in its loop (`Bounded`); 8 requests of which 2 arrive, two with the links of albums, of which a client sees all or a part, a message has no file and one may be deleted; a configuration of up to five lines with one editor, an edit and two saves; 2 login attempts with a wrong answer each | Do records, webhooks and answers tell what happened, does saving the configuration keep what it should, does the dashboard show the current attempt? | Late and cancelled attempts need a second one; two secrets can be swapped; a table at the end of the file and one that is missing are the offsets that meet |
| telegram | an album of 3 and a lone file; an album of 2 and a message delivered twice in a watched chat, channel of 1; a login | Is each file handled once, no group stranded, does the window count from the newest file; is a message received once and when does the zero event arise; does an answer lead on? | Three files make one arrive before, during and after a callback; the second delivery is what can fall between an expiry and its callback; a channel of 1 fills |
| batch | an album of 2, a cached and a streamed file, 2 workers, 2 attempts; 3 submitters to the queue of edits | Does the report agree with the storage, are verdicts final, does Execute return, is the final edit performed? | One file of each way through Execute; a final edit must meet a waiting one and one being put back |
| files | six kinds of task with 3 files of which 2 are one link; a Telegram file of 2 chunks with 2 attempts; batches of 2 or 3 items to a chat; 2 names, 3 callers and LoadStorages; the uploader of a watched directory with 1 file that changes, a timer and the main goroutine, 2 workers, 2 attempts; its watcher with a file of sizes 0 and 1, written 3 times, in a directory made later | Is what a task says of its end so, does aria2's disk keep what is not saved, is done whole, is the chat in order, is there one instance, does everything return; has a watched file one owner, is what was submitted last uploaded, is every content submitted? | Two equal links run together or one after the other; the third is what their failure cancels; an attempt meets a late read of the one before; albums of 2 split 3 items; what watched files share is the channel, which uploader_stall fills; three writes leave two timers and a callback overlapping |
| bot_relay | a route over two sources with a message of one link and one of two, pages of one message, a history of one, two rows, two PUTs; conversations with two bots over a channel of two | Does the cursor pass only what was relayed, has a row the state of its own route, how long does a changed route go on, are the files of a task the asked bot's? | A cursor that skips needs two messages; pages of one make every later scan page back; a second PUT is what one PUT can miss; a channel of two holds one answer of each bot |
| saving | a message of each kind with rules, 4 settings, at most 2 handlers at work (`Bounded`), 2 changes around a single file and 1 around the others; 9 commands in 2 handlers over 2 rows; two saves of a name in 5 kinds of storage; two saves and a ticker over a token that lapses twice; a batch of 2 items | Does a task do what its buttons said and account for every file, hold the bot's answers, is a saved file whole and what was there kept, are logins merged, does a message leave nothing out? | Two presses make one overtake the other; a save from a snapshot needs one other save; two savers take one free name |

The other runs (uploader_stall, cancel_honoured, aria2_left, path_is_directory, webhook_status) each exhibit a place
where the code does not do what a document or comment says; see section 6.

The type invariants of the modules with proofs are in no .cfg: they are proved (TaskQueueProofs,
FilesProofs, DirUploaderProofs, RelayProofs) or part of a proved invariant (TelegramProofs,
BatchTaskProofs, ApiProofs, SavingProofs). Symmetry is used for the workers of
api and for the routes and PUTs of bot_relay, whose properties are all invariants. With one file the
channel of the uploader is never full; the real one holds 64 jobs for each worker.

Every property of a passing run has a mutant: an operator of the module with a plausible bug (a
dropped guard, a missing stop, a swapped order), which the specification does not use and whose
name says what it does wrong; with it in place of the real one TLC finds the property violated.

What the properties say, by module (several are conjunctions of named parts):

- *TaskQueue* `QueueInv`: the list, the maps and the workers agree (`IndexInv`) and a queued task has a
  worker awake or signalled (`NoLostWakeup`); `IdentifiersReturn`: whatever becomes of the task that holds an
  identifier, run, cancelled in the list or cancelled while it is taken, the identifier comes free in the end; `ImplementsPool`, which carries
  TaskPool's fairness: waiting tasks start. *TaskRunner* `RecordsInv`: webhooks are earned and tell how the
  task ended, or what a cancel request or a goroutine left over wrote since (`WebhookEarned`), a live task has a record that is not missing, a refused one has none, "running" means
  that a worker executes it; `TasksSettle`; in MCTasks `ServesQueue`.
- *ApiTask* `AnswerTells`: created means record and queue, an error means neither, and of an album comes, in
  order and from one client, what this client sees, was not deleted and makes a file, without further gaps; or the message alone. *ConfigFile* `ConfigInv`: secrets stay
  with their entries unless the page was stale (`SecretsStay`), the file is torn only where it cannot be
  renamed; `PatchKeepsRest`: what a save of the form writes has its keys with their new values and every other key
  as it was. *UserLogin* `LoginInv`: the status
  is the current attempt's, a restart follows a logout that worked; `AnswerLeadsOn`.
- *MediaGroup* `AlbumInv`: nothing lost, nothing stranded; `CountsFromNewest`; `EveryFileSettles`.
  *ChatWatch* `WatchInv`: received once, and the zero event, on which the listener panics, needs a message
  delivered again between the expiry of its timer and the callback; `MessageReceived`.
- *DirWatcher* `ChangesSubmitted`: a content that is written is followed by a Submit, with two exceptions it
  names. *DirUploader* `OneOwnerInFlight`, `LastContentStored`, `AcceptedUploads`.
- *BatchTask* `CompletedStored`; `ReportInv`: the chat is told that all is done only when all is stored, or
  a late read hid a failure, and stopped items mean a cancelled task; `VerdictFinal`; `TaskReturns`.
  *BatchMessage* `MessageInv`: the newest text is never replaced by an older one, and a text counts every
  item once; `FinalPerformed`.
- *FileTasks* `EndInv`: success means stored, the message tells the outcome, the failure of one file, which
  cancels the requests of the others, is not shown as a cancellation; `LocalKept`. *SingleFile* `FileInv`;
  *TelegramSave* `ChatInv`: the chat has the files in order, one twice only after a lost answer, and groups
  are as large as the plan allows; *StorageRegistry* `OneInstance`; `FilesReturn` for all four.
- *RelayScan* `NothingSkipped`: every message between the place where a route's scans began and its
  cursor was relayed; `RouteInv`: cursor and history of a row are of its own route, and a scan begins at most
  one more message for a route that was changed under it. *RelayTalk* `AnswersBelong`.
- *SaveFlow* `ChoicesKept`, `FilesAccounted`; *UserSettings* `SettingsInv`; *StorageSave* `SaveInv`: what was
  there before stays unless someone was to overwrite it or two saves took one name, and a saved file is
  whole; *AlistSave* `TokenInv`: one login within the window, and a save turned away only when its new token
  lapsed too.

## 4 Fairness

- Goroutines that can take a step take one (weak fairness for each). Workers of DirUploader compete
  for the channel and have strong fairness, as Go's channels serve their waiters in order; with one file, or one worker, weak fairness is as good, and files assumes no more.
- `Execute` returns (TaskRunner): an assumption, which BatchTask examines. There a download, a `Save`
  and a wait end; nothing is assumed of a write into a pipe that nobody reads, of the user's
  cancellation, or of progress reports.
- UserLogin: the login library goes on when it can, and an attempt's ten-minute context ends; nobody need
  answer a question. ChatWatch, DirWatcher, SingleFile, TelegramSave, StorageRegistry: their goroutines go on,
  and what they call returns; lost answers, changes of files and logouts need not happen.
- BatchMessage: the runner of the queue goes on, and an edit returns, however long a flood wait takes.
- In FileTasks requests, copies, `Save`s and the yt-dlp command end; aria2 need not make progress, and a
  copying goroutine that was left behind need not end.
- A streamed download goes back and forth between fetching and writing a finite number of times:
  strong fairness of its end.
- Timers that are armed expire. Deliveries, commands, changes of files, cancellations and interrupts
  are not fair: they may never come.
- The queue's fairness in TaskQueue (a worker that took a task calls `Done`) is not assumed in
  TaskRunner but checked of the two (`ServesQueue` in MCTasks).

## 5 What is proved

Assumptions are the named ASSUMEs of the modules: the constants have their types, workers are
finitely many, the absent value is none of the others.

*TaskQueueProofs.* `TypeCorrect`, then `IndexCorrect`: `IndexInv` is inductive together with
`TypeOK`. Its five conjuncts are each needed: `Get` removes a whole prefix of the list and the index
entries of the cancelled tasks in it, and only knowing that the list has no duplicates, that every
listed and every held task has its entry, and that entries are of live tasks shows that no entry of
another task goes with them. From it follow `UniqueOwner`, `CancelFindsOwner`, `ListedExactlyOnce`. `WakeupsSuffice` counts signalled workers against the
length of the list with the cardinality lemmas; with `IndexCorrect` it gives `QueueCorrect`, the property the
run checks. `ImplementsPoolSafety` maps each action to a step of
TaskPool or a stutter.

*TelegramProofs.* Of MediaGroup: `IInv` adds to `NothingLost` that groups hold only files of their key (`OwnFiles`),
that the timer of a waiting group's newest file is armed or has fired (`Awaited`), that in a window no late timer
disturbed only that timer is armed or has fired (`Lone`), and `CountsFromNewest` itself. From it `FilesHandedOnce`, `GroupsAwaited`,
`NewestFileCounts`, and `AlbumsComplete` of the first two. The lemmas about AddFile, Expire and TakeGroup are about GroupCollector alone.
Of ChatWatch, `WatchedOnce`: `WatchInv`, for any messages, any number of deliveries of each and any channel. An event is in
the map, with a callback, in the channel or received; that it is in one of these places, once, is `InOnePlace`.
The other half of the property, that an empty event needs a timer which was stopped too late, needs to know
which timers may run at all: `TimersKeepEvents` says that a remembered timer comes with an event, and
that where no stop came late the remembered timer is the only one armed or fired; then a callback that finds its
event gone is of a message that was disturbed, and so is every empty event in the channel (`QueuedEmptyLate`).
`WatchUsesCollector`: what the listener and its album callbacks do to their groups are steps of GroupCollector. It
rests on the same invariant, since the listener adds a file for a user only while it has one.

*BatchTaskProofs.* `CompletedIsStored`. A streamed file is completed by a step that sees only the first
error of its errgroup, so the invariant adds `SaverTells`: a `Save` that returned without error has
stored the file and one that failed has left an error. `ReportTellsTruth` and `VerdictsStay` need to know
how far `Execute` has come: `Walk` says that the files before the present stretch of the order have
ended, those after it have not begun and those in it are being worked on as its kind allows, and
`Accounted` that a file which ended is stored, or a late read of it was reported, or something tells that
it is not stored: its phase, the error of the errgroup, the task's result. A step is one of three kinds, with a lemma for each: it moves one file
(`OneFileMoves`), ends a stretch (`StretchEnds`), or touches neither. That stretches are intervals and
that no file comes twice in the order is proved first, from the assumptions on the constants.

*FilesProofs.* Of FileTasks, `SuccessStores`, `MessageTellsResult`, `OnlyCancelledCanceled`, `Aria2FilesKept`
from one invariant; `EndToldTruly` joins the first three. `LateDoomed` is its heart: a copying goroutine is left
behind only under a context that is done, its file then ends with an error whatever its attempts come to, and
so no task that succeeds has a goroutine left that could edit the message. `EndedAccounted` says the like of
every file's goroutine: it ended with its file stored, or recorded as failed, or the errgroup has an error.
The lemmas `Moving`, `Ending`, `Finishing` and `ToolMoving` say what a kind of step keeps; each action is
one of them. Of SingleFile, `FileIsWhole`: what the storage has read is counted against what the download wrote
(`ChunksCounted`), through the cache file or the pipe, and a goroutine that failed left its error in the
errgroup (`ErrorsKept`), so that a success is the success of both; `Phases` says which of them can be at work
together. The number of chunks is any natural number. Of StorageRegistry, `OneInstanceEach`: an entry of the map,
once made, is never replaced (`MapGrows`), so that what the leader of a flight, those who joined it, and the
lists of `LoadStorages` have is the map's own instance, if it is one (`InstanceInv`). Of TelegramSave, `ChatOrdered`,
from `BatchInv`: the items before the group at work are in the chat whole or were skipped, and none after it is
there (`ChatKept`); what the group has sent and has yet to send are together all of it, each piece once and in one
form (`PiecesComplete`); an attempt that has sent nothing finds of its group only what a failed attempt left
(`Fresh`), and one that has sent an album still to send what it has not sent, in the same form (`Onward`). So a
piece comes into the chat again only for an item noted in `resent`. That an album and the rest are together
the pieces, and apart, is a lemma on sequences (`AlbumAndRest`). Batches are any sequences of items that are not
empty; albums, parts and attempts are any in number.

*DirUploaderProofs.* `UploaderTypes`, `OneOwner`, `LastSubmittedIsStored`. Counting owners is no form to
reason in, so `OInv` says with quantifiers that two owners of one file are the same and that a file is
absent from the map exactly when it has none; the counts are derived at the end. `CleanIsCurrent` says
that a worker with a clean file has read no older content than the one last submitted, which is what
makes the worker's last look at the map enough. `LastSubmittedIsStored` assumes `Overwrite`: without
it a file that exists in the storage is left as it is, by design. The checked run has `--overwrite` too.

*RelayProofs.* Of RelayScan, `CursorPassesRelayed`, `RowOfItsRoute`, `ChangedRouteLeft`, `ScanTypesKept`;
`RouteChangeKept` joins the second and third. One half of the invariant is about the scan alone: what it has
found is an interval, which begins right after its cursor once the pages are complete (`Paging`); it is needed
because the cursor moves by assignment, to whatever message is next. The other half relates copies to the row:
the cursor a scan has is sound for a row that still has its identifier (`SnapSound`), and a PUT that missed no
change has read the route that the row has (`PutSound`). Of RelayTalk, `FilesOfTarget` and `TalkTypes`: an answer
newer than the present /start can only have passed the handler while it listened to the present target
(`FreshAreGenuine`), and only such answers match.

*ApiProofs.* `RecordsKept`: `RecordsInv`, for any number of tasks, workers, cancelling requests and copying
goroutines. The property speaks of a record at the end of a story that creators, workers, requests and stragglers
write in turn, so the invariant has two sides. `QueueSide`: a task is in the list once or with one worker
(`Owners`), an identifier leads to its own task only once that has been added (`OwnEntries`), what a cancel
request found is the task it named (`Cancelling`). `TaskSide`, for each task: before it is executed it has no
outcome and nothing was sent for it; before the queue has it, its record is the one of its registration; then it
is shown as queued until its start event, as running until its end, and after its end not as running, but for
what a copying goroutine emits. What a webhook tells is read from the record after its lock is given up, so it is bounded by what anyone may
have written by then (`MayTell`). A step touches one task, or none (`UntouchedKept`, `NoneTouched`), and
the events of a task come from whoever has it. `RunnerKeepsQueue` shows that each step of the runner is one
of TaskQueue or leaves the queue alone: the runner implements TaskQueue's specification, without fairness, so
that TaskQueueProofs' results hold of the queue in the runner; that it has TaskQueue's fairness too is
`ServesQueue`, which TLC checks. `DashboardTells`: `LoginInv` of UserLogin, for any number of attempts and of
wrong answers. It speaks of the question that is open; to keep it, one must know where an answer can be on its
way: in the channel of the question the library is at and in no other, from the POST to the read
(`AnswerUnderway`). `QuitInv` is the half about the login at start and the DELETE. That "no attempt" is not an
attempt is assumed in the theorem, not by the module. `AnswersTell`: `AnswerTells` of ApiTask, for any requests, links
and albums. A request leaves no trace before it is registered, and then record and queue are as its handler
believes (`Traces`); a request with one link still has it before it, or has brought nothing, the message or
what its client could read of the album (`OneLink`), which stays true as more messages are deleted. The order in which an album comes is the module's own `InOrder`, which the proof does not look into.
`SecretsKept`: `ConfigInv` of ConfigFile, for any texts, secrets and pages. Placeholders are put back by number; so
what is invariant is said of the pages that are not stale: behind each placeholder of their text, in the file as it is,
stands what the editor means at that line (`Stands`), which removing and exchanging lines keeps because both
texts are edited alike, and while a save is under way or the file is torn there is no such page (`PageTrue`). That a page
just read is of this kind (`RedactStands`) needs that no two secrets have one number (`NumbersApart`, a fact of
cardinalities).
What `Patch` computes matters here only as far as `Valid` asks of it: a text of lines. `FormKeepsRest`:
`PatchKeepsRest`, an action property, for any text and any fields. The spots of a patched text are finitely many and
in a strict order, so that ranks are one-to-one and onto (`RankApart`, `RankOnto`) and the n-th line is the line of one
spot (`PatchLines`). The header above a line is then the last spot of a header before it (`LastHeader`). New tables
come after every line of the text, so a line that was there keeps its section (`OldSection`); a missing key is put
where its table ends, where the last header before it is its own table's (`KeySection`), unless a new
table has got that place first, which is what `Crowded` says and the property's only exception. A key of the patched text therefore comes from the line of the text with
that path or from the update with it (`KeyComesFrom`), which gives both halves (`OthersKept`, `OwnSet`). Since the
texts that are saved are valid, no path is there twice.

*SavingProofs.* Five modules of the bot's saves.
`ChoicesHonoured` (SaveFlow): buttons are pressed twice, late, and after settings changed, so what is invariant
is said of every button that is shown and every handler at work: what the cache holds behind it stands for its
own trail (`Honest`), and what a prompt listed is in the plan that its answer makes under the rules the prompt
was made with (`ButtonsHonest`, `HandlersHonest`). `EveryFileAccounted` (SaveFlow): a message is said to be saved by one step,
which adds the task that another has made (`MakeTask`, `AddTask`) and notes what it saves and skips; `AccountInv` joins the property to `Honest`, as that note must
name all files but those the property excepts. It needs of `Honest` that a handler's request is a batch just when its message has several files or is
a range (`Fitting`), that a plan names every file it does not drop (`PlanNames`) and drops only files that are alone in
their album (`DroppedAlone`), and that the source of a transfer only loses files (`AccountsStay`).
`AnswersTrue` (UserSettings): what the bot has answered holds but for what a stale save has undone (`AnswersHold`) is kept only with `DirsFit`, that a default directory is
one of the default storage, in the database and in what every handler has read, and `DoublesStale`, that a chat
is watched twice only because of a stale save. `SavesAreWhole` (StorageSave): a file that was there is written
to only by a saver that may replace it or was misled by its probe (`BeforeGuarded`), and a saver that wrote to
its name alone finds there what it has written so far (`WritesKnown`); for any number of savers, attempts
and chunks. `TokenShared` (AlistSave): a flight is under way only outside of the window and a window knows one
login (`OneLogin`), and whoever goes on with a token that is not honoured has been noted (`Noted`).
`MessageTrue` (BatchMessage): only the holder of `updateMu` is in `Submit`, and it has the newest text
(`HolderSubmits`); with the cases of a full slot this gives `NewestKept`. That a text counts every item once is
a matter of cardinalities of disjoint sets of items, for any number of items and any limit of lines.

The assumptions of these: the records, texts and files that stand for "none" are no record, text or file
(`RunnerAssumption`, `BatchMessageAssumption`, `StorageSaveAssumption`); workers are finitely many; numbers of
chunks and attempts are natural numbers (`SingleFileAssumption`); a random name is none of the numbered ones
(`StorageSaveAssumption`, which `fsutil.UniquePath` intends with an XID); the refresh loop is no saver
(`AlistSaveAssumption`); each message is delivered a natural number of times, and "no event" is no event
(`ChatWatchAssumption`); only a request of Telegram files has links, and messages that make a file are finitely many and have media
(`ApiTaskAssumption`); a request to the bot names a file, as the handlers answer otherwise when they find none
(`RequestAssumption`); a batch is a sequence that is not empty (for an empty one `saveBatch` has no group to send), and an
album has room for an item (`TelegramAssumption`).

Only model-checked: liveness and everything under fairness, ENABLED, which the prover does not handle; the
temporal half of `ImplementsPool`, and `ServesQueue`. Every invariant that a passing run checks has a theorem, and
so have the action properties. DirWatcher has no safety property. What a recursive definition computes for every input
cannot be proved here, so the modules proved about have none: where the code builds a text or
a plan by loops (`Patch`, `BatchPlace`), the model says which element stands at which place.

## 6 Where code and documents part

- *cancel_honoured.* A task cancelled while its last upload waits for its next attempt ends without
  an error: the retry helper answers with an error of its own, which is not `context.Canceled`, and
  `IgnoreErrors` passes over it. It is then shown as completed, without the file, and its success hook
  and webhook run, though a cancelled task has none (`docs/content/en/usage/api.md`).
- *uploader_stall.* Workers requeue by sending to the channel only they empty: when it is full and all
  of them are at that send, nothing moves until the user interrupts.
- *aria2_left.* A comment in `aria2dl/execute.go` says that the aria2 download is cancelled with the
  context. When the cancellation meets a status request, the client's error keeps only the text of
  `context.Canceled`, so the task ends as failed and the download goes on in aria2.
- *path_is_directory.* The path of a request is a "Subdirectory path within the storage"
  (`docs/content/en/usage/api.md`), but for Telegram files it becomes the path of each file, so that the files
  of an album have one place.
- *webhook_status.* "Cancelled tasks do not trigger a webhook" (`docs/content/en/usage/api.md`). That one is due is
  decided under the lock of the record, but its payload is made after; a DELETE in between makes the webhook of a
  completed task say "cancelled". A cancelled task that ends as completed or failed all the same sends its
  webhook too, which says so (`RecordsInv` allows it).

Seen, and kept as exceptions of the properties or as hazards rather than as runs of their own: of an
album "all files in the group are downloaded by default" (`docs/content/en/usage/api.md`), but when the
messages around the linked one cannot be fetched that one is taken alone, members that the client does not see or
that make no file are passed over, and the request succeeds (`Brings` in ApiTask); the
listener of watched chats renames the one file object all users of a chat share, and an album's
callback reads it later, when it may bear another user's name (names are not modelled); a PUT of a relay that read the row before another PUT changed the route puts the old route
back and keeps the cursor written for the other (`mixed` in RelayScan); a route changed away
and back while a scan is at work gets the scan's cursor, though a change of the route is to begin with
the latest ten messages again (`docs/content/en/usage/api.md`); disabling a route does not stop a scan
that has loaded it, though enable and disable are said there to take effect immediately; the directory uploader's `Close` closes the channel while a callback or a worker may be at a send, a panic
at shutdown (`panicked` in DirUploader); a file that misses its album's window is handled as a single
file, for which the rule's word NEW-FOR-ALBUM is taken for the name of a folder (`place` in MediaGroup);
a Telegraph task cancelled during its downloads ends as failed, with the retry helper's own error; the
message of a cancelled transfer says that it failed; a streamed file whose
`Save` fails without closing the reader leaves the download in a write for ever (`Stuck` in BatchTask,
the exception of `ExecuteReturns`; a local storage whose disk is full does this); a late read can hide
a failure from the final report (`overtaken`); the zero event of ChatWatch; an album of which one file
is left after the window, which the watch callback passes over (`fate` "dropped" in ChatWatch); a
DELETE answered with success for a task that then completes.

Of the parts modelled last:

- A single file whose rule says NEW-FOR-ALBUM is saved in a directory of that name (`SinglePlace`), a batch
  drops such a file when its album has no other, and says nothing of it (`Dropped`, the exception of
  `FilesAccounted`), though `docs/content/en/usage/rules.md` speaks only of a folder made for each media group.
- A range saved in silent mode ignores the user's default directory (`SaveSilently`); a rule of a batch
  without a directory puts the file into the root, not into the one that was chosen (`BatchPlace`).
- Handlers that save the whole user bring back what another deleted or changed meanwhile (`stale` in
  UserSettings); a new default storage without directories keeps the directory of the one before (`kept`).
- When the table at the end of the text lacks a key and another table is missing, both are inserted at the
  end, in the order of the sections: the new table may come first and take the key (`Crowded` in ConfigFile). A page of the
  whole text that is stale moves secrets (`OthersStale`).
- `fsutil.UniquePath` "returns a non-taken path", which another save may take before it is used (`touched`); in AList a
  probe with a token that has lapsed reads "does not exist" (`misled`).
- A link that cannot be read is passed over (`ReadLink`). A download given to aria2 for a request that is then
  refused stays there (`downloads`).
- `LoadStorages` fills the lists of users by their position in the configuration, not by their identifier,
  by which "UserStorages" is said to map; handlers ask by name and do not meet it (`MakeLists`).
- A Telegram file whose cache file cannot be created leaves the message at its beginning, as the report is
  deferred later, and a read that outlived its attempt may edit over the last report (`overwritten`).
- A file changed after the initial scan and before Run watches its directory is not submitted (`unseen`), nor
  one made anew whose timer a callback of the old one stops (`robbed`).
- When a file to be split has a name that is a pattern, its parts are not found, and the first of none is taken
  (`BatchReturns` names the panic).

## 7 What is not modelled

- Texts, formats, speeds, byte totals, logging, the names of files.
- Hook commands, which have no state here; the attempts to deliver a webhook, which are one step.
- Parsers and plugins: functions of a page. One thing was seen: a JavaScript plugin is asked through a queue
  of ten, and a caller waits for a place without looking at its context.
- Log files, the upload command, read-only pages of the API, bit rates and dimensions of media: sequential,
  without state that others see.
- Telegram, HTTP, SQLite and the file system, beyond how the code uses them: in "map" what stands for them is
  marked external.
- Time: a timer that is armed may expire at any moment after; the order of two expiries is free.
- The progress tracker is present in BatchTask, as for the bot's tasks; tasks of the API have none, and
  then the phases are only what `finishItems` and `Items` make of them.
- In FileTasks: names and formats, byte counts, command lines, two files of one task with one name; aria2
  is taken to answer when it is asked to remove a download. aria2's client is a request and its answer.
- In SaveFlow: the shortcuts of links, pages, parsed items, aria2 and yt-dlp, each of which makes one task of
  what a button stands for.
- In RelayScan: when a scan is due, how links are found in a message, gaps between message numbers,
  several routes (scans are serial, and a route's row is its own), and the checks of a request's fields.
- `IgnoreErrors` is TRUE in the batch run, as every caller sets it (`api/factory.go`,
  `handlers/utils/shortcut/tftask.go`); the module and its theorem have both.

The parts listed as not_modelled in PROJECT.json say why there.

## 8 Plan

What would come next, in this order: DirWatcher's `Submit` composed with DirUploader in one specification, so that "every content is stored" is one property;
two users with albums in the run of watched chats, with the names of files; the shortcuts of links and
pages in SaveFlow; the tail of a log file against its definition.
