------------------------------ MODULE StorageSave ------------------------------
(* Saving a file to a storage that finds the name itself (storage/local, s3, minio, webdav and   *)
(* rclone): the name is probed, then its numbered variants (fsutil.UniquePath), the directory is *)
(* made, and the file is created or sent. Nothing ties the probe to what follows it, and several *)
(* tasks save at the same time. A caller whose save failed may call again.                       *)
EXTENDS Naturals, Sequences, FiniteSets

CONSTANTS
  Savers,     \* the tasks that save a file of the same name
  Attempts,   \* maxAttempts of UniquePath
  Chunks,     \* the chunks a local file is written in
  MaxTries,   \* the times a caller calls Save
  Owner,      \* who wrote what was there before
  NoFile

Names == 0..Attempts \union Savers  \* the name, name_1, ..., and the random name of a saver
Backends == {"local", "s3", "minio", "webdav", "rclone"}
Contents == UNION {[1..k -> Savers \union {Owner, NoFile}] : k \in 0..Chunks}

ASSUME StorageSaveAssumption ==
  /\ Attempts \in Nat /\ Chunks \in Nat
  /\ Savers \intersect (0..Attempts) = {}  \* a random name is not a numbered one
  /\ NoFile \notin Contents

VARIABLES
  kind,       \* the storage
  before,     \* the names taken at first
  overwrite,  \* the savers whose context says OverwriteExisting
  files,      \* name -> the writers of its chunks, or NoFile
  dir,        \* the directory exists
  at, cand, tries,
  written,    \* per saver, the chunks of this call that are written
  misled,     \* the savers that were told a taken name is free
  touched     \* per name, the savers that wrote to it
saveVars == <<kind, before, overwrite, files, dir, at, cand, tries, written, misled, touched>>
saveConsts == <<kind, before, overwrite>>

Whole(s) == [k \in 1..Chunks |-> s]

SaveInit ==
  /\ kind \in Backends
  /\ overwrite \in SUBSET Savers
  /\ before \in SUBSET (0..Attempts)
  /\ files = [n \in Names |-> IF n \in before THEN Whole(Owner) ELSE NoFile]
  /\ dir \in BOOLEAN /\ (before # {} => dir)
  /\ at = [s \in Savers |-> "idle"] /\ cand = [s \in Savers |-> 0] /\ tries = [s \in Savers |-> 0]
  /\ written = [s \in Savers |-> 0] /\ misled = {} /\ touched = [n \in Names |-> {}]

Goto(s, place) == at' = [at EXCEPT ![s] = place]
AfterName == CASE kind = "webdav" -> "dir" [] kind = "local" -> "mkdirs" [] OTHER -> "put"

Begin(s) ==
  /\ at[s] \in {"idle", "failed"} /\ tries[s] < MaxTries
  /\ tries' = [tries EXCEPT ![s] = @ + 1]
  /\ cand' = [cand EXCEPT ![s] = 0] /\ written' = [written EXCEPT ![s] = 0]
  /\ Goto(s, IF s \in overwrite THEN AfterName ELSE "probe")
  /\ UNCHANGED <<saveConsts, files, dir, misled, touched>>

NextNumber(s) == IF cand[s] < Attempts THEN cand[s] + 1 ELSE cand[s]

(* ---- UniquePath ---- *)
NextName(s) == IF cand[s] < Attempts THEN cand[s] + 1 ELSE s

NameTaken(s) ==
  /\ at[s] = "probe" /\ files[cand[s]] # NoFile
  /\ cand' = [cand EXCEPT ![s] = NextName(s)]
  /\ Goto(s, IF cand[s] < Attempts THEN "probe" ELSE AfterName)
  /\ UNCHANGED <<saveConsts, files, dir, tries, written, misled, touched>>

\* Every remote probe answers an error with "does not exist".
NameFree(s) ==
  /\ at[s] = "probe" /\ (files[cand[s]] = NoFile \/ kind # "local")
  /\ misled' = IF files[cand[s]] = NoFile THEN misled ELSE misled \union {s}
  /\ Goto(s, AfterName)
  /\ UNCHANGED <<saveConsts, files, dir, cand, tries, written, touched>>

(* ---- the directory: MkdirAll of the system, or PROPFIND and then MKCOL ---- *)
Fail(s) ==
  /\ at[s] \in {"mkdirs", "dir", "mkcol", "create", "write"}
  /\ Goto(s, "failed")
  /\ UNCHANGED <<saveConsts, files, dir, cand, tries, written, misled, touched>>

MkdirAll(s) ==
  /\ at[s] = "mkdirs" /\ dir' = TRUE /\ Goto(s, "create")
  /\ UNCHANGED <<saveConsts, files, cand, tries, written, misled, touched>>

DirProbe(s) ==
  /\ at[s] = "dir" /\ Goto(s, IF dir THEN "put" ELSE "mkcol")
  /\ UNCHANGED <<saveConsts, files, dir, cand, tries, written, misled, touched>>

\* Another save has made the directory since: MKCOL is refused, and with it the save.
MkCol(s) ==
  /\ at[s] = "mkcol" /\ dir' = TRUE /\ Goto(s, IF dir THEN "failed" ELSE "put")
  /\ UNCHANGED <<saveConsts, files, cand, tries, written, misled, touched>>

(* ---- local: os.Create truncates, io.Copy writes at the offset of this descriptor ---- *)
Touch(s) == touched' = [touched EXCEPT ![cand[s]] = @ \union {s}]

Create(s) ==
  /\ at[s] = "create"
  /\ files' = [files EXCEPT ![cand[s]] = <<>>] /\ Touch(s) /\ Goto(s, "write")
  /\ UNCHANGED <<saveConsts, dir, cand, tries, written, misled>>

\* A gap below the offset is zeros: nobody's chunk.
WriteAt(content, k, s) ==
  [j \in 1..(IF k > Len(content) THEN k ELSE Len(content)) |->
     CASE j = k -> s [] j # k /\ j \in DOMAIN content -> content[j] [] OTHER -> NoFile]

Write(s) ==
  /\ at[s] = "write" /\ written[s] < Chunks
  /\ written' = [written EXCEPT ![s] = @ + 1]
  /\ files' = [files EXCEPT ![cand[s]] = WriteAt(@, written[s] + 1, s)]
  /\ UNCHANGED <<saveConsts, dir, at, cand, tries, misled, touched>>

Copied(s) ==
  /\ at[s] = "write" /\ written[s] = Chunks /\ Goto(s, "saved")
  /\ UNCHANGED <<saveConsts, files, dir, cand, tries, written, misled, touched>>

(* ---- the others send the file in one call; one that fails may have stored it nevertheless ---- *)
Send(s, chunks, outcome) ==
  /\ at[s] = "put"
  /\ files' = [files EXCEPT ![cand[s]] = [k \in 1..chunks |-> s]] /\ Touch(s)
  /\ Goto(s, outcome)
  /\ UNCHANGED <<saveConsts, dir, cand, tries, written, misled>>

S3Put(s) == kind = "s3" /\ \E outcome \in {"saved", "failed"} : Send(s, Chunks, outcome)
MinioPut(s) == kind = "minio" /\ \E outcome \in {"saved", "failed"} : Send(s, Chunks, outcome)

\* A request that breaks off may leave what the server had received.
WebdavWrite(s) ==
  /\ kind = "webdav"
  /\ Send(s, Chunks, "saved") \/ \E chunks \in 0..Chunks : Send(s, chunks, "failed")

\* rcat ends a file where its input ends, also when the reader has failed.
RcloneSave(s) ==
  /\ kind = "rclone"
  /\ Send(s, Chunks, "saved") \/ \E chunks \in 0..Chunks : Send(s, chunks, "failed")

PutRefused(s) ==
  /\ at[s] = "put" /\ Goto(s, "failed")
  /\ UNCHANGED <<saveConsts, files, dir, cand, tries, written, misled, touched>>

SaveNext ==
  \E s \in Savers :
    \/ Begin(s) \/ NameTaken(s) \/ NameFree(s) \/ Fail(s) \/ MkdirAll(s) \/ DirProbe(s) \/ MkCol(s)
    \/ Create(s) \/ Write(s) \/ Copied(s) 
    \/ S3Put(s) \/ MinioPut(s) \/ WebdavWrite(s) \/ RcloneSave(s) \/ PutRefused(s)

SaveSpec == SaveInit /\ [][SaveNext]_saveVars

-----------------------------------------------------------------------------
(* What was there before stays whole, whatever the saves, their races, failures and repetitions, *)
(* and however many names are taken, unless a save may overwrite it or a probe of it was         *)
(* answered by an error (unique.go:13-27, webdav.go:80-87, rclone.go:139-150).                   *)
BeforeStays ==
  \A n \in before : files[n] = Whole(Owner) \/ (touched[n] \intersect (overwrite \union misled) # {})

(* A save that succeeded has its file whole under its name, unless another save wrote to that    *)
(* name too: two that probed it before either created it, or one that overwrites or was misled;  *)
(* a save's own earlier failed call never damages it (local.go:53-87).                           *)
SavedIsWhole ==
  \A s \in Savers : at[s] = "saved" => files[cand[s]] = Whole(s) \/ touched[cand[s]] # {s}

(* What saving promises, of its own file and of those that were there.                           *)
SaveInv == BeforeStays /\ SavedIsWhole
=============================================================================
