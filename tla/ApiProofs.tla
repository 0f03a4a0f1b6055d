------------------------------- MODULE ApiProofs -------------------------------
(***********************************************************************************)
(* What the server tells of the tasks, of the login and of the requests that       *)
(* create tasks, and what it keeps of its configuration, for every number of       *)
(* tasks, workers, requests, attempts and pages.                                   *)
(*                                                                                 *)
(* The dashboard shows the state of the current attempt. LoginInv speaks of the    *)
(* question that is open; what makes it inductive is where an answer can be on its *)
(* way: in the channel of the question the library is at, and of no other, from    *)
(* the POST to the read.                                                           *)
(*                                                                                 *)
(* The records tell what becomes of the tasks. RecordsInv speaks of tasks that are *)
(* queued, executed or at their end; what makes it inductive is that a task is     *)
(* with one owner at a time (QueueSide), and what each owner has left in its       *)
(* record, its outcome and its webhook so far (TaskSide).                          *)
(*                                                                                 *)
(* A request that creates a task is answered with what happened. What makes it     *)
(* inductive is which traces a request has left at each stage (Traces), and what   *)
(* the link it is at can bring (OneLink).                                          *)
(*                                                                                 *)
(* The configuration file keeps its secrets: behind every placeholder of a page    *)
(* that is not stale is what its editor means there (Stands), as no save has come  *)
(* since it was read (PageTrue). What the form of common settings writes is found  *)
(* from the order of the lines' spots: a new table comes after every line of the   *)
(* text (OldSection), a new key where its table ends (KeySection).                 *)
(***********************************************************************************)
EXTENDS TaskRunner, UserLogin, ApiTask, ConfigFile, FiniteSetTheorems, SequenceTheorems,
        WellFoundedInduction, TLAPS

-----------------------------------------------------------------------------
(* The login of the user account. *)
Places == {"new", "announce", "ask", "check", "success", "error", "end"}

WebTypes ==
  /\ attempt \in Attempts \union {NoAttempt}
  /\ lib \in [Attempts -> Places]
  /\ question \in [Attempts -> Fields]
  /\ chan \in [Attempts -> [Fields -> BOOLEAN]]
  /\ wrong \in [Attempts -> Nat]

(* A channel that holds an answer is that of the question the library is at; before it asks again it has    *)
(* none, except the phone number that came with the first POST.                                             *)
AnswerUnderway ==
  \A a \in Attempts :
    /\ lib[a] = "new" => wrong[a] = 0 /\ question[a] = "phone"
    /\ \A f \in Fields : chan[a][f] =>
         /\ f = question[a] /\ lib[a] \notin {"new", "check"}
         /\ lib[a] = "announce" => f = "phone" /\ wrong[a] = 0

(* The current attempt has begun and not ended; while the library is not at a question, none is shown.      *)
CurrentUnderway ==
  attempt # NoAttempt =>
    /\ lib[attempt] \notin {"new", "end"}
    /\ lib[attempt] \in {"announce", "check"} => \A f \in Fields : status # Required[f]

WebInv == WebTypes /\ AnswerUnderway /\ CurrentUnderway /\ StatusOfCurrentAttempt

(* A client that was taken back stays so, and a DELETE that goes on after Logout has disabled the login.    *)
QuitInv ==
  /\ startup = "publishing" => client = "made"
  /\ quitting # "no" => ~enabled
  /\ quitting = "loggedOut" => client = "stopped"
  /\ RestartLoggedOut

-----------------------------------------------------------------------------
LEMMA RequiredTexts ==
  /\ Required["phone"] = "phone required" /\ Required["code"] = "code required"
  /\ Required["password"] = "password required"
  BY DEF Required

LEMMA AskedTexts ==
  ASSUME NEW a \in Attempts, WebTypes
  PROVE  StatusAsked(a) = IF question[a] = "phone" /\ wrong[a] = 0 THEN "starting" ELSE Required[question[a]]
  <1> DEFINE q == question[a]
  <1>1. CASE q = "phone"     BY <1>1 DEF StatusAsked
  <1>2. CASE q = "code"      BY <1>2 DEF StatusAsked
  <1>3. CASE q = "password"  BY <1>3 DEF StatusAsked
  <1> QED  BY <1>1, <1>2, <1>3 DEF WebTypes, Fields

LEMMA QuestionsApart ==
  ASSUME NEW f \in Fields
  PROVE  /\ Required[f] \notin {"idle", "starting", "authenticating", "failed", "authenticated"}
         /\ \A g \in Fields : Required[g] = Required[f] => g = f
  BY RequiredTexts DEF Fields

LEMMA WebStarts == LoginInit => WebInv
  <1> SUFFICES ASSUME LoginInit  PROVE WebInv
    OBVIOUS
  <1>1. WebTypes
    BY DEF LoginInit, WebTypes, Places, Fields
  <1>2. AnswerUnderway
    BY DEF LoginInit, AnswerUnderway, Fields
  <1>3. CurrentUnderway
    BY DEF LoginInit, CurrentUnderway
  <1>4. StatusOfCurrentAttempt
    BY QuestionsApart DEF LoginInit, StatusOfCurrentAttempt
  <1> QED  BY <1>1, <1>2, <1>3, <1>4 DEF WebInv

-----------------------------------------------------------------------------
(* Most steps of the library of one attempt move lib alone. *)
LEMMA LibraryPreserves ==
  ASSUME WebInv, NoAttempt \notin Attempts, NEW a \in Attempts, Library(a)
  PROVE  WebInv'
  <1> USE DEF WebInv
  <1>1. CASE Announce(a)
    <2>1. WebTypes'
      BY <1>1 DEF Announce, WebTypes, Places
    <2>2. AnswerUnderway'
      BY <1>1 DEF Announce, AnswerUnderway, WebTypes
    <2>3. CurrentUnderway'
      BY <1>1 DEF Announce, CurrentUnderway, WebTypes, Update
    <2>4. StatusOfCurrentAttempt'
      <3>1. CASE attempt # a
        BY <1>1, <3>1 DEF Announce, Update, StatusOfCurrentAttempt
      <3>2. CASE attempt = a /\ question[a] = "phone" /\ wrong[a] = 0
        <4>1. status' = "starting" /\ UNCHANGED <<attempt, question, chan>>
          BY <1>1, <3>2, AskedTexts DEF Announce, Update
        <4> QED  BY <3>2, <4>1, QuestionsApart DEF StatusOfCurrentAttempt
      <3>3. CASE attempt = a /\ ~(question[a] = "phone" /\ wrong[a] = 0)
        <4>1. status' = Required[question[a]] /\ UNCHANGED <<attempt, question, chan>>
          BY <1>1, <3>3, AskedTexts DEF Announce, Update
        <4>2. question[a] \in Fields  BY DEF WebTypes
        <4>3. ~chan[a][question[a]]
          BY <1>1, <3>3, <4>2 DEF Announce, AnswerUnderway
        <4> QED  BY <3>3, <4>1, <4>2, <4>3, QuestionsApart DEF StatusOfCurrentAttempt
      <3> QED  BY <3>1, <3>2, <3>3
    <2> QED  BY <2>1, <2>2, <2>3, <2>4
  <1>2. CASE ReadAnswer(a)
    <2>1. WebTypes'
      BY <1>2 DEF ReadAnswer, WebTypes, Places
    <2>2. /\ \A b \in Attempts, f \in Fields :
               chan'[b][f] <=> chan[b][f] /\ ~(b = a /\ f = question[a])
          /\ \A b \in Attempts : lib'[b] = IF b = a THEN "check" ELSE lib[b]
          /\ lib[a] = "ask" /\ chan[a][question[a]] /\ question[a] \in Fields
          /\ UNCHANGED <<attempt, status, question, wrong>>
      BY <1>2 DEF ReadAnswer, WebTypes
    <2>3. AnswerUnderway'
      BY <2>2 DEF AnswerUnderway
    <2>4. attempt = a => \A f \in Fields : status # Required[f]
      BY <2>2 DEF StatusOfCurrentAttempt
    <2>5. CurrentUnderway'
      BY <2>2, <2>4 DEF CurrentUnderway, WebTypes
    <2>6. StatusOfCurrentAttempt'
      BY <2>2 DEF StatusOfCurrentAttempt, WebTypes
    <2> QED  BY <2>1, <2>3, <2>5, <2>6
  <1>3. CASE LibraryFails(a)
    <2>1. WebTypes'
      BY <1>3 DEF LibraryFails, WebTypes, Places
    <2>2. AnswerUnderway'
      BY <1>3 DEF LibraryFails, AnswerUnderway, WebTypes
    <2>3. CurrentUnderway'
      BY <1>3 DEF LibraryFails, CurrentUnderway, WebTypes
    <2>4. StatusOfCurrentAttempt'
      BY <1>3 DEF LibraryFails, StatusOfCurrentAttempt
    <2> QED  BY <2>1, <2>2, <2>3, <2>4
  <1>4. CASE Wrong(a)
    <2>1. WebTypes'
      BY <1>4 DEF Wrong, WebTypes, Places
    <2>2. AnswerUnderway'
      BY <1>4 DEF Wrong, AnswerUnderway, WebTypes
    <2>3. CurrentUnderway'
      BY <1>4 DEF Wrong, CurrentUnderway, WebTypes
    <2>4. StatusOfCurrentAttempt'
      BY <1>4 DEF Wrong, StatusOfCurrentAttempt
    <2> QED  BY <2>1, <2>2, <2>3, <2>4
  <1>5. CASE WrongAgain(a)
    <2>1. WebTypes'
      BY <1>5 DEF WrongAgain, WebTypes, Places
    <2>2. AnswerUnderway'
      BY <1>5 DEF WrongAgain, AnswerUnderway, WebTypes
    <2>3. CurrentUnderway'
      BY <1>5, QuestionsApart DEF WrongAgain, CurrentUnderway, WebTypes, Update
    <2>4. StatusOfCurrentAttempt'
      BY <1>5, QuestionsApart DEF WrongAgain, StatusOfCurrentAttempt, Update
    <2> QED  BY <2>1, <2>2, <2>3, <2>4
  <1>6. CASE NextQuestion(a)
    <2>1. WebTypes'
      BY <1>6 DEF NextQuestion, WebTypes, Places, Fields
    <2>2. AnswerUnderway'
      BY <1>6 DEF NextQuestion, AnswerUnderway, WebTypes
    <2>3. CurrentUnderway'
      BY <1>6 DEF NextQuestion, CurrentUnderway, WebTypes
    <2>4. attempt = a => \A f \in Fields : status # Required[f]
      BY <1>6 DEF NextQuestion, CurrentUnderway
    <2>5. StatusOfCurrentAttempt'
      BY <1>6, <2>4 DEF NextQuestion, StatusOfCurrentAttempt, WebTypes
    <2> QED  BY <2>1, <2>2, <2>3, <2>5
  <1>7. CASE Verified(a)
    <2>1. WebTypes'
      BY <1>7 DEF Verified, WebTypes, Places
    <2>2. AnswerUnderway'
      BY <1>7 DEF Verified, AnswerUnderway, WebTypes
    <2>3. CurrentUnderway'
      BY <1>7 DEF Verified, CurrentUnderway, WebTypes, Update
    <2>4. StatusOfCurrentAttempt'
      BY <1>7, QuestionsApart DEF Verified, StatusOfCurrentAttempt, Update
    <2> QED  BY <2>1, <2>2, <2>3, <2>4
  <1> QED  BY <1>1, <1>2, <1>3, <1>4, <1>5, <1>6, <1>7 DEF Library

(* The ends of an attempt, and what its requests do. *)
LEMMA AttemptPreserves ==
  ASSUME WebInv, NoAttempt \notin Attempts, NEW a \in Attempts,
         RunEnds(a) \/ AttemptTimesOut(a) \/ CancelContext(a)
  PROVE  WebInv'
  <1> USE DEF WebInv
  <1>1. CASE RunEnds(a)
    <2>1. WebTypes'
      BY <1>1 DEF RunEnds, WebTypes, Places
    <2>2. AnswerUnderway'
      BY <1>1 DEF RunEnds, AnswerUnderway, WebTypes
    <2>3. CurrentUnderway'
      BY <1>1 DEF RunEnds, CurrentUnderway, WebTypes
    <2>4. StatusOfCurrentAttempt'
      <3>1. CASE attempt = a
        BY <1>1, <3>1, QuestionsApart DEF RunEnds, StatusOfCurrentAttempt
      <3>2. CASE attempt # a
        BY <1>1, <3>2 DEF RunEnds, StatusOfCurrentAttempt
      <3> QED  BY <3>1, <3>2
    <2> QED  BY <2>1, <2>2, <2>3, <2>4
  <1>2. CASE AttemptTimesOut(a) \/ CancelContext(a)
    BY <1>2 DEF AttemptTimesOut, CancelContext, WebTypes, AnswerUnderway, CurrentUnderway, StatusOfCurrentAttempt
  <1> QED  BY <1>1, <1>2

LEMMA SubmitPhonePreserves ==
  ASSUME WebInv, NoAttempt \notin Attempts, SubmitPhone
  PROVE  WebInv'
  <1> USE DEF WebInv
  <1>1. PICK a \in Attempts : /\ lib[a] = "new" /\ attempt' = a /\ status' = "starting"
                              /\ chan' = [chan EXCEPT ![a].phone = TRUE]
                              /\ lib' = [lib EXCEPT ![a] = "announce"]
                              /\ UNCHANGED <<question, wrong>>
    BY DEF SubmitPhone
  <1>2. /\ \A b \in Attempts, f \in Fields : chan'[b][f] = IF b = a /\ f = "phone" THEN TRUE ELSE chan[b][f]
        /\ chan' \in [Attempts -> [Fields -> BOOLEAN]]
    BY <1>1 DEF WebTypes, Fields
  <1>3. WebTypes'
    BY <1>1, <1>2 DEF WebTypes, Places
  <1>4. AnswerUnderway'
    BY <1>1, <1>2 DEF AnswerUnderway, WebTypes
  <1>5. CurrentUnderway'
    BY <1>1, QuestionsApart DEF CurrentUnderway, WebTypes
  <1>6. StatusOfCurrentAttempt'
    BY <1>1, QuestionsApart DEF StatusOfCurrentAttempt
  <1> QED  BY <1>3, <1>4, <1>5, <1>6

LEMMA SubmitAnswerPreserves ==
  ASSUME WebInv, NoAttempt \notin Attempts, NEW f \in Fields, SubmitAnswer(f)
  PROVE  WebInv'
  <1> USE DEF WebInv
  <1>1. /\ attempt \in Attempts /\ status = Required[f] /\ question[attempt] = f
        /\ status' = "authenticating" /\ UNCHANGED <<attempt, lib, question, wrong>>
    BY DEF SubmitAnswer, StatusOfCurrentAttempt, WebTypes
  <1>2. /\ \A b \in Attempts, g \in Fields : chan'[b][g] = IF b = attempt /\ g = f THEN TRUE ELSE chan[b][g]
        /\ chan' \in [Attempts -> [Fields -> BOOLEAN]]
    BY <1>1 DEF SubmitAnswer, WebTypes
  <1>3. lib[attempt] \notin {"new", "announce", "check", "end"}
    BY <1>1 DEF CurrentUnderway
  <1>4. WebTypes'
    BY <1>1, <1>2 DEF WebTypes
  <1>5. AnswerUnderway'
    <2>1. \A b \in Attempts, g \in Fields : chan'[b][g] => chan[b][g] \/ (b = attempt /\ g = f)
      BY <1>2, Zenon
    <2>2. question[attempt] = f /\ attempt \in Attempts /\ UNCHANGED <<lib, question, wrong>>
      BY <1>1
    <2> QED  BY <2>1, <2>2, <1>3 DEF AnswerUnderway
  <1>6. CurrentUnderway'
    BY <1>1, QuestionsApart DEF CurrentUnderway
  <1>7. StatusOfCurrentAttempt'
    BY <1>1, QuestionsApart DEF StatusOfCurrentAttempt
  <1> QED  BY <1>4, <1>5, <1>6, <1>7

LEMMA CancelPreserves ==
  ASSUME WebInv, NoAttempt \notin Attempts, CancelAttempt
  PROVE  WebInv'
  <1> USE DEF WebInv
  <1>1. attempt' = NoAttempt /\ status' = "idle" /\ UNCHANGED <<lib, question, chan, wrong>>
    BY DEF CancelAttempt
  <1>2. WebTypes' /\ AnswerUnderway' /\ CurrentUnderway'
    BY <1>1 DEF WebTypes, AnswerUnderway, CurrentUnderway
  <1>3. StatusOfCurrentAttempt'
    BY <1>1, QuestionsApart DEF StatusOfCurrentAttempt
  <1> QED  BY <1>2, <1>3

LEMMA WebUntouched ==
  ASSUME WebInv, UNCHANGED <<attempt, status, lib, question, chan, wrong>>
  PROVE  WebInv'
  BY DEF WebInv, WebTypes, AnswerUnderway, CurrentUnderway, StatusOfCurrentAttempt

LEMMA WebPreserves ==
  ASSUME WebInv, NoAttempt \notin Attempts, [LoginNext]_loginVars
  PROVE  WebInv'
  <1>1. CASE User
    <2>1. CASE DisableUserbot
      BY <2>1, WebUntouched DEF DisableUserbot, webVars
    <2> QED
      BY <1>1, <2>1, SubmitPhonePreserves, SubmitAnswerPreserves, CancelPreserves DEF User
  <1>2. CASE Quit \/ StartLogin \/ ProcessEnds \/ UNCHANGED loginVars
    BY <1>2, WebUntouched
    DEF Quit, StartLogin, ProcessEnds, LogOut, LogOutFails, RestartAfterLogout, StartAuthenticated, StartFails,
        LoginGivesUp, LoginReceives, StopUnwanted, Publish, webVars, loginVars
  <1>3. CASE \E a \in Attempts : Library(a) \/ RunEnds(a) \/ AttemptTimesOut(a) \/ CancelContext(a)
    BY <1>3, LibraryPreserves, AttemptPreserves
  <1> QED  BY <1>1, <1>2, <1>3 DEF LoginNext

-----------------------------------------------------------------------------
(* The client and the config are touched by the login at start and by a DELETE alone. *)
LEMMA QuitUntouched ==
  ASSUME QuitInv, UNCHANGED <<startup, client, quitVars>>
  PROVE  QuitInv'
  BY DEF QuitInv, RestartLoggedOut, quitVars

LEMMA QuitPreserves ==
  ASSUME QuitInv, [LoginNext]_loginVars
  PROVE  QuitInv'
  <1>1. CASE User
    <2>1. CASE DisableUserbot
      BY <2>1 DEF DisableUserbot, Connected, QuitInv, RestartLoggedOut, clientVars
    <2> QED
      BY <1>1, <2>1, QuitUntouched DEF User, SubmitPhone, CancelAttempt, SubmitAnswer, clientVars
  <1>2. CASE Quit
    <2> USE DEF QuitInv, RestartLoggedOut, clientVars
    <2>1. CASE LogOut
      BY <2>1 DEF LogOut, Connected
    <2>2. CASE LogOutFails
      BY <2>2 DEF LogOutFails
    <2>3. CASE RestartAfterLogout
      <3>1. ~enabled' /\ client' = "stopped" /\ startup' # "publishing" /\ quitting' = "no"
        BY <2>3 DEF RestartAfterLogout
      <3> QED  BY <3>1
    <2> QED  BY <1>2, <2>1, <2>2, <2>3 DEF Quit
  <1>3. CASE StartLogin
    <2> USE DEF QuitInv, RestartLoggedOut, quitVars
    <2>1. CASE StartAuthenticated  BY <2>1 DEF StartAuthenticated
    <2>2. CASE StartFails          BY <2>2 DEF StartFails
    <2>3. CASE LoginGivesUp        BY <2>3 DEF LoginGivesUp
    <2>4. CASE LoginReceives       BY <2>4 DEF LoginReceives
    <2>5. CASE StopUnwanted        BY <2>5 DEF StopUnwanted
    <2>6. CASE Publish             BY <2>6 DEF Publish
    <2> QED  BY <1>3, <2>1, <2>2, <2>3, <2>4, <2>5, <2>6 DEF StartLogin
  <1>4. CASE ProcessEnds \/ UNCHANGED loginVars
    BY <1>4, QuitUntouched DEF ProcessEnds, loginVars, quitVars
  <1>5. CASE \E a \in Attempts : Library(a) \/ RunEnds(a) \/ AttemptTimesOut(a) \/ CancelContext(a)
    BY <1>5, QuitUntouched
    DEF Library, Announce, ReadAnswer, LibraryFails, Wrong, WrongAgain, NextQuestion, Verified, RunEnds,
        AttemptTimesOut, CancelContext, clientVars
  <1> QED  BY <1>1, <1>2, <1>3, <1>4, <1>5 DEF LoginNext

LEMMA QuitStarts == LoginInit => QuitInv
  BY DEF LoginInit, QuitInv, RestartLoggedOut

(* However many logins are begun, answered wrongly, cancelled and outlived by their contexts, the dashboard *)
(* shows the question of the current one, and a restart means that the account was logged out.              *)
THEOREM DashboardTells == ASSUME NoAttempt \notin Attempts PROVE LoginSpec => []LoginInv
  <1>1. LoginInit => WebInv /\ QuitInv
    BY WebStarts, QuitStarts
  <1>2. (WebInv /\ QuitInv) /\ [LoginNext]_loginVars => (WebInv /\ QuitInv)'
    BY WebPreserves, QuitPreserves
  <1>3. WebInv /\ QuitInv => LoginInv
    BY DEF WebInv, QuitInv, LoginInv
  <1> QED  BY <1>1, <1>2, <1>3, PTL DEF LoginSpec

-----------------------------------------------------------------------------
(* The tasks of the runner and their records. *)

(* The tasks that the queue has taken in. *)
Accepted == {t \in Tasks : creation[t] \in {"added", "announced"}}

Holding == {"start", "execute", "done", "notify", "remove"}

(* A task is once in the list, or with one worker. *)
Owners ==
  /\ \A j, k \in DOMAIN tasks : tasks[j] = tasks[k] => j = k
  /\ \A w \in Workers, k \in DOMAIN tasks : held[w] # tasks[k]
  /\ \A v, w \in Workers : held[v] = held[w] /\ held[v] # None => v = w
  /\ \A k \in DOMAIN tasks : tasks[k] \in Accepted
  /\ \A w \in Workers : held[w] # None => held[w] \in Accepted

(* An identifier leads to its own task, and only once that has been added. *)
OwnEntries ==
  \A i \in Tasks : /\ taskMap[i] \in {i, None} /\ runningTaskMap[i] \in {i, None}
                   /\ i \notin Accepted => taskMap[i] = None /\ runningTaskMap[i] = None

Busy == {w \in Workers : wpc[w] # "idle"}

WorkersPlaces ==
  /\ \A w \in Workers : held[w] # None <=> wpc[w] \in Holding
  /\ semaphore = Cardinality(Busy)

(* A cancel request that found something found the task it names. *)
Cancelling ==
  \A c \in Callers :
    /\ kpc[c] # "idle" => target[c] \in Tasks
    /\ kpc[c] = "apply" => found[c] = target[c]
    /\ kpc[c] \in {"apply", "emit", "update"} => target[c] \in Accepted
    /\ kpc[c] \in {"emit", "update"} => target[c] \in cancelled

QueueSide == TypeOK /\ Owners /\ OwnEntries /\ WorkersPlaces /\ Cancelling

(* The rest is about one task: where it is, its outcome, its record and its webhook. *)
At(t, places) == \E w \in Workers : held[w] = t /\ wpc[w] \in places

Unexecuted(t) == outcome[t] = "none" /\ sent[t] = <<>>

(* It is executed once: before, it has no outcome and nothing was sent for it. *)
ExecutedOnce(t) ==
  /\ t \notin Accepted \/ Queueing(t) \/ At(t, {"start", "execute"}) => Unexecuted(t)
  /\ At(t, {"done"}) => outcome[t] # "none" /\ sent[t] = <<>>
  /\ At(t, {"notify"}) => outcome[t] \in {"ok", "error"} /\ sent[t] = <<>> /\ t \in HookTasks
  /\ t \in straggler => outcome[t] # "none"

(* What was sent for it tells its end or what was written over that; until it is sent, its record does. *)
Earned(t) ==
  /\ sent[t] # <<>> => /\ t \in HookTasks /\ outcome[t] \in {"ok", "error"}
                       /\ \E s \in Status : sent[t] = <<s>> /\ MayTell(t, s)
  /\ At(t, {"notify"}) => rec[t] # None /\ MayTell(t, rec[t].status)
  /\ t \in straggler => outcome[t] # "ok"

(* Until the queue has taken it in, its record is the one of its registration. *)
AsRegistered(t) ==
  /\ creation[t] \in {"new", "deleted"} \/ (creation[t] = "refused" /\ t \notin ApiTasks) => rec[t] = None
  /\ creation[t] = "registered" => t \in ApiTasks /\ rec[t] = [NewRecord("api") EXCEPT !.hook = t \in HookTasks]
  /\ rec[t] # None /\ rec[t].hook => t \in HookTasks

(* Until it has started it is shown as queued under its origin, or not yet; then as running. *)
ShownAs(t, stage) == rec[t] # None /\ rec[t].status = stage /\ rec[t].source = Origin(t)

Shown(t) ==
  t \notin cancelled =>
    /\ Queueing(t) \/ At(t, {"start"}) => rec[t] = None \/ ShownAs(t, "queued")
    /\ Queueing(t) /\ creation[t] = "announced" => ShownAs(t, "queued")
    /\ At(t, {"execute"}) => ShownAs(t, "running")

(* Once it has ended it is no longer shown as running, but for a copying goroutine left over. *)
ShownEnded(t) ==
  /\ t \notin CopyTasks => RunningHeld(t)
  /\ t \notin CopyTasks /\ At(t, {"notify", "remove"}) /\ rec[t] # None => rec[t].status # "running"
  /\ \A c \in Callers : kpc[c] = "update" /\ target[c] = t => rec[t] # None

TaskSide(t) == ExecutedOnce(t) /\ Earned(t) /\ AsRegistered(t) /\ Shown(t) /\ ShownEnded(t)

RunnerInv == QueueSide /\ \A t \in Tasks : TaskSide(t)

USE RunnerAssumption DEF RunnerAssumption

LEMMA OwnersKept ==
  ASSUME Owners, UNCHANGED <<tasks, held>>, Accepted \subseteq Accepted'
  PROVE  Owners'
  BY DEF Owners

LEMMA EntriesKept ==
  ASSUME OwnEntries, UNCHANGED <<taskMap, runningTaskMap>>, Accepted \subseteq Accepted'
  PROVE  OwnEntries'
  BY DEF OwnEntries

LEMMA CancellingKept ==
  ASSUME Cancelling, UNCHANGED <<kpc, target, found>>, Accepted \subseteq Accepted', cancelled \subseteq cancelled'
  PROVE  Cancelling'
  BY DEF Cancelling

LEMMA BusyFinite == IsFiniteSet(Busy) /\ Cardinality(Busy) \in Nat /\ Cardinality(Busy) <= Cardinality(Workers)
  <1>1. Busy \subseteq Workers  BY DEF Busy
  <1> QED  BY <1>1, FS_Subset, FS_CardinalityType

(* A worker moves between two places of its loop, neither of them the start. *)
LEMMA PlacesMoved ==
  ASSUME TypeOK, WorkersPlaces, NEW w \in Workers, NEW p, Goto(w, p), wpc[w] # "idle", p # "idle",
         semaphore' = semaphore, \A v \in Workers \ {w} : held'[v] = held[v],
         held'[w] # None <=> p \in Holding
  PROVE  WorkersPlaces'
  <1>1. wpc' = [wpc EXCEPT ![w] = p] /\ wpc \in [Workers -> {"idle", "get", "start", "execute", "done", "notify",
                          "remove", "release", "exited"}]
    BY DEF Goto, TypeOK
  <1>2. Busy' = Busy
    BY <1>1 DEF Busy
  <1> QED  BY <1>1, <1>2 DEF WorkersPlaces

LEMMA PlacesKept ==
  ASSUME WorkersPlaces, UNCHANGED <<wpc, held, semaphore>>
  PROVE  WorkersPlaces'
  BY DEF WorkersPlaces, Busy

-----------------------------------------------------------------------------
(* The queue of this module is TaskQueue with the task itself as identifier. *)
Identity == [t \in Tasks |-> t]

LEMMA IdentityIs == \A t \in Tasks : Identity[t] = t
  BY DEF Identity

LEMMA QueueTypesKept ==
  ASSUME TypeOK, UNCHANGED qvars
  PROVE  Q!TypeOK'
  BY DEF TypeOK, Q!TypeOK, qvars

LEMMA SignalTypes ==
  ASSUME TypeOK, Q!Signal
  PROVE  getter' \in [Workers -> Q!GetterStates]
  BY DEF TypeOK, Q!TypeOK, Q!Signal, Q!Waiting, Q!GetterStates

LEMMA AddChanges ==
  ASSUME TypeOK, NEW t \in Tasks, Q!AddAccepted(t)
  PROVE  /\ tasks' = Append(tasks, t) /\ taskMap' = [taskMap EXCEPT ![t] = t]
         /\ UNCHANGED <<runningTaskMap, closed, cancelled, held, found>>
         /\ t \notin cancelled
         /\ Q!TypeOK'
  <1>1. /\ tasks' = Append(tasks, t) /\ taskMap' = [taskMap EXCEPT ![t] = t]
        /\ submitted' = submitted \cup {t} /\ Q!Signal
        /\ UNCHANGED <<runningTaskMap, closed, cancelled, held, found>> /\ t \notin cancelled
    BY DEF Q!AddAccepted, Q!Addable
  <1>2. getter' \in [Workers -> Q!GetterStates]
    BY <1>1, SignalTypes
  <1>3. tasks' \in Seq(Tasks) /\ taskMap' \in [Tasks -> Tasks \cup {None}] /\ submitted' \in SUBSET Tasks
    BY <1>1 DEF TypeOK, Q!TypeOK
  <1> QED  BY <1>1, <1>2, <1>3 DEF TypeOK, Q!TypeOK

LEMMA RefuseChanges ==
  ASSUME TypeOK, NEW t \in Tasks, Q!AddRefused(t)
  PROVE  UNCHANGED <<tasks, taskMap, runningTaskMap, closed, cancelled, held, found>> /\ Q!TypeOK'
  BY DEF Q!AddRefused, TypeOK, Q!TypeOK

LEMMA ReleaseTypes ==
  ASSUME TypeOK, NEW n
  PROVE  /\ Q!Release(n) \in [Tasks -> Tasks \cup {None}]
         /\ \A i \in Tasks : Q!Release(n)[i] \in {taskMap[i], None}
  BY DEF Q!Release, TypeOK, Q!TypeOK

LEMMA TakeChanges ==
  ASSUME TypeOK, NEW w \in Workers, Q!GetTask(w)
  PROVE  \E k \in DOMAIN tasks :
           /\ k \in 1 .. Len(tasks) /\ tasks[k] \in Tasks /\ held[w] = None
           /\ tasks' = SubSeq(tasks, k + 1, Len(tasks))
           /\ \A i \in Tasks : taskMap'[i] \in {taskMap[i], None}
           /\ runningTaskMap' = [runningTaskMap EXCEPT ![tasks[k]] = tasks[k]]
           /\ held' = [held EXCEPT ![w] = tasks[k]]
           /\ UNCHANGED <<closed, cancelled, submitted, found>>
           /\ Q!TypeOK'
  <1>1. PICK k \in DOMAIN tasks :
           /\ held[w] = None /\ tasks' = SubSeq(tasks, k + 1, Len(tasks)) /\ taskMap' = Q!Release(k - 1)
           /\ runningTaskMap' = [runningTaskMap EXCEPT ![Identity[tasks[k]]] = tasks[k]]
           /\ held' = [held EXCEPT ![w] = tasks[k]] /\ getter' = [getter EXCEPT ![w] = "out"]
           /\ UNCHANGED <<closed, cancelled, submitted, found>>
    BY DEF Q!GetTask, Q!InGet, Identity
  <1>2. tasks \in Seq(Tasks)  BY DEF TypeOK, Q!TypeOK
  <1>3. k \in 1 .. Len(tasks) /\ tasks[k] \in Tasks  BY <1>2
  <1>4. Identity[tasks[k]] = tasks[k]  BY <1>3, IdentityIs
  <1>5. tasks' \in Seq(Tasks)  BY <1>1, <1>2, <1>3
  <1>6. taskMap' \in [Tasks -> Tasks \cup {None}] /\ \A i \in Tasks : taskMap'[i] \in {taskMap[i], None}
    BY <1>1, ReleaseTypes
  <1>7. Q!TypeOK'
    BY <1>1, <1>3, <1>4, <1>5, <1>6 DEF TypeOK, Q!TypeOK, Q!GetterStates
  <1> QED  BY <1>1, <1>3, <1>4, <1>6, <1>7

LEMMA NothingChanges ==
  ASSUME TypeOK, NEW w \in Workers, Q!GetWait(w) \/ Q!GetClosed(w)
  PROVE  /\ tasks' = <<>> /\ \A i \in Tasks : taskMap'[i] \in {taskMap[i], None}
         /\ UNCHANGED <<runningTaskMap, closed, cancelled, submitted, held, found>>
         /\ held[w] = None
         /\ Q!TypeOK'
  <1>1. PICK next \in {"waiting", "gone"} : Q!GetNothing(w, next)
    BY DEF Q!GetWait, Q!GetClosed
  <1>2. /\ tasks' = <<>> /\ taskMap' = Q!Release(Len(tasks)) /\ held[w] = None
        /\ getter' = [getter EXCEPT ![w] = next]
        /\ UNCHANGED <<runningTaskMap, closed, cancelled, submitted, held, found>>
    BY <1>1 DEF Q!GetNothing, Q!InGet
  <1>3. taskMap' \in [Tasks -> Tasks \cup {None}] /\ \A i \in Tasks : taskMap'[i] \in {taskMap[i], None}
    BY <1>2, ReleaseTypes
  <1>4. getter' \in [Workers -> Q!GetterStates]
    BY <1>2 DEF TypeOK, Q!TypeOK, Q!GetterStates
  <1> QED  BY <1>2, <1>3, <1>4 DEF TypeOK, Q!TypeOK

LEMMA DoneChanges ==
  ASSUME TypeOK, NEW w \in Workers, Q!Done(w)
  PROVE  /\ held[w] \in Tasks
         /\ taskMap' = [taskMap EXCEPT ![held[w]] = None]
         /\ runningTaskMap' = [runningTaskMap EXCEPT ![held[w]] = None]
         /\ held' = [held EXCEPT ![w] = None]
         /\ UNCHANGED <<tasks, closed, cancelled, submitted, getter, found>>
         /\ Q!TypeOK'
  <1>1. held[w] \in Tasks  BY DEF Q!Done, TypeOK, Q!TypeOK
  <1>2. Identity[held[w]] = held[w]  BY <1>1, IdentityIs
  <1>3. /\ taskMap' = [taskMap EXCEPT ![held[w]] = None]
        /\ runningTaskMap' = [runningTaskMap EXCEPT ![held[w]] = None]
        /\ held' = [held EXCEPT ![w] = None]
        /\ UNCHANGED <<tasks, closed, cancelled, submitted, getter, found>>
    BY <1>2 DEF Q!Done, Identity
  <1> QED  BY <1>1, <1>3 DEF TypeOK, Q!TypeOK

LEMMA FindChanges ==
  ASSUME TypeOK, OwnEntries, NEW c \in Callers, NEW t \in Tasks, Q!CancelFind(c, t)
  PROVE  /\ found' = [found EXCEPT ![c] = t] /\ t \in Accepted
         /\ UNCHANGED <<tasks, taskMap, runningTaskMap, closed, cancelled, submitted, getter, held>>
         /\ Q!TypeOK'
  <1>1. Q!Lookup(t) = t /\ t \in Accepted
    BY DEF Q!CancelFind, Q!Lookup, OwnEntries
  <1>2. /\ found' = [found EXCEPT ![c] = t]
        /\ UNCHANGED <<tasks, taskMap, runningTaskMap, closed, cancelled, submitted, getter, held>>
    BY <1>1 DEF Q!CancelFind
  <1> QED  BY <1>1, <1>2 DEF TypeOK, Q!TypeOK

LEMMA ApplyChanges ==
  ASSUME TypeOK, NEW c \in Callers, Q!CancelApply(c)
  PROVE  /\ found' = [found EXCEPT ![c] = None] /\ cancelled' = cancelled \cup {found[c]}
         /\ UNCHANGED <<tasks, taskMap, runningTaskMap, closed, submitted, getter, held>>
         /\ Q!TypeOK'
  BY DEF Q!CancelApply, TypeOK, Q!TypeOK

LEMMA ContextChanges ==
  ASSUME TypeOK, NEW t \in Tasks, Q!ContextDone(t)
  PROVE  /\ cancelled' = cancelled \cup {t}
         /\ UNCHANGED <<tasks, taskMap, runningTaskMap, closed, submitted, getter, held, found>>
         /\ Q!TypeOK'
  BY DEF Q!ContextDone, TypeOK, Q!TypeOK

LEMMA CloseChanges ==
  ASSUME TypeOK, Q!Close
  PROVE  UNCHANGED <<tasks, taskMap, runningTaskMap, cancelled, submitted, held, found>> /\ Q!TypeOK'
  <1>1. getter' \in [Workers -> Q!GetterStates]
    BY DEF Q!Close, TypeOK, Q!TypeOK, Q!GetterStates
  <1> QED  BY <1>1 DEF Q!Close, TypeOK, Q!TypeOK
-----------------------------------------------------------------------------
LEMMA RecordOf ==
  ASSUME TypeOK, NEW t \in Tasks, rec[t] # None
  PROVE  rec[t] \in Records
  BY DEF TypeOK

LEMMA EmitChanges ==
  ASSUME TypeOK, NEW t \in Tasks, NEW source \in Sources, NEW stage \in Status, Emit(t, source, stage)
  PROVE  /\ rec' \in [Tasks -> Records \cup {None}]
         /\ \A u \in Tasks \ {t} : rec'[u] = rec[u]
         /\ rec'[t] \in Records /\ rec'[t].status = stage
         /\ rec[t] = None => rec'[t].source = source /\ ~rec'[t].hook
         /\ rec[t] # None => rec'[t].source = rec[t].source /\ rec'[t].hook = rec[t].hook
  <1> DEFINE r == Stored(t, source)
             fresh == [r EXCEPT !.status = stage, !.notified = @ \/ Fires(r, stage)]
  <1>1. r \in Records
    BY RecordOf DEF Stored, NewRecord, Records, Status
  <1>2. Fires(r, stage) \in BOOLEAN
    BY DEF Fires
  <1>3. fresh \in Records /\ fresh.status = stage /\ fresh.source = r.source /\ fresh.hook = r.hook
    BY <1>1, <1>2 DEF Records
  <1>4. rec' = [rec EXCEPT ![t] = fresh]
    BY DEF Emit
  <1>5. rec \in [Tasks -> Records \cup {None}]
    BY DEF TypeOK
  <1>6. rec' \in [Tasks -> Records \cup {None}] /\ rec'[t] = fresh /\ \A u \in Tasks \ {t} : rec'[u] = rec[u]
    BY <1>3, <1>4, <1>5
  <1>7. rec[t] = None => r.source = source /\ ~r.hook
    BY DEF Stored, NewRecord
  <1>8. rec[t] # None => r = rec[t]
    BY DEF Stored
  <1> QED  BY <1>3, <1>6, <1>7, <1>8

LEMMA HookSet ==
  ASSUME NEW r \in Records, NEW b \in BOOLEAN
  PROVE  LET h == [r EXCEPT !.hook = b]
         IN  h \in Records /\ h.status = r.status /\ h.source = r.source /\ h.hook = b
  BY DEF Records

LEMMA RegisteredRecord ==
  ASSUME NEW t \in Tasks
  PROVE  LET h == [NewRecord("api") EXCEPT !.hook = t \in HookTasks]
         IN  h \in Records /\ h.status = "queued" /\ h.source = "api" /\ h.hook = (t \in HookTasks)
  <1>1. NewRecord("api") \in Records /\ NewRecord("api").status = "queued" /\ NewRecord("api").source = "api"
    BY DEF NewRecord, Records, Status, Sources
  <1>2. (t \in HookTasks) \in BOOLEAN
    OBVIOUS
  <1> QED  BY <1>1, <1>2, HookSet, Zenon

LEMMA OriginIsSource == \A t \in Tasks : Origin(t) \in Sources
  BY DEF Origin, Sources

-----------------------------------------------------------------------------
(* Actions on the records and the creators leave the queue alone. *)
LEMMA SideKept ==
  ASSUME QueueSide, UNCHANGED <<qvars, semaphore, wpc, kpc, target>>, Accepted \subseteq Accepted', TypeOK'
  PROVE  QueueSide'
  <1>1. Owners' /\ OwnEntries' /\ WorkersPlaces' /\ Cancelling'
    BY OwnersKept, EntriesKept, PlacesKept, CancellingKept DEF QueueSide, qvars
  <1> QED  BY <1>1 DEF QueueSide

LEMMA RegisterSide == \A t \in Tasks : QueueSide /\ Register(t) => QueueSide'
  <1> SUFFICES ASSUME NEW t \in Tasks, QueueSide, Register(t)  PROVE QueueSide'
    OBVIOUS
  <1>1. TypeOK  BY DEF QueueSide
  <1>2. /\ creation[t] = "new" /\ creation' = [creation EXCEPT ![t] = "registered"]
        /\ rec' = [rec EXCEPT ![t] = [NewRecord("api") EXCEPT !.hook = t \in HookTasks]]
        /\ UNCHANGED <<qvars, main, wvars, kvars, sent>>
    BY DEF Register
  <1>3. [NewRecord("api") EXCEPT !.hook = t \in HookTasks] \in Records
    BY RegisteredRecord, Zenon
  <1>4. TypeOK'
    BY <1>1, <1>2, <1>3, QueueTypesKept DEF TypeOK, wvars, kvars
  <1>5. Accepted \subseteq Accepted'
    BY <1>1, <1>2 DEF Accepted, TypeOK
  <1> QED  BY <1>2, <1>4, <1>5, SideKept DEF wvars, kvars

LEMMA AddSide == \A t \in Tasks : QueueSide /\ AddTask(t) => QueueSide'
  <1> SUFFICES ASSUME NEW t \in Tasks, QueueSide, AddTask(t)  PROVE QueueSide'
    OBVIOUS
  <1>1. TypeOK /\ creation[t] \in {"new", "registered"} /\ UNCHANGED <<main, wvars, kvars, rvars>>
    BY DEF QueueSide, AddTask, ReadyToAdd
  <1>2. CASE Q!AddAccepted(t) /\ creation' = [creation EXCEPT ![t] = "added"]
    <2>1. /\ tasks' = Append(tasks, t) /\ taskMap' = [taskMap EXCEPT ![t] = t]
          /\ UNCHANGED <<runningTaskMap, closed, cancelled, held, found>> /\ Q!TypeOK'
      BY <1>1, <1>2, AddChanges
    <2>2. TypeOK'
      BY <1>1, <1>2, <2>1 DEF TypeOK, wvars, kvars, rvars
    <2>3. t \notin Accepted /\ Accepted \subseteq Accepted' /\ t \in Accepted'
      BY <1>1, <1>2 DEF Accepted, TypeOK
    <2>4. tasks \in Seq(Tasks)  BY <1>1 DEF TypeOK, Q!TypeOK
    <2>5. /\ DOMAIN tasks' = 1 .. Len(tasks) + 1 /\ tasks'[Len(tasks) + 1] = t
          /\ \A k \in DOMAIN tasks' : k # Len(tasks) + 1 => k \in DOMAIN tasks /\ tasks'[k] = tasks[k]
      BY <2>1, <2>4
    <2>6. Owners'
      BY <2>1, <2>3, <2>5 DEF Owners, QueueSide
    <2>7. OwnEntries'
      BY <1>1, <2>1, <2>3 DEF OwnEntries, QueueSide, TypeOK, Q!TypeOK
    <2>8. WorkersPlaces' /\ Cancelling'
      BY <1>1, <2>1, <2>3, PlacesKept, CancellingKept DEF QueueSide, wvars, kvars
    <2> QED  BY <2>2, <2>6, <2>7, <2>8 DEF QueueSide
  <1>3. CASE Q!AddRefused(t) /\ creation' = [creation EXCEPT ![t] = "refused"]
    <2>1. UNCHANGED <<tasks, taskMap, runningTaskMap, closed, cancelled, held, found>> /\ Q!TypeOK'
      BY <1>1, <1>3, RefuseChanges
    <2>2. TypeOK'
      BY <1>1, <1>3, <2>1 DEF TypeOK, wvars, kvars, rvars
    <2>3. Accepted \subseteq Accepted'
      BY <1>1, <1>3 DEF Accepted, TypeOK
    <2> QED
      BY <1>1, <2>1, <2>2, <2>3, OwnersKept, EntriesKept, PlacesKept, CancellingKept DEF QueueSide, wvars, kvars
  <1> QED  BY <1>2, <1>3 DEF AddTask

LEMMA AnnounceSide == \A t \in Tasks : QueueSide /\ (EmitQueued(t) \/ DeleteTask(t)) => QueueSide'
  <1> SUFFICES ASSUME NEW t \in Tasks, QueueSide, EmitQueued(t) \/ DeleteTask(t)  PROVE QueueSide'
    OBVIOUS
  <1>1. TypeOK  BY DEF QueueSide
  <1>2. /\ \/ creation[t] = "added" /\ creation' = [creation EXCEPT ![t] = "announced"]
           \/ creation[t] = "refused" /\ creation' = [creation EXCEPT ![t] = "deleted"]
        /\ rec' = [rec EXCEPT ![t] = Stored(t, Origin(t))] \/ rec' = [rec EXCEPT ![t] = None]
        /\ UNCHANGED <<qvars, main, wvars, kvars, sent>>
    BY DEF EmitQueued, DeleteTask
  <1>3. Stored(t, Origin(t)) \in Records
    BY <1>1, RecordOf, OriginIsSource DEF Stored, NewRecord, Records, Status
  <1>4. TypeOK'
    <2>1. rec' \in [Tasks -> Records \cup {None}]
      BY <1>1, <1>2, <1>3 DEF TypeOK
    <2>2. creation' \in [Tasks -> {"new", "registered", "added", "announced", "refused", "deleted"}]
      <3>1. PICK p \in {"announced", "deleted"} : creation' = [creation EXCEPT ![t] = p]
        BY <1>2
      <3>2. creation \in [Tasks -> {"new", "registered", "added", "announced", "refused", "deleted"}]
        BY <1>1 DEF TypeOK
      <3> QED  BY <3>1, <3>2
    <2> QED  BY <1>1, <1>2, <2>1, <2>2, QueueTypesKept DEF TypeOK, wvars, kvars
  <1>5. Accepted \subseteq Accepted'
    BY <1>1, <1>2 DEF Accepted, TypeOK
  <1> QED  BY <1>2, <1>4, <1>5, SideKept DEF wvars, kvars

(* A worker's step that leaves the queue alone. *)
LEMMA WorkerSide ==
  ASSUME QueueSide, NEW w \in Workers, NEW p, Goto(w, p), wpc[w] # "idle", p # "idle", held[w] # None <=> p \in Holding,
         UNCHANGED <<qvars, main, creation, semaphore, kvars>>, TypeOK'
  PROVE  QueueSide'
  <1>1. Accepted' = Accepted  BY DEF Accepted
  <1>2. WorkersPlaces'
    BY PlacesMoved DEF QueueSide, qvars
  <1> QED
    BY <1>1, <1>2, OwnersKept, EntriesKept, CancellingKept DEF QueueSide, qvars, kvars

LEMMA HeldIsTask ==
  ASSUME QueueSide, NEW w \in Workers, wpc[w] \in Holding
  PROVE  held[w] \in Tasks /\ held[w] # None /\ held[w] \in Accepted
  BY DEF QueueSide, WorkersPlaces, Owners, TypeOK, Q!TypeOK

LEMMA AcquireSide == \A w \in Workers : QueueSide /\ Acquire(w) => QueueSide'
  <1> SUFFICES ASSUME NEW w \in Workers, QueueSide, Acquire(w)  PROVE QueueSide'
    OBVIOUS
  <1>1. /\ TypeOK /\ wpc[w] = "idle" /\ semaphore < Cardinality(Workers) /\ semaphore' = semaphore + 1
        /\ wpc' = [wpc EXCEPT ![w] = "get"]
        /\ UNCHANGED <<qvars, main, creation, outcome, straggler, kvars, rvars>>
    BY DEF QueueSide, Acquire, Goto
  <1>2. Cardinality(Workers) \in Nat  BY FS_CardinalityType
  <1>3. Q!TypeOK' /\ semaphore' \in 0 .. Cardinality(Workers)
    BY <1>1, <1>2, QueueTypesKept DEF TypeOK
  <1>4. TypeOK'
    BY <1>1, <1>3 DEF TypeOK, kvars, rvars
  <1>5. Busy' = Busy \cup {w} /\ w \notin Busy
    BY <1>1 DEF Busy, TypeOK
  <1>6. Cardinality(Busy') = Cardinality(Busy) + 1
    BY <1>5, BusyFinite, FS_AddElement
  <1>7. \A v \in Workers : held'[v] # None <=> wpc'[v] \in Holding
    BY <1>1 DEF QueueSide, WorkersPlaces, Holding, TypeOK, qvars
  <1>8. WorkersPlaces'
    BY <1>1, <1>6, <1>7 DEF QueueSide, WorkersPlaces
  <1>9. Accepted' = Accepted  BY <1>1 DEF Accepted
  <1> QED
    BY <1>1, <1>4, <1>8, <1>9, OwnersKept, EntriesKept, CancellingKept DEF QueueSide, qvars, kvars

LEMMA ReleaseSide == \A w \in Workers : QueueSide /\ Release(w) => QueueSide'
  <1> SUFFICES ASSUME NEW w \in Workers, QueueSide, Release(w)  PROVE QueueSide'
    OBVIOUS
  <1>1. /\ TypeOK /\ wpc[w] = "release" /\ semaphore' = semaphore - 1
        /\ wpc' = [wpc EXCEPT ![w] = "idle"]
        /\ UNCHANGED <<qvars, main, creation, outcome, straggler, kvars, rvars>>
    BY DEF QueueSide, Release, Goto
  <1>2. Busy' = Busy \ {w} /\ w \in Busy
    BY <1>1 DEF Busy, TypeOK
  <1>3. Cardinality(Busy') = Cardinality(Busy) - 1
    BY <1>2, BusyFinite, FS_RemoveElement
  <1>4. semaphore = Cardinality(Busy) /\ Cardinality(Busy') \in Nat /\ Cardinality(Busy') <= Cardinality(Workers)
    <2>1. Busy' \subseteq Workers  BY DEF Busy
    <2> QED  BY <2>1, FS_Subset, FS_CardinalityType DEF QueueSide, WorkersPlaces
  <1>5. Q!TypeOK' /\ semaphore' \in 0 .. Cardinality(Workers)
    BY <1>1, <1>3, <1>4, QueueTypesKept, FS_CardinalityType
  <1>6. TypeOK'
    BY <1>1, <1>5 DEF TypeOK, kvars, rvars
  <1>7. \A v \in Workers : held'[v] # None <=> wpc'[v] \in Holding
    BY <1>1 DEF QueueSide, WorkersPlaces, Holding, TypeOK, qvars
  <1>8. WorkersPlaces'
    BY <1>1, <1>3, <1>4, <1>7 DEF WorkersPlaces
  <1>9. Accepted' = Accepted  BY <1>1 DEF Accepted
  <1> QED
    BY <1>1, <1>6, <1>8, <1>9, OwnersKept, EntriesKept, CancellingKept DEF QueueSide, qvars, kvars

LEMMA GetSide == \A w \in Workers : QueueSide /\ Get(w) => QueueSide'
  <1> SUFFICES ASSUME NEW w \in Workers, QueueSide, Get(w)  PROVE QueueSide'
    OBVIOUS
  <1>1. TypeOK /\ wpc[w] = "get" /\ UNCHANGED <<main, creation, semaphore, outcome, straggler, kvars, rvars>>
    BY DEF QueueSide, Get
  <1>2. Accepted' = Accepted  BY <1>1 DEF Accepted
  <1>3. CASE Q!GetTask(w) /\ Goto(w, "start")
    <2>1. PICK k \in DOMAIN tasks :
           /\ k \in 1 .. Len(tasks) /\ tasks[k] \in Tasks /\ held[w] = None
           /\ tasks' = SubSeq(tasks, k + 1, Len(tasks))
           /\ \A i \in Tasks : taskMap'[i] \in {taskMap[i], None}
           /\ runningTaskMap' = [runningTaskMap EXCEPT ![tasks[k]] = tasks[k]]
           /\ held' = [held EXCEPT ![w] = tasks[k]]
           /\ UNCHANGED <<closed, cancelled, submitted, found>>
           /\ Q!TypeOK'
      BY <1>1, <1>3, TakeChanges
    <2>2. TypeOK'
      BY <1>1, <1>3, <2>1 DEF TypeOK, Goto, kvars, rvars
    <2>3. tasks \in Seq(Tasks) /\ Len(tasks) \in Nat  BY <1>1 DEF TypeOK, Q!TypeOK
    <2>4. \A j \in DOMAIN tasks' : j + k \in DOMAIN tasks /\ tasks'[j] = tasks[j + k] /\ j + k # k /\ j \in Nat
      BY <2>1, <2>3
    <2>5. held'[w] = tasks[k] /\ \A v \in Workers \ {w} : held'[v] = held[v]
      BY <1>1, <2>1 DEF TypeOK, Q!TypeOK
    <2>6. Owners'
      <3>1. \A i, j \in DOMAIN tasks' : tasks'[i] = tasks'[j] => i = j
        <4>1. \A i, j \in DOMAIN tasks : tasks[i] = tasks[j] => i = j
          BY DEF QueueSide, Owners
        <4> SUFFICES ASSUME NEW i \in DOMAIN tasks', NEW j \in DOMAIN tasks', tasks'[i] = tasks'[j] PROVE i = j
          OBVIOUS
        <4>2. i \in Nat /\ j \in Nat /\ i + k = j + k
          BY <2>4, <4>1
        <4>3. k \in Nat
          BY <2>1, <2>3
        <4> QED  BY <4>2, <4>3
      <3>2. \A v \in Workers, j \in DOMAIN tasks' : held'[v] # tasks'[j]
        BY <2>1, <2>4, <2>5 DEF QueueSide, Owners
      <3>3. \A u, v \in Workers : held'[u] = held'[v] /\ held'[u] # None => u = v
        BY <2>1, <2>5 DEF QueueSide, Owners
      <3>4. \A j \in DOMAIN tasks' : tasks'[j] \in Accepted'
        BY <1>2, <2>4 DEF QueueSide, Owners
      <3>5. \A v \in Workers : held'[v] # None => held'[v] \in Accepted'
        BY <1>2, <2>1, <2>5 DEF QueueSide, Owners
      <3> QED  BY <3>1, <3>2, <3>3, <3>4, <3>5 DEF Owners
    <2>7. OwnEntries'
      <3>1. tasks[k] \in Accepted  BY DEF QueueSide, Owners
      <3> QED  BY <1>1, <1>2, <2>1, <3>1 DEF QueueSide, OwnEntries, TypeOK, Q!TypeOK
    <2>8. WorkersPlaces'
      BY <1>1, <1>3, <2>1, <2>5, PlacesMoved DEF QueueSide, Holding
    <2> QED
      BY <1>1, <1>2, <2>1, <2>2, <2>6, <2>7, <2>8, CancellingKept DEF QueueSide, kvars
  <1>4. CASE \/ Q!GetWait(w) /\ UNCHANGED wpc
             \/ Q!GetClosed(w) /\ Goto(w, "exited")
    <2>1. /\ tasks' = <<>> /\ \A i \in Tasks : taskMap'[i] \in {taskMap[i], None}
          /\ UNCHANGED <<runningTaskMap, closed, cancelled, submitted, held, found>>
          /\ held[w] = None /\ Q!TypeOK'
      BY <1>1, <1>4, NothingChanges
    <2>2. TypeOK'
      BY <1>1, <1>4, <2>1 DEF TypeOK, Goto, kvars, rvars
    <2>3. Owners' /\ OwnEntries'
      BY <1>2, <2>1 DEF QueueSide, Owners, OwnEntries
    <2>4. WorkersPlaces'
      BY <1>1, <1>4, <2>1, PlacesMoved, PlacesKept DEF QueueSide, Holding
    <2> QED
      BY <1>1, <1>2, <2>1, <2>2, <2>3, <2>4, CancellingKept DEF QueueSide, kvars
  <1> QED  BY <1>3, <1>4 DEF Get

LEMMA ReportSide == \A w \in Workers : QueueSide /\ (EmitStart(w) \/ EmitProgress(w) \/ EmitDone(w)) => QueueSide'
  <1> SUFFICES ASSUME NEW w \in Workers, QueueSide, EmitStart(w) \/ EmitProgress(w) \/ EmitDone(w)  PROVE QueueSide'
    OBVIOUS
  <1>1. TypeOK /\ held[w] \in Tasks /\ held[w] # None
    BY HeldIsTask DEF QueueSide, EmitStart, EmitProgress, EmitDone, Holding
  <1>2. \E source \in Sources, stage \in Status : Emit(held[w], source, stage)
    <2>1. Origin(held[w]) \in Sources /\ "unknown" \in Sources /\ "running" \in Status
      BY <1>1, OriginIsSource DEF Sources, Status
    <2>2. StatusOf(outcome[held[w]]) \in Status
      BY DEF StatusOf, Status, Terminal
    <2> QED  BY <2>1, <2>2 DEF EmitStart, EmitProgress, EmitDone
  <1>3. rec' \in [Tasks -> Records \cup {None}]
    BY <1>1, <1>2, EmitChanges
  <1>4. PICK p \in {"execute", "notify", "remove"} : Goto(w, p) \/ (wpc' = wpc /\ wpc[w] = "execute" /\ p = "execute")
    <2>1. CASE EmitStart(w)     BY <2>1 DEF EmitStart
    <2>2. CASE EmitProgress(w)  BY <2>2 DEF EmitProgress, wvars
    <2>3. CASE EmitDone(w)
      <3> DEFINE p == IF Fires(Stored(held[w], Origin(held[w])), StatusOf(outcome[held[w]])) THEN "notify" ELSE "remove"
      <3>1. Goto(w, p) /\ p \in {"notify", "remove"}  BY <2>3 DEF EmitDone
      <3> QED  BY <3>1
    <2> QED  BY <2>1, <2>2, <2>3
  <1>5. UNCHANGED <<qvars, main, creation, semaphore, outcome, straggler, kvars, sent>> /\ wpc[w] # "idle"
    BY DEF EmitStart, EmitProgress, EmitDone, wvars
  <1>6. TypeOK'
    BY <1>1, <1>3, <1>4, <1>5, QueueTypesKept DEF TypeOK, Goto, kvars
  <1>7. Accepted' = Accepted  BY <1>5 DEF Accepted
  <1> QED  BY <1>1, <1>4, <1>5, <1>6, <1>7, WorkerSide, SideKept DEF Holding, kvars

LEMMA ExecuteSide == \A w \in Workers : QueueSide /\ (ExecuteReturns(w) \/ Notify(w)) => QueueSide'
  <1> SUFFICES ASSUME NEW w \in Workers, QueueSide, ExecuteReturns(w) \/ Notify(w)  PROVE QueueSide'
    OBVIOUS
  <1>1. TypeOK /\ held[w] \in Tasks /\ held[w] # None
    BY HeldIsTask DEF QueueSide, ExecuteReturns, Notify, Holding
  <1>2. PICK p \in {"done", "remove"} : Goto(w, p)
    BY DEF ExecuteReturns, Notify
  <1>3. UNCHANGED <<qvars, main, creation, semaphore, kvars, rec>> /\ wpc[w] # "idle"
    BY DEF ExecuteReturns, Notify, rvars
  <1>4. outcome' \in [Tasks -> Outcomes] /\ straggler' \in SUBSET CopyTasks
    BY <1>1 DEF ExecuteReturns, Notify, TypeOK
  <1>5. sent' \in [Tasks -> Seq(Status)]
    <2>1. CASE ExecuteReturns(w)  BY <1>1, <2>1 DEF ExecuteReturns, rvars, TypeOK
    <2>2. CASE Notify(w)
      <3>1. rec[held[w]] # None => rec[held[w]].status \in Status /\ sent[held[w]] \in Seq(Status)
        BY <1>1, RecordOf DEF Records, TypeOK
      <3>2. rec[held[w]] # None => Append(sent[held[w]], rec[held[w]].status) \in Seq(Status)
        BY <3>1
      <3> QED  BY <1>1, <2>2, <3>2 DEF Notify, TypeOK
    <2> QED  BY <2>1, <2>2
  <1>6. TypeOK'
    BY <1>1, <1>2, <1>3, <1>4, <1>5, QueueTypesKept DEF TypeOK, Goto, kvars
  <1> QED  BY <1>1, <1>2, <1>3, <1>6, WorkerSide DEF Holding

LEMMA DoneSide == \A w \in Workers : QueueSide /\ QueueDone(w) => QueueSide'
  <1> SUFFICES ASSUME NEW w \in Workers, QueueSide, QueueDone(w)  PROVE QueueSide'
    OBVIOUS
  <1>1. /\ TypeOK /\ wpc[w] = "remove" /\ Goto(w, "release") /\ Q!Done(w)
        /\ UNCHANGED <<main, creation, semaphore, outcome, straggler, kvars, rvars>>
    BY DEF QueueSide, QueueDone
  <1>2. /\ held[w] \in Tasks
        /\ taskMap' = [taskMap EXCEPT ![held[w]] = None]
        /\ runningTaskMap' = [runningTaskMap EXCEPT ![held[w]] = None]
        /\ held' = [held EXCEPT ![w] = None]
        /\ UNCHANGED <<tasks, closed, cancelled, submitted, getter, found>>
        /\ Q!TypeOK'
    BY <1>1, DoneChanges
  <1>3. TypeOK'
    BY <1>1, <1>2 DEF TypeOK, Goto, kvars, rvars
  <1>4. Accepted' = Accepted  BY <1>1 DEF Accepted
  <1>5. held'[w] = None /\ \A v \in Workers \ {w} : held'[v] = held[v]
    BY <1>1, <1>2 DEF TypeOK, Q!TypeOK
  <1>6. \A k \in DOMAIN tasks : tasks[k] \in Tasks
    BY <1>1 DEF TypeOK, Q!TypeOK
  <1>7. Owners'
    BY <1>2, <1>4, <1>5, <1>6 DEF QueueSide, Owners
  <1>8. OwnEntries'
    BY <1>1, <1>2, <1>4 DEF QueueSide, OwnEntries, TypeOK, Q!TypeOK
  <1>9. WorkersPlaces'
    BY <1>1, <1>5, PlacesMoved DEF QueueSide, Holding
  <1> QED
    BY <1>1, <1>2, <1>3, <1>4, <1>7, <1>8, <1>9, CancellingKept DEF QueueSide, kvars

LEMMA LateSide == \A t \in Tasks : QueueSide /\ (LateProgress(t) \/ CleanupExpired(t)) => QueueSide'
  <1> SUFFICES ASSUME NEW t \in Tasks, QueueSide, LateProgress(t) \/ CleanupExpired(t)  PROVE QueueSide'
    OBVIOUS
  <1>1. TypeOK /\ UNCHANGED <<qvars, main, creation, semaphore, wpc, outcome, kvars, sent>>
    BY DEF QueueSide, LateProgress, CleanupExpired, wvars
  <1>2. rec' \in [Tasks -> Records \cup {None}] /\ straggler' \in SUBSET CopyTasks
    <2>1. CASE LateProgress(t)
      <3>1. "unknown" \in Sources /\ "running" \in Status  BY DEF Sources, Status
      <3> QED  BY <1>1, <2>1, <3>1, EmitChanges DEF LateProgress, TypeOK
    <2>2. CASE CleanupExpired(t)  BY <1>1, <2>2 DEF CleanupExpired, TypeOK, wvars
    <2> QED  BY <2>1, <2>2
  <1>3. TypeOK'
    BY <1>1, <1>2, QueueTypesKept DEF TypeOK, kvars
  <1>4. Accepted' = Accepted  BY <1>1 DEF Accepted
  <1> QED  BY <1>1, <1>3, <1>4, SideKept DEF kvars

LEMMA RequestSide == \A c \in Callers, t \in Tasks : QueueSide /\ Request(c, t) => QueueSide'
  <1> SUFFICES ASSUME NEW c \in Callers, NEW t \in Tasks, QueueSide, Request(c, t)  PROVE QueueSide'
    OBVIOUS
  <1>1. /\ TypeOK /\ target' = [target EXCEPT ![c] = t] /\ kpc' = [kpc EXCEPT ![c] = "find"]
        /\ UNCHANGED <<qvars, main, creation, wvars, rvars>>
    BY DEF QueueSide, Request
  <1>2. TypeOK'
    BY <1>1, QueueTypesKept DEF TypeOK, wvars, rvars
  <1>3. Accepted' = Accepted  BY <1>1 DEF Accepted
  <1>4. Cancelling'
    BY <1>1, <1>3 DEF QueueSide, Cancelling, TypeOK, qvars
  <1> QED
    BY <1>1, <1>2, <1>3, <1>4, OwnersKept, EntriesKept, PlacesKept DEF QueueSide, qvars, wvars

LEMMA CancelSide == \A c \in Callers : QueueSide /\ Canceller(c) /\ (\A t \in Tasks : TaskSide(t)) => QueueSide'
  <1> SUFFICES ASSUME NEW c \in Callers, QueueSide, Canceller(c), \A t \in Tasks : TaskSide(t)  PROVE QueueSide'
    OBVIOUS
  <1>1. TypeOK /\ kpc[c] # "idle" /\ target[c] \in Tasks /\ UNCHANGED <<main, creation, wvars, target, sent>>
    BY DEF QueueSide, Cancelling, Canceller, CancelFind, CancelApply, EmitCancelled, UpdateStatus, rvars
  <1>2. Accepted' = Accepted  BY <1>1 DEF Accepted
  <1>3. CASE CancelFind(c) /\ Q!CancelFind(c, target[c]) /\ kpc' = [kpc EXCEPT ![c] = "apply"]
    <2>1. /\ found' = [found EXCEPT ![c] = target[c]] /\ target[c] \in Accepted
          /\ UNCHANGED <<tasks, taskMap, runningTaskMap, closed, cancelled, submitted, getter, held>>
          /\ Q!TypeOK'
      BY <1>1, <1>3, FindChanges DEF QueueSide
    <2>2. TypeOK'
      BY <1>1, <1>3, <2>1 DEF TypeOK, CancelFind, wvars, rvars
    <2>3. Cancelling'
      BY <1>1, <1>2, <1>3, <2>1 DEF QueueSide, Cancelling, TypeOK, Q!TypeOK
    <2> QED
      BY <1>1, <1>2, <2>1, <2>2, <2>3, OwnersKept, EntriesKept, PlacesKept DEF QueueSide, wvars
  <1>4. CASE CancelFind(c) /\ kpc' = [kpc EXCEPT ![c] = "over"] /\ UNCHANGED qvars
    <2>1. TypeOK'
      BY <1>1, <1>4, QueueTypesKept DEF TypeOK, CancelFind, wvars, rvars
    <2>2. Cancelling'
      BY <1>1, <1>2, <1>4 DEF QueueSide, Cancelling, TypeOK, qvars
    <2> QED
      BY <1>1, <1>2, <1>4, <2>1, <2>2, OwnersKept, EntriesKept, PlacesKept DEF QueueSide, wvars, qvars
  <1>5. CASE CancelApply(c)
    <2>1. /\ found' = [found EXCEPT ![c] = None] /\ cancelled' = cancelled \cup {found[c]}
          /\ UNCHANGED <<tasks, taskMap, runningTaskMap, closed, submitted, getter, held>>
          /\ Q!TypeOK' /\ kpc' = [kpc EXCEPT ![c] = "emit"] /\ kpc[c] = "apply"
      BY <1>1, <1>5, ApplyChanges DEF CancelApply
    <2>2. TypeOK'
      BY <1>1, <1>5, <2>1 DEF TypeOK, CancelApply, wvars, rvars
    <2>3. Cancelling'
      BY <1>1, <1>2, <2>1 DEF QueueSide, Cancelling, TypeOK, Q!TypeOK
    <2> QED
      BY <1>1, <1>2, <2>1, <2>2, <2>3, OwnersKept, EntriesKept, PlacesKept DEF QueueSide, wvars
  <1>6. CASE EmitCancelled(c) \/ UpdateStatus(c)
    <2>1. PICK p \in {"update", "over"} : kpc' = [kpc EXCEPT ![c] = p]
      BY <1>6 DEF EmitCancelled, UpdateStatus
    <2>2. UNCHANGED qvars /\ kpc[c] \in {"emit", "update"}
      BY <1>6 DEF EmitCancelled, UpdateStatus
    <2>3. rec' \in [Tasks -> Records \cup {None}]
      <3>1. CASE EmitCancelled(c)
        <4>1. "unknown" \in Sources /\ "cancelled" \in Status  BY DEF Sources, Status, Terminal
        <4> QED  BY <1>1, <3>1, <4>1, EmitChanges DEF EmitCancelled
      <3>2. CASE UpdateStatus(c)
        <4>1. rec[target[c]] \in Records
          BY <1>1, <3>2, RecordOf DEF TaskSide, ShownEnded, UpdateStatus
        <4>2. [rec[target[c]] EXCEPT !.status = "cancelled"] \in Records
          BY <4>1 DEF Records, Status, Terminal
        <4>3. rec' = [rec EXCEPT ![target[c]] = [rec[target[c]] EXCEPT !.status = "cancelled"]]
          BY <1>1, <3>2 DEF UpdateStatus, TypeOK
        <4> QED  BY <1>1, <4>2, <4>3 DEF TypeOK
      <3> QED  BY <1>6, <3>1, <3>2
    <2>4. TypeOK'
      BY <1>1, <2>1, <2>2, <2>3, QueueTypesKept DEF TypeOK, wvars
    <2>5. Cancelling'
      BY <1>1, <1>2, <2>1, <2>2 DEF QueueSide, Cancelling, TypeOK, qvars
    <2> QED
      BY <1>1, <1>2, <2>2, <2>4, <2>5, OwnersKept, EntriesKept, PlacesKept DEF QueueSide, wvars, qvars
  <1> QED  BY <1>3, <1>4, <1>5, <1>6 DEF Canceller, CancelFind

LEMMA StopSide ==
  ASSUME QueueSide, Stop \/ Close \/ \E t \in Tasks : ContextDone(t)
  PROVE  QueueSide'
  <1>1. TypeOK /\ UNCHANGED <<creation, wvars, kvars, rvars>> /\ Accepted' = Accepted
    BY DEF QueueSide, Stop, Close, ContextDone, Accepted
  <1>2. UNCHANGED <<tasks, taskMap, runningTaskMap, held, found>> /\ cancelled \subseteq cancelled' /\ Q!TypeOK'
    <2>1. CASE Stop   BY <1>1, <2>1, QueueTypesKept DEF Stop, qvars
    <2>2. CASE Close  BY <1>1, <2>2, CloseChanges DEF Close
    <2>3. CASE \E t \in Tasks : ContextDone(t)  BY <1>1, <2>3, ContextChanges DEF ContextDone
    <2> QED  BY <2>1, <2>2, <2>3
  <1>3. main' \in {"up", "stopping", "closed"}
    BY <1>1 DEF Stop, Close, ContextDone, TypeOK
  <1>4. TypeOK'
    BY <1>1, <1>2, <1>3 DEF TypeOK, wvars, kvars, rvars
  <1> QED
    BY <1>1, <1>2, <1>4, OwnersKept, EntriesKept, PlacesKept, CancellingKept DEF QueueSide, wvars, kvars
-----------------------------------------------------------------------------
(* A step leaves a task alone when neither its record, its outcome, its webhook, its creator nor the
   worker that has it is touched. It may drop out of the list, and it may be cancelled. *)
Untouched(u) ==
  /\ rec'[u] = rec[u] /\ outcome'[u] = outcome[u] /\ sent'[u] = sent[u] /\ creation'[u] = creation[u]
  /\ u \in cancelled => u \in cancelled'
  /\ u \in straggler' => u \in straggler
  /\ Queueing(u)' => Queueing(u)
  /\ \A w \in Workers : /\ held'[w] = u <=> held[w] = u
                        /\ held[w] = u => wpc'[w] = wpc[w]
  /\ \A c \in Callers : kpc'[c] = "update" /\ target'[c] = u => kpc[c] = "update" /\ target[c] = u

LEMMA UntouchedKept ==
  ASSUME NEW u \in Tasks, TaskSide(u), Untouched(u)
  PROVE  TaskSide(u)'
  <1>1. (u \in Accepted)' <=> u \in Accepted
    BY DEF Untouched, Accepted
  <1>2. \A P : At(u, P)' <=> At(u, P)
    BY DEF Untouched, At
  <1>3. ExecutedOnce(u)'
    BY <1>1, <1>2 DEF TaskSide, ExecutedOnce, Untouched, Unexecuted
  <1>4. Earned(u)'
    BY <1>2 DEF TaskSide, Earned, MayTell, Untouched
  <1>8. AsRegistered(u)'
    BY DEF TaskSide, AsRegistered, Untouched, NewRecord
  <1>5. Shown(u)'
    BY <1>2 DEF TaskSide, Shown, ShownAs, Untouched, Origin
  <1>6. RunningHeld(u)' <=> RunningHeld(u)
    BY DEF RunningHeld, Untouched
  <1>7. ShownEnded(u)'
    BY <1>2, <1>6 DEF TaskSide, ShownEnded, Untouched
  <1> QED  BY <1>3, <1>4, <1>5, <1>7, <1>8 DEF TaskSide

(* A task that the queue has not taken in is with nobody. *)
LEMMA NotAccepted ==
  ASSUME QueueSide, NEW t \in Tasks, t \notin Accepted
  PROVE  /\ ~Queueing(t) /\ \A w \in Workers : held[w] # t
         /\ \A c \in Callers : kpc[c] # "update" \/ target[c] # t
  BY DEF QueueSide, Owners, Cancelling, Queueing

(* A task that a worker has is with nobody else. *)
LEMMA HeldAlone ==
  ASSUME QueueSide, NEW t \in Tasks, NEW w \in Workers, held[w] = t
  PROVE  /\ ~Queueing(t) /\ \A v \in Workers : held[v] = t <=> v = w
         /\ t \in Accepted
  BY DEF QueueSide, Owners, Queueing

-----------------------------------------------------------------------------
LEMMA RegisterTasks ==
  ASSUME RunnerInv, NEW t \in Tasks, Register(t)
  PROVE  \A u \in Tasks : TaskSide(u)'
  <1>1. /\ creation[t] = "new" /\ t \in ApiTasks
        /\ creation' = [creation EXCEPT ![t] = "registered"]
        /\ rec' = [rec EXCEPT ![t] = [NewRecord("api") EXCEPT !.hook = t \in HookTasks]]
        /\ UNCHANGED <<tasks, cancelled, held, outcome, straggler, wpc, kpc, target, sent>>
    BY DEF Register, qvars, wvars, kvars
  <1>2. TypeOK /\ TaskSide(t) /\ QueueSide /\ t \notin Accepted
    BY <1>1 DEF RunnerInv, QueueSide, Accepted
  <1>3. ~Queueing(t) /\ (\A w \in Workers : held[w] # t) /\ (\A c \in Callers : kpc[c] # "update" \/ target[c] # t)
    BY <1>2, NotAccepted
  <1>4. /\ rec'[t] = [NewRecord("api") EXCEPT !.hook = t \in HookTasks] /\ creation'[t] = "registered"
        /\ \A u \in Tasks \ {t} : rec'[u] = rec[u] /\ creation'[u] = creation[u]
    BY <1>1, <1>2 DEF TypeOK
  <1>5. \A u \in Tasks \ {t} : TaskSide(u)'
    <2> TAKE u \in Tasks \ {t}
    <2>1. Untouched(u)  BY <1>1, <1>4 DEF Untouched, Queueing
    <2> QED  BY <2>1, UntouchedKept DEF RunnerInv
  <1>6. TaskSide(t)'
    <2>1. ~Queueing(t)' /\ \A P : ~At(t, P)'
      BY <1>1, <1>3 DEF Queueing, At
    <2>2. ExecutedOnce(t)' /\ Earned(t)'
      BY <1>1, <1>2, <2>1 DEF TaskSide, ExecutedOnce, Unexecuted, Earned
    <2>3. rec'[t] \in Records /\ rec'[t].status = "queued" /\ rec'[t].hook = (t \in HookTasks)
      BY <1>4, RegisteredRecord, Zenon
    <2>4. AsRegistered(t)'
      <3>1. rec'[t].hook => t \in HookTasks  BY <2>3, Zenon
      <3>2. ([NewRecord("api") EXCEPT !.hook = t \in HookTasks])' = [NewRecord("api") EXCEPT !.hook = t \in HookTasks]
        BY DEF NewRecord
      <3> QED  BY <1>1, <1>4, <3>1, <3>2 DEF AsRegistered
    <2>5. Shown(t)' /\ ShownEnded(t)'
      BY <1>1, <1>3, <2>1, <2>3 DEF Shown, ShownEnded, RunningHeld
    <2> QED  BY <2>2, <2>4, <2>5 DEF TaskSide
  <1> QED  BY <1>5, <1>6

LEMMA AddTasks ==
  ASSUME RunnerInv, QueueSide', NEW t \in Tasks, AddTask(t)
  PROVE  \A u \in Tasks : TaskSide(u)'
  <1>1. /\ creation[t] = IF t \in ApiTasks THEN "registered" ELSE "new"
        /\ UNCHANGED <<outcome, straggler, wpc, kpc, target, rec, sent>>
    BY DEF AddTask, ReadyToAdd, wvars, kvars, rvars
  <1>2. TypeOK /\ TaskSide(t) /\ QueueSide /\ t \notin Accepted
    BY <1>1 DEF RunnerInv, QueueSide, Accepted
  <1>3. ~Queueing(t) /\ (\A w \in Workers : held[w] # t) /\ (\A c \in Callers : kpc[c] # "update" \/ target[c] # t)
    BY <1>2, NotAccepted
  <1>4. Unexecuted(t) /\ t \notin straggler
    BY <1>2 DEF TaskSide, ExecutedOnce, Unexecuted
  <1>5. CASE Q!AddAccepted(t) /\ creation' = [creation EXCEPT ![t] = "added"]
    <2>1. tasks' = Append(tasks, t) /\ UNCHANGED <<cancelled, held>>
      BY <1>2, <1>5, AddChanges
    <2>2. tasks \in Seq(Tasks)  BY <1>2 DEF TypeOK, Q!TypeOK
    <2>3. \A u \in Tasks \ {t} : Queueing(u)' => Queueing(u)
      BY <2>1, <2>2 DEF Queueing
    <2>4. creation'[t] = "added" /\ \A u \in Tasks \ {t} : creation'[u] = creation[u]
      BY <1>2, <1>5 DEF TypeOK
    <2>5. \A u \in Tasks \ {t} : TaskSide(u)'
      <3> TAKE u \in Tasks \ {t}
      <3>1. Untouched(u)  BY <1>1, <2>1, <2>3, <2>4 DEF Untouched
      <3> QED  BY <3>1, UntouchedKept DEF RunnerInv
    <2>6. TaskSide(t)'
      <3>1. \A P : ~At(t, P)'  BY <1>1, <1>3, <2>1 DEF At
      <3>2. ExecutedOnce(t)' /\ Earned(t)'
        BY <1>1, <1>4, <3>1 DEF ExecutedOnce, Unexecuted, Earned
      <3>3. rec[t] = None \/ ShownAs(t, "queued")
        BY <1>1, <1>2, RegisteredRecord DEF TaskSide, AsRegistered, ShownAs, Origin
      <3>4. AsRegistered(t)'
        BY <1>1, <1>2, <2>4 DEF TaskSide, AsRegistered
      <3>5. Shown(t)'
        BY <1>1, <2>4, <3>1, <3>3 DEF Shown, ShownAs, Origin
      <3>6. ShownEnded(t)'
        BY <1>1, <1>3, <3>1, <3>3 DEF ShownEnded, RunningHeld, ShownAs
      <3> QED  BY <3>2, <3>4, <3>5, <3>6 DEF TaskSide
    <2> QED  BY <2>5, <2>6
  <1>6. CASE Q!AddRefused(t) /\ creation' = [creation EXCEPT ![t] = "refused"]
    <2>1. UNCHANGED <<tasks, cancelled, held>>
      BY <1>2, <1>6, RefuseChanges
    <2>2. creation'[t] = "refused" /\ \A u \in Tasks \ {t} : creation'[u] = creation[u]
      BY <1>2, <1>6 DEF TypeOK
    <2>3. \A u \in Tasks \ {t} : TaskSide(u)'
      <3> TAKE u \in Tasks \ {t}
      <3>1. Untouched(u)  BY <1>1, <2>1, <2>2 DEF Untouched, Queueing
      <3> QED  BY <3>1, UntouchedKept DEF RunnerInv
    <2>4. TaskSide(t)'
      <3>1. ~Queueing(t)' /\ \A P : ~At(t, P)'  BY <1>1, <1>3, <2>1 DEF At, Queueing
      <3>2. ExecutedOnce(t)' /\ Earned(t)'
        BY <1>1, <1>4, <3>1 DEF ExecutedOnce, Unexecuted, Earned
      <3>3. AsRegistered(t)'
        BY <1>1, <1>2, <2>2 DEF TaskSide, AsRegistered
      <3>4. Shown(t)'
        BY <3>1 DEF Shown
      <3>5. rec[t] = None \/ rec[t].status = "queued"
        BY <1>1, <1>2, RegisteredRecord DEF TaskSide, AsRegistered
      <3>6. ShownEnded(t)'
        BY <1>1, <1>3, <3>1, <3>5 DEF ShownEnded, RunningHeld
      <3> QED  BY <3>2, <3>3, <3>4, <3>6 DEF TaskSide
    <2> QED  BY <2>3, <2>4
  <1> QED  BY <1>5, <1>6 DEF AddTask

LEMMA AnnounceTasks ==
  ASSUME RunnerInv, NEW t \in Tasks, EmitQueued(t)
  PROVE  \A u \in Tasks : TaskSide(u)'
  <1>1. /\ creation[t] = "added" /\ creation' = [creation EXCEPT ![t] = "announced"]
        /\ rec' = [rec EXCEPT ![t] = Stored(t, Origin(t))]
        /\ UNCHANGED <<tasks, cancelled, held, outcome, straggler, wpc, kpc, target, sent>>
    BY DEF EmitQueued, qvars, wvars, kvars
  <1>2. TypeOK /\ TaskSide(t) /\ QueueSide /\ t \in Accepted
    BY <1>1 DEF RunnerInv, QueueSide, Accepted
  <1>3. /\ creation'[t] = "announced" /\ rec'[t] = Stored(t, Origin(t))
        /\ \A u \in Tasks \ {t} : rec'[u] = rec[u] /\ creation'[u] = creation[u]
    BY <1>1, <1>2 DEF TypeOK
  <1>4. \A u \in Tasks \ {t} : TaskSide(u)'
    <2> TAKE u \in Tasks \ {t}
    <2>1. Untouched(u)  BY <1>1, <1>3 DEF Untouched, Queueing
    <2> QED  BY <2>1, UntouchedKept DEF RunnerInv
  <1>5. TaskSide(t)'
    <2>1. /\ Queueing(t)' <=> Queueing(t)
          /\ \A P : At(t, P)' <=> At(t, P)
          /\ (t \in Accepted)'
      BY <1>1, <1>3 DEF Queueing, At, Accepted
    <2>2. /\ rec'[t] # None
          /\ rec[t] = None => rec'[t].status = "queued" /\ rec'[t].source = Origin(t) /\ ~rec'[t].hook
          /\ rec[t] # None => rec'[t] = rec[t]
      <3> DEFINE n == NewRecord(Origin(t))
      <3>1. n \in Records /\ n # None
        <4>1. n \in Records  BY OriginIsSource DEF NewRecord, Records, Status
        <4> QED  BY <4>1
      <3>2. n.status = "queued" /\ n.source = Origin(t) /\ ~n.hook
        BY DEF NewRecord
      <3> HIDE DEF n
      <3>3. CASE rec[t] = None   BY <1>3, <3>1, <3>2, <3>3 DEF Stored, n
      <3>4. CASE rec[t] # None   BY <1>3, <3>4 DEF Stored
      <3> QED  BY <3>3, <3>4
    <2>8. ExecutedOnce(t)'
      BY <1>1, <1>2, <2>1 DEF TaskSide, ExecutedOnce, Unexecuted
    <2>9. Earned(t)'
      BY <1>1, <1>2, <2>1, <2>2 DEF TaskSide, Earned, MayTell
    <2>3. ExecutedOnce(t)' /\ Earned(t)'
      BY <2>8, <2>9
    <2>4. AsRegistered(t)'
      BY <1>2, <1>3, <2>2 DEF TaskSide, AsRegistered
    <2>5. Shown(t)'
      BY <1>1, <1>2, <2>1, <2>2 DEF TaskSide, Shown, ShownAs, Origin
    <2>6. RunningHeld(t) => RunningHeld(t)'
      BY <1>1, <2>2 DEF RunningHeld
    <2>7. ShownEnded(t)'
      BY <1>1, <1>2, <2>1, <2>2, <2>6 DEF TaskSide, ShownEnded
    <2> QED  BY <2>3, <2>4, <2>5, <2>7 DEF TaskSide
  <1> QED  BY <1>4, <1>5

LEMMA DeleteTasks ==
  ASSUME RunnerInv, NEW t \in Tasks, DeleteTask(t)
  PROVE  \A u \in Tasks : TaskSide(u)'
  <1>1. /\ creation[t] = "refused" /\ creation' = [creation EXCEPT ![t] = "deleted"]
        /\ rec' = [rec EXCEPT ![t] = None]
        /\ UNCHANGED <<tasks, cancelled, held, outcome, straggler, wpc, kpc, target, sent>>
    BY DEF DeleteTask, qvars, wvars, kvars
  <1>2. TypeOK /\ TaskSide(t) /\ QueueSide /\ t \notin Accepted
    BY <1>1 DEF RunnerInv, QueueSide, Accepted
  <1>3. ~Queueing(t) /\ (\A w \in Workers : held[w] # t) /\ (\A c \in Callers : kpc[c] # "update" \/ target[c] # t)
    BY <1>2, NotAccepted
  <1>4. /\ creation'[t] = "deleted" /\ rec'[t] = None
        /\ \A u \in Tasks \ {t} : rec'[u] = rec[u] /\ creation'[u] = creation[u]
    BY <1>1, <1>2 DEF TypeOK
  <1>5. \A u \in Tasks \ {t} : TaskSide(u)'
    <2> TAKE u \in Tasks \ {t}
    <2>1. Untouched(u)  BY <1>1, <1>4 DEF Untouched, Queueing
    <2> QED  BY <2>1, UntouchedKept DEF RunnerInv
  <1>6. TaskSide(t)'
    <2>1. ~Queueing(t)' /\ \A P : ~At(t, P)'
      BY <1>1, <1>3 DEF Queueing, At
    <2>2. ExecutedOnce(t)' /\ Earned(t)'
      BY <1>1, <1>2, <2>1 DEF TaskSide, ExecutedOnce, Unexecuted, Earned
    <2>3. AsRegistered(t)' /\ Shown(t)' /\ ShownEnded(t)'
      BY <1>1, <1>3, <1>4, <2>1 DEF AsRegistered, Shown, ShownEnded, RunningHeld
    <2> QED  BY <2>2, <2>3 DEF TaskSide
  <1> QED  BY <1>5, <1>6
-----------------------------------------------------------------------------
(* Steps of a worker that touch only the task it has. *)
LEMMA OnlyHolder ==
  ASSUME QueueSide, NEW w \in Workers, NEW t \in Tasks, held[w] = t, NEW p, Goto(w, p) \/ (wpc' = wpc /\ wpc[w] = p),
         UNCHANGED <<tasks, held>>
  PROVE  /\ ~Queueing(t)' /\ \A P : At(t, P)' <=> p \in P
         /\ \A P : At(t, P) <=> wpc[w] \in P
         /\ \A v \in Workers : held[v] # t => wpc'[v] = wpc[v]
  <1>1. ~Queueing(t) /\ \A v \in Workers : held[v] = t <=> v = w
    BY HeldAlone
  <1>2. wpc'[w] = p /\ \A v \in Workers \ {w} : wpc'[v] = wpc[v]
    BY DEF Goto, QueueSide, TypeOK
  <1>3. ~Queueing(t)'
    BY <1>1 DEF Queueing
  <1>4. \A P : At(t, P)' <=> p \in P
    BY <1>1, <1>2 DEF At
  <1>5. \A P : At(t, P) <=> wpc[w] \in P
    BY <1>1 DEF At
  <1> QED  BY <1>1, <1>2, <1>3, <1>4, <1>5

LEMMA ReportTasks ==
  ASSUME RunnerInv, NEW w \in Workers, NEW t \in Tasks, held[w] = t, NEW source \in {Origin(t), "unknown"},
         Emit(t, source, "running"),
         \/ source = Origin(t) /\ wpc[w] = "start" /\ Goto(w, "execute")
         \/ wpc[w] = "execute" /\ wpc' = wpc,
         UNCHANGED <<tasks, cancelled, held, creation, outcome, straggler, kpc, target, sent>>
  PROVE  \A u \in Tasks : TaskSide(u)'
  <1>1. TypeOK /\ TaskSide(t) /\ QueueSide
    BY DEF RunnerInv, QueueSide
  <1>2. source \in Sources /\ "running" \in Status
    BY OriginIsSource DEF Sources, Status
  <1>3. /\ \A u \in Tasks \ {t} : rec'[u] = rec[u]
        /\ rec'[t] \in Records /\ rec'[t].status = "running"
        /\ rec[t] = None => rec'[t].source = source /\ ~rec'[t].hook
        /\ rec[t] # None => rec'[t].source = rec[t].source /\ rec'[t].hook = rec[t].hook
    BY <1>1, <1>2, EmitChanges
  <1>4. /\ ~Queueing(t)' /\ \A P : At(t, P)' <=> "execute" \in P
        /\ \A P : At(t, P) <=> wpc[w] \in P
        /\ \A v \in Workers : held[v] # t => wpc'[v] = wpc[v]
    BY <1>1, OnlyHolder
  <1>5. \A u \in Tasks \ {t} : TaskSide(u)'
    <2> TAKE u \in Tasks \ {t}
    <2>1. Untouched(u)  BY <1>3, <1>4 DEF Untouched, Queueing
    <2> QED  BY <2>1, UntouchedKept DEF RunnerInv
  <1>6. TaskSide(t)'
    <2>1. t \in Accepted /\ (t \in Accepted)'
      BY <1>1, HeldAlone DEF Accepted
    <2>2. Unexecuted(t)
      BY <1>1, <1>4 DEF TaskSide, ExecutedOnce
    <2>3. ExecutedOnce(t)' /\ Earned(t)'
      BY <1>1, <1>4, <2>1, <2>2 DEF TaskSide, ExecutedOnce, Unexecuted, Earned
    <2>4. AsRegistered(t)'
      BY <1>1, <1>3, <2>1 DEF TaskSide, AsRegistered, Accepted
    <2>5. t \notin cancelled => rec'[t].source = Origin(t)
      BY <1>1, <1>3, <1>4 DEF TaskSide, Shown, ShownAs
    <2>6. Shown(t)'
      BY <1>3, <1>4, <2>5 DEF Shown, ShownAs, Origin
    <2>7. ShownEnded(t)'
      BY <1>3, <1>4 DEF ShownEnded, RunningHeld
    <2> QED  BY <2>3, <2>4, <2>6, <2>7 DEF TaskSide
  <1> QED  BY <1>5, <1>6

LEMMA ExecuteTasks ==
  ASSUME RunnerInv, NEW w \in Workers, ExecuteReturns(w)
  PROVE  \A u \in Tasks : TaskSide(u)'
  <1>1. TypeOK /\ QueueSide /\ held[w] \in Tasks
    BY HeldIsTask DEF RunnerInv, QueueSide, ExecuteReturns, Holding
  <1>2. PICK t \in Tasks : held[w] = t
    BY <1>1
  <1>3. TaskSide(t) /\ wpc[w] = "execute" /\ Goto(w, "done")
        /\ UNCHANGED <<tasks, cancelled, held, creation, kpc, target, rec, sent>>
    BY DEF RunnerInv, ExecuteReturns, qvars, kvars, rvars
  <1>4. /\ outcome'[t] # "none" /\ \A u \in Tasks \ {t} : outcome'[u] = outcome[u]
        /\ straggler' \subseteq straggler \cup {t}
        /\ outcome'[t] = "ok" => straggler' = straggler
    BY <1>1, <1>2 DEF ExecuteReturns, TypeOK
  <1>5. /\ ~Queueing(t)' /\ \A P : At(t, P)' <=> "done" \in P
        /\ \A P : At(t, P) <=> wpc[w] \in P
        /\ \A v \in Workers : held[v] # t => wpc'[v] = wpc[v]
    BY <1>1, <1>2, <1>3, OnlyHolder
  <1>6. \A u \in Tasks \ {t} : TaskSide(u)'
    <2> TAKE u \in Tasks \ {t}
    <2>1. Untouched(u)  BY <1>3, <1>4, <1>5 DEF Untouched, Queueing
    <2> QED  BY <2>1, UntouchedKept DEF RunnerInv
  <1>7. TaskSide(t)'
    <2>1. t \in Accepted /\ (t \in Accepted)'
      BY <1>1, <1>2, <1>3, HeldAlone DEF Accepted
    <2>2. Unexecuted(t)
      BY <1>3, <1>5 DEF TaskSide, ExecutedOnce
    <2>3. ExecutedOnce(t)'
      BY <1>3, <1>4, <1>5, <2>1, <2>2 DEF ExecutedOnce, Unexecuted
    <2>7. t \notin straggler
      BY <1>3, <2>2 DEF TaskSide, ExecutedOnce, Unexecuted
    <2>8. Earned(t)'
      BY <1>3, <1>4, <1>5, <2>2, <2>7 DEF TaskSide, Unexecuted, Earned
    <2>4. AsRegistered(t)'
      BY <1>3 DEF TaskSide, AsRegistered
    <2>5. Shown(t)'
      BY <1>5 DEF Shown
    <2>6. ShownEnded(t)'
      BY <1>2, <1>3, <1>5 DEF TaskSide, ShownEnded, RunningHeld
    <2> QED  BY <2>3, <2>4, <2>5, <2>6, <2>8 DEF TaskSide
  <1> QED  BY <1>6, <1>7

LEMMA DoneTasks ==
  ASSUME RunnerInv, NEW w \in Workers, EmitDone(w)
  PROVE  \A u \in Tasks : TaskSide(u)'
  <1>1. TypeOK /\ QueueSide /\ held[w] \in Tasks
    BY HeldIsTask DEF RunnerInv, QueueSide, EmitDone, Holding
  <1>2. PICK t \in Tasks : held[w] = t
    BY <1>1
  <1> DEFINE s == StatusOf(outcome[t])
             fires == Fires(Stored(t, Origin(t)), s)
             p == IF fires THEN "notify" ELSE "remove"
  <1>3. /\ TaskSide(t) /\ wpc[w] = "done" /\ Goto(w, p) /\ Emit(t, Origin(t), s)
        /\ UNCHANGED <<tasks, cancelled, held, creation, outcome, straggler, kpc, target, sent>>
    BY <1>2 DEF RunnerInv, EmitDone, qvars, kvars
  <1>4. /\ ~Queueing(t)' /\ \A P : At(t, P)' <=> p \in P
        /\ \A P : At(t, P) <=> wpc[w] \in P
        /\ \A v \in Workers : held[v] # t => wpc'[v] = wpc[v]
    BY <1>1, <1>2, <1>3, OnlyHolder
  <1>5. outcome[t] # "none" /\ sent[t] = <<>>
    BY <1>3, <1>4 DEF TaskSide, ExecutedOnce
  <1>6. s \in Status \ {"running"} /\ (s \in {"completed", "failed"} => outcome[t] \in {"ok", "error"})
    BY <1>1, <1>5 DEF StatusOf, Status, Terminal, TypeOK, Outcomes
  <1>7. fires => s \in {"completed", "failed"} /\ t \in HookTasks
    <2>1. NewRecord(Origin(t)).hook = FALSE  BY DEF NewRecord
    <2> QED  BY <1>3, <2>1 DEF TaskSide, AsRegistered, Fires, Stored
  <1> HIDE DEF s, fires
  <1>8. Origin(t) \in Sources
    BY OriginIsSource
  <1>9. /\ \A u \in Tasks \ {t} : rec'[u] = rec[u]
        /\ rec'[t] \in Records /\ rec'[t].status = s
        /\ rec[t] = None => ~rec'[t].hook
        /\ rec[t] # None => rec'[t].hook = rec[t].hook
    BY <1>1, <1>3, <1>6, <1>8, EmitChanges
  <1>10. \A u \in Tasks \ {t} : TaskSide(u)'
    <2> TAKE u \in Tasks \ {t}
    <2>1. Untouched(u)  BY <1>3, <1>4, <1>9 DEF Untouched, Queueing
    <2> QED  BY <2>1, UntouchedKept DEF RunnerInv
  <1>11. TaskSide(t)'
    <2>1. t \in Accepted /\ (t \in Accepted)'
      BY <1>1, <1>2, <1>3, HeldAlone DEF Accepted
    <2>2. ExecutedOnce(t)'
      BY <1>3, <1>4, <1>5, <1>6, <1>7, <2>1 DEF ExecutedOnce, Unexecuted
    <2>6. rec'[t] # None /\ rec'[t].status = StatusOf(outcome'[t])
      BY <1>3, <1>9 DEF s
    <2>8. t \in straggler' => outcome'[t] # "ok"
      BY <1>3 DEF TaskSide, Earned
    <2>9. sent'[t] = <<>>
      BY <1>3, <1>5
    <2>7. Earned(t)'
      BY <2>6, <2>8, <2>9, Zenon DEF Earned, MayTell
    <2>3. AsRegistered(t)'
      BY <1>3, <1>9, <2>1 DEF TaskSide, AsRegistered, Accepted
    <2>4. Shown(t)'
      BY <1>4 DEF Shown
    <2>5. ShownEnded(t)'
      BY <1>3, <1>6, <1>9 DEF ShownEnded, RunningHeld
    <2> QED  BY <2>2, <2>3, <2>4, <2>5, <2>7 DEF TaskSide
  <1> QED  BY <1>10, <1>11

LEMMA NotifyTasks ==
  ASSUME RunnerInv, NEW w \in Workers, Notify(w)
  PROVE  \A u \in Tasks : TaskSide(u)'
  <1>1. TypeOK /\ QueueSide /\ held[w] \in Tasks
    BY HeldIsTask DEF RunnerInv, QueueSide, Notify, Holding
  <1>2. PICK t \in Tasks : held[w] = t
    BY <1>1
  <1>3. /\ TaskSide(t) /\ wpc[w] = "notify" /\ Goto(w, "remove")
        /\ UNCHANGED <<tasks, cancelled, held, creation, outcome, straggler, kpc, target, rec>>
    BY <1>2 DEF RunnerInv, Notify, qvars, kvars
  <1>4. /\ ~Queueing(t)' /\ \A P : At(t, P)' <=> "remove" \in P
        /\ \A P : At(t, P) <=> wpc[w] \in P
        /\ \A v \in Workers : held[v] # t => wpc'[v] = wpc[v]
    BY <1>1, <1>2, <1>3, OnlyHolder
  <1>5. outcome[t] \in {"ok", "error"} /\ sent[t] = <<>> /\ t \in HookTasks
    BY <1>3, <1>4 DEF TaskSide, ExecutedOnce
  <1>6. /\ \A u \in Tasks \ {t} : sent'[u] = sent[u]
        /\ sent'[t] = <<rec[t].status>> /\ rec[t].status \in Status /\ MayTell(t, rec[t].status)
    <2>1. rec[t] # None /\ rec[t] \in Records /\ MayTell(t, rec[t].status)
      BY <1>1, <1>3, <1>4 DEF TaskSide, Earned, TypeOK
    <2>2. sent \in [Tasks -> Seq(Status)] /\ sent' = [sent EXCEPT ![t] = Append(@, rec[t].status)]
      BY <1>1, <1>2, <2>1 DEF Notify, TypeOK
    <2>3. rec[t].status \in Status
      BY <2>1 DEF Records
    <2>4. \A s : Append(<<>>, s) = <<s>>
      OBVIOUS
    <2> QED  BY <1>5, <2>1, <2>2, <2>3, <2>4
  <1>7. \A u \in Tasks \ {t} : TaskSide(u)'
    <2> TAKE u \in Tasks \ {t}
    <2>1. Untouched(u)  BY <1>3, <1>4, <1>6 DEF Untouched, Queueing
    <2> QED  BY <2>1, UntouchedKept DEF RunnerInv
  <1>8. TaskSide(t)'
    <2>1. t \in Accepted /\ (t \in Accepted)'
      BY <1>1, <1>2, <1>3, HeldAlone DEF Accepted
    <2>2. ExecutedOnce(t)'
      BY <1>3, <1>4, <1>5, <1>6, <2>1 DEF ExecutedOnce, Unexecuted
    <2>6. Earned(t)'
      BY <1>3, <1>4, <1>5, <1>6 DEF TaskSide, Earned, MayTell
    <2>3. AsRegistered(t)'
      BY <1>3 DEF TaskSide, AsRegistered
    <2>4. Shown(t)'
      BY <1>4 DEF Shown
    <2>5. ShownEnded(t)'
      BY <1>3, <1>4 DEF TaskSide, ShownEnded, RunningHeld
    <2> QED  BY <2>2, <2>3, <2>4, <2>5, <2>6 DEF TaskSide
  <1> QED  BY <1>7, <1>8

LEMMA FinishTasks ==
  ASSUME RunnerInv, NEW w \in Workers, QueueDone(w)
  PROVE  \A u \in Tasks : TaskSide(u)'
  <1>1. /\ TypeOK /\ QueueSide /\ wpc[w] = "remove" /\ Goto(w, "release") /\ Q!Done(w)
        /\ UNCHANGED <<creation, outcome, straggler, kpc, target, rec, sent>>
    BY DEF RunnerInv, QueueSide, QueueDone, kvars, rvars
  <1>2. held[w] \in Tasks /\ held' = [held EXCEPT ![w] = None] /\ UNCHANGED <<tasks, cancelled>>
    BY <1>1, DoneChanges
  <1>3. PICK t \in Tasks : held[w] = t
    BY <1>2
  <1>4. ~Queueing(t) /\ \A v \in Workers : held[v] = t <=> v = w
    BY <1>1, <1>3, HeldAlone
  <1>5. held'[w] = None /\ \A v \in Workers \ {w} : held'[v] = held[v] /\ wpc'[v] = wpc[v]
    BY <1>1, <1>2 DEF TypeOK, Q!TypeOK, Goto
  <1>6. \A u \in Tasks \ {t} : TaskSide(u)'
    <2> TAKE u \in Tasks \ {t}
    <2>1. Untouched(u)  BY <1>1, <1>2, <1>3, <1>5 DEF Untouched, Queueing
    <2> QED  BY <2>1, UntouchedKept DEF RunnerInv
  <1>7. TaskSide(t)'
    <2>1. ~Queueing(t)' /\ \A P : ~At(t, P)'
      BY <1>2, <1>4, <1>5 DEF Queueing, At
    <2>2. t \in Accepted /\ (t \in Accepted)' /\ TaskSide(t)
      BY <1>1, <1>3, HeldAlone DEF Accepted, RunnerInv
    <2>3. ExecutedOnce(t)' /\ AsRegistered(t)' /\ Shown(t)'
      BY <1>1, <2>1, <2>2 DEF TaskSide, ExecutedOnce, AsRegistered, Shown
    <2>6. Earned(t)'
      BY <1>1, <1>2, <2>1, <2>2 DEF TaskSide, Earned, MayTell
    <2>4. t \notin CopyTasks /\ rec[t] # None => rec[t].status # "running"
      <3>1. At(t, {"notify", "remove"})  BY <1>1, <1>3 DEF At
      <3> QED  BY <2>2, <3>1 DEF TaskSide, ShownEnded
    <2>5. ShownEnded(t)'
      BY <1>1, <2>1, <2>2, <2>4 DEF TaskSide, ShownEnded, RunningHeld
    <2> QED  BY <2>2, <2>3, <2>5, <2>6 DEF TaskSide
  <1> QED  BY <1>6, <1>7

(* A step that touches no task at all. *)
LEMMA NoneTouched ==
  ASSUME RunnerInv, UNCHANGED <<creation, outcome, straggler, rec, sent, held>>, cancelled \subseteq cancelled',
         \A u \in Tasks : Queueing(u)' => Queueing(u),
         \A v \in Workers : held[v] \in Tasks => wpc'[v] = wpc[v],
         \A c \in Callers : kpc'[c] = "update" => kpc[c] = "update" /\ target'[c] = target[c]
  PROVE  \A u \in Tasks : TaskSide(u)'
  <1> TAKE u \in Tasks
  <1>1. Untouched(u)  BY DEF Untouched
  <1> QED  BY <1>1, UntouchedKept DEF RunnerInv

LEMMA TurnTasks ==
  ASSUME RunnerInv, NEW w \in Workers, Acquire(w) \/ Release(w)
  PROVE  \A u \in Tasks : TaskSide(u)'
  <1>1. PICK p \in {"get", "idle"} : Goto(w, p)
    BY DEF Acquire, Release
  <1>2. /\ TypeOK /\ wpc[w] \in {"idle", "release"} /\ held[w] = None
        /\ UNCHANGED <<qvars, creation, outcome, straggler, kvars, rvars>>
    BY DEF RunnerInv, QueueSide, WorkersPlaces, Holding, Acquire, Release
  <1>3. \A v \in Workers : held[v] \in Tasks => wpc'[v] = wpc[v]
    BY <1>1, <1>2 DEF Goto, TypeOK
  <1> QED  BY <1>2, <1>3, NoneTouched DEF qvars, kvars, rvars, Queueing

LEMMA GetTasks ==
  ASSUME RunnerInv, QueueSide', NEW w \in Workers, Get(w)
  PROVE  \A u \in Tasks : TaskSide(u)'
  <1>1. TypeOK /\ QueueSide /\ wpc[w] = "get" /\ UNCHANGED <<creation, outcome, straggler, kpc, target, rec, sent>>
    BY DEF RunnerInv, QueueSide, Get, kvars, rvars
  <1>2. CASE Q!GetTask(w) /\ Goto(w, "start")
    <2>1. PICK k \in DOMAIN tasks :
           /\ k \in 1 .. Len(tasks) /\ tasks[k] \in Tasks /\ held[w] = None
           /\ tasks' = SubSeq(tasks, k + 1, Len(tasks))
           /\ held' = [held EXCEPT ![w] = tasks[k]]
           /\ UNCHANGED cancelled
      BY <1>1, <1>2, TakeChanges
    <2>2. tasks \in Seq(Tasks) /\ Len(tasks) \in Nat  BY <1>1 DEF TypeOK, Q!TypeOK
    <2>3. \A u \in Tasks : Queueing(u)' => Queueing(u)
      <3>1. \A j \in DOMAIN tasks' : j + k \in DOMAIN tasks /\ tasks'[j] = tasks[j + k]
        BY <2>1, <2>2
      <3> QED  BY <3>1 DEF Queueing
    <2>4. PICK t \in Tasks : tasks[k] = t
      BY <2>1
    <2>5. /\ held'[w] = t /\ wpc'[w] = "start"
          /\ \A v \in Workers \ {w} : held'[v] = held[v] /\ wpc'[v] = wpc[v]
      BY <1>1, <1>2, <2>1, <2>4 DEF TypeOK, Q!TypeOK, Goto
    <2>6. Queueing(t) /\ TaskSide(t)
      BY <2>4 DEF Queueing, RunnerInv
    <2>7. ~Queueing(t)' /\ \A v \in Workers : held'[v] = t <=> v = w
      BY <2>5 DEF QueueSide, Owners, Queueing
    <2>8. \A u \in Tasks \ {t} : TaskSide(u)'
      <3> TAKE u \in Tasks \ {t}
      <3>1. Untouched(u)  BY <1>1, <2>1, <2>3, <2>5 DEF Untouched
      <3> QED  BY <3>1, UntouchedKept DEF RunnerInv
    <2>9. TaskSide(t)'
      <3>1. \A P : At(t, P)' <=> "start" \in P
        BY <2>5, <2>7 DEF At
      <3>2. t \in Accepted /\ (t \in Accepted)'
        BY <1>1, <2>4 DEF QueueSide, Owners, Accepted
      <3>3. Unexecuted(t)
        BY <2>6 DEF TaskSide, ExecutedOnce
      <3>4. ExecutedOnce(t)' /\ Earned(t)' /\ AsRegistered(t)'
        BY <1>1, <2>6, <2>7, <3>1, <3>2, <3>3 DEF TaskSide, ExecutedOnce, Unexecuted, Earned, AsRegistered
      <3>5. Shown(t)'
        BY <1>1, <2>1, <2>6, <2>7, <3>1 DEF TaskSide, Shown, ShownAs, Origin
      <3>6. ShownEnded(t)'
        BY <1>1, <2>5, <2>6, <3>1 DEF TaskSide, ShownEnded, RunningHeld
      <3> QED  BY <3>4, <3>5, <3>6 DEF TaskSide
    <2> QED  BY <2>8, <2>9
  <1>3. CASE \/ Q!GetWait(w) /\ UNCHANGED wpc
             \/ Q!GetClosed(w) /\ Goto(w, "exited")
    <2>1. tasks' = <<>> /\ UNCHANGED <<cancelled, held>> /\ held[w] = None
      BY <1>1, <1>3, NothingChanges
    <2>2. \A v \in Workers : held[v] \in Tasks => wpc'[v] = wpc[v]
      BY <1>1, <1>3, <2>1 DEF Goto, TypeOK
    <2>3. \A u \in Tasks : Queueing(u)' => Queueing(u)
      BY <2>1 DEF Queueing
    <2> QED  BY <1>1, <2>1, <2>2, <2>3, NoneTouched
  <1> QED  BY <1>2, <1>3 DEF Get

LEMMA LateTasks ==
  ASSUME RunnerInv, NEW t \in Tasks, LateProgress(t)
  PROVE  \A u \in Tasks : TaskSide(u)'
  <1>1. /\ TypeOK /\ TaskSide(t) /\ QueueSide /\ t \in straggler /\ straggler' = straggler \ {t}
        /\ Emit(t, "unknown", "running")
        /\ UNCHANGED <<tasks, cancelled, held, creation, wpc, outcome, kpc, target, sent>>
    BY DEF RunnerInv, QueueSide, LateProgress, qvars, kvars
  <1>2. "unknown" \in Sources /\ "running" \in Status
    BY DEF Sources, Status
  <1>3. /\ \A u \in Tasks \ {t} : rec'[u] = rec[u]
        /\ rec'[t] \in Records /\ rec'[t].status = "running"
        /\ rec[t] = None => ~rec'[t].hook
        /\ rec[t] # None => rec'[t].hook = rec[t].hook
    BY <1>1, <1>2, EmitChanges
  <1>4. \A u \in Tasks \ {t} : TaskSide(u)'
    <2> TAKE u \in Tasks \ {t}
    <2>1. Untouched(u)  BY <1>1, <1>3 DEF Untouched, Queueing
    <2> QED  BY <2>1, UntouchedKept DEF RunnerInv
  <1>5. TaskSide(t)'
    <2>1. /\ Queueing(t)' <=> Queueing(t)
          /\ \A P : At(t, P)' <=> At(t, P)
          /\ (t \in Accepted)' <=> t \in Accepted
      BY <1>1 DEF Queueing, At, Accepted
    <2>2. outcome[t] # "none" /\ t \in CopyTasks
      BY <1>1 DEF TaskSide, ExecutedOnce, TypeOK
    <2>3. t \in Accepted /\ ~Queueing(t) /\ ~At(t, {"start", "execute"})
      BY <1>1, <2>2 DEF TaskSide, ExecutedOnce, Unexecuted
    <2>4. ExecutedOnce(t)'
      BY <1>1, <2>1 DEF TaskSide, ExecutedOnce, Unexecuted
    <2>8. At(t, {"notify"}) => rec'[t] # None /\ outcome[t] = "error"
      BY <1>1, <1>3 DEF TaskSide, ExecutedOnce, Earned
    <2>9. Earned(t)'
      BY <1>1, <1>3, <2>1, <2>2, <2>8 DEF TaskSide, Earned, MayTell
    <2>5. AsRegistered(t)'
      BY <1>1, <1>3, <2>3 DEF TaskSide, AsRegistered, Accepted
    <2>6. ~At(t, {"start"}) /\ ~At(t, {"execute"})
      BY <2>3 DEF At
    <2>7. Shown(t)' /\ ShownEnded(t)'
      BY <1>3, <2>1, <2>2, <2>3, <2>6 DEF Shown, ShownEnded
    <2> QED  BY <2>4, <2>5, <2>7, <2>9 DEF TaskSide
  <1> QED  BY <1>4, <1>5

LEMMA CleanupTasks ==
  ASSUME RunnerInv, NEW t \in Tasks, CleanupExpired(t)
  PROVE  \A u \in Tasks : TaskSide(u)'
  <1>1. /\ TypeOK /\ TaskSide(t) /\ rec[t] # None /\ rec[t].status \in Terminal /\ rec' = [rec EXCEPT ![t] = None]
        /\ creation[t] = "announced"
        /\ \A w \in Workers : held[w] = t => wpc[w] = "execute"
        /\ \A c \in Callers : target[c] = t => kpc[c] = "over"
        /\ UNCHANGED <<tasks, cancelled, held, creation, wpc, outcome, straggler, kpc, target, sent>>
    BY DEF RunnerInv, QueueSide, CleanupExpired, Settled, Quiet, qvars, wvars, kvars
  <1>2. rec'[t] = None /\ \A u \in Tasks \ {t} : rec'[u] = rec[u]
    BY <1>1 DEF TypeOK
  <1>3. \A u \in Tasks \ {t} : TaskSide(u)'
    <2> TAKE u \in Tasks \ {t}
    <2>1. Untouched(u)  BY <1>1, <1>2 DEF Untouched, Queueing
    <2> QED  BY <2>1, UntouchedKept DEF RunnerInv
  <1>4. TaskSide(t)'
    <2>1. /\ Queueing(t)' <=> Queueing(t)
          /\ \A P : At(t, P)' <=> At(t, P)
          /\ (t \in Accepted)' <=> t \in Accepted
      BY <1>1 DEF Queueing, At, Accepted
    <2>2. ExecutedOnce(t)'
      BY <1>1, <2>1 DEF TaskSide, ExecutedOnce, Unexecuted
    <2>7. ~At(t, {"notify"})
      BY <1>1 DEF At
    <2>8. Earned(t)'
      BY <1>1, <2>1, <2>7 DEF TaskSide, Earned, MayTell
    <2>3. AsRegistered(t)'
      BY <1>1, <1>2 DEF AsRegistered
    <2>4. t \notin cancelled => ~Queueing(t) /\ ~At(t, {"execute"})
      BY <1>1 DEF TaskSide, Shown, ShownAs, Terminal
    <2>5. Shown(t)'
      BY <1>1, <1>2, <2>1, <2>4 DEF Shown
    <2>6. ShownEnded(t)'
      BY <1>1, <1>2 DEF ShownEnded, RunningHeld
    <2> QED  BY <2>2, <2>3, <2>5, <2>6, <2>8 DEF TaskSide
  <1> QED  BY <1>3, <1>4

LEMMA CancelledTasks ==
  ASSUME RunnerInv, NEW c \in Callers, EmitCancelled(c) \/ UpdateStatus(c)
  PROVE  \A u \in Tasks : TaskSide(u)'
  <1>1. /\ TypeOK /\ QueueSide /\ target[c] \in Tasks /\ target[c] \in Accepted /\ target[c] \in cancelled
        /\ UNCHANGED <<tasks, cancelled, held, creation, wpc, outcome, straggler, target, sent>>
    BY DEF RunnerInv, QueueSide, Cancelling, EmitCancelled, UpdateStatus, qvars, wvars
  <1>2. PICK t \in Tasks : target[c] = t
    BY <1>1
  <1>3. TaskSide(t) /\ \A d \in Callers : target[d] # t => kpc'[d] = kpc[d]
    BY <1>1, <1>2 DEF RunnerInv, EmitCancelled, UpdateStatus, TypeOK
  <1>4. /\ \A u \in Tasks \ {t} : rec'[u] = rec[u]
        /\ rec'[t] \in Records /\ rec'[t].status = "cancelled"
        /\ rec[t] = None => ~rec'[t].hook
        /\ rec[t] # None => rec'[t].hook = rec[t].hook
    <2>1. CASE EmitCancelled(c)
      <3>1. "unknown" \in Sources /\ "cancelled" \in Status  BY DEF Sources, Status, Terminal
      <3>2. Emit(t, "unknown", "cancelled")  BY <1>2, <2>1 DEF EmitCancelled
      <3> QED  BY <1>1, <3>1, <3>2, EmitChanges
    <2>2. CASE UpdateStatus(c)
      <3>1. rec[t] # None /\ rec[t] \in Records
        BY <1>1, <1>2, <1>3, <2>2, RecordOf DEF TaskSide, ShownEnded, UpdateStatus
      <3> DEFINE r == [rec[t] EXCEPT !.status = "cancelled"]
      <3>2. r \in Records /\ r.status = "cancelled" /\ r.hook = rec[t].hook
        BY <3>1 DEF Records, Status, Terminal
      <3>3. rec'[t] = r /\ \A u \in Tasks \ {t} : rec'[u] = rec[u]
        BY <1>1, <1>2, <2>2 DEF UpdateStatus, TypeOK
      <3> HIDE DEF r
      <3> QED  BY <3>1, <3>2, <3>3
    <2> QED  BY <2>1, <2>2
  <1>5. \A u \in Tasks \ {t} : TaskSide(u)'
    <2> TAKE u \in Tasks \ {t}
    <2>1. \A d \in Callers : kpc'[d] = "update" /\ target'[d] = u => kpc[d] = "update" /\ target[d] = u
      BY <1>1, <1>3
    <2>2. Untouched(u)  BY <1>1, <1>4, <2>1 DEF Untouched, Queueing
    <2> QED  BY <2>2, UntouchedKept DEF RunnerInv
  <1>6. TaskSide(t)'
    <2>1. /\ Queueing(t)' <=> Queueing(t)
          /\ \A P : At(t, P)' <=> At(t, P)
          /\ t \in Accepted /\ (t \in Accepted)'
      BY <1>1, <1>2 DEF Queueing, At, Accepted
    <2>2. ExecutedOnce(t)'
      BY <1>1, <1>3, <2>1 DEF TaskSide, ExecutedOnce, Unexecuted
    <2>5. Earned(t)'
      BY <1>1, <1>2, <1>3, <1>4, <2>1 DEF TaskSide, Earned, MayTell
    <2>3. AsRegistered(t)'
      BY <1>1, <1>3, <1>4, <2>1 DEF TaskSide, AsRegistered, Accepted
    <2>4. Shown(t)' /\ ShownEnded(t)'
      BY <1>1, <1>2, <1>4 DEF Shown, ShownEnded, RunningHeld
    <2> QED  BY <2>2, <2>3, <2>4, <2>5 DEF TaskSide
  <1> QED  BY <1>5, <1>6

LEMMA RequestTasks ==
  ASSUME RunnerInv, NEW c \in Callers, (\E t \in Tasks : Request(c, t)) \/ CancelFind(c) \/ CancelApply(c)
  PROVE  \A u \in Tasks : TaskSide(u)'
  <1>1. /\ TypeOK /\ OwnEntries
        /\ UNCHANGED <<creation, wvars, rvars>>
    BY DEF RunnerInv, QueueSide, Request, CancelFind, CancelApply
  <1>2. UNCHANGED <<tasks, held>> /\ cancelled \subseteq cancelled'
    <2>1. CASE \E t \in Tasks : Request(c, t)  BY <2>1 DEF Request, qvars
    <2>2. CASE CancelFind(c)
      <3>1. kpc[c] = "find" /\ target[c] \in Tasks
        BY <2>2 DEF CancelFind, RunnerInv, QueueSide, Cancelling
      <3> QED  BY <1>1, <2>2, <3>1, FindChanges DEF CancelFind, qvars
    <2>3. CASE CancelApply(c)  BY <1>1, <2>3, ApplyChanges DEF CancelApply
    <2> QED  BY <2>1, <2>2, <2>3
  <1>3. \A d \in Callers : kpc'[d] = "update" => kpc[d] = "update" /\ target'[d] = target[d]
    BY <1>1 DEF Request, CancelFind, CancelApply, TypeOK
  <1> QED  BY <1>1, <1>2, <1>3, NoneTouched DEF wvars, rvars, Queueing

LEMMA StopTasks ==
  ASSUME RunnerInv, Stop \/ Close \/ \E t \in Tasks : ContextDone(t)
  PROVE  \A u \in Tasks : TaskSide(u)'
  <1>1. TypeOK /\ UNCHANGED <<creation, wvars, kvars, rvars>>
    BY DEF RunnerInv, QueueSide, Stop, Close, ContextDone
  <1>2. UNCHANGED <<tasks, held>> /\ cancelled \subseteq cancelled'
    <2>1. CASE Stop   BY <2>1 DEF Stop, qvars
    <2>2. CASE Close  BY <1>1, <2>2, CloseChanges DEF Close
    <2>3. CASE \E t \in Tasks : ContextDone(t)  BY <1>1, <2>3, ContextChanges DEF ContextDone
    <2> QED  BY <2>1, <2>2, <2>3
  <1> QED  BY <1>1, <1>2, NoneTouched DEF wvars, kvars, rvars, Queueing

-----------------------------------------------------------------------------
(* Nothing is queued, held, recorded or asked for at the start. *)
LEMMA RunnerInit == Init => RunnerInv
  <1> SUFFICES ASSUME Init  PROVE RunnerInv
    OBVIOUS
  <1>1. Q!TypeOK
    <2>1. Q!Init  BY DEF Init
    <2>2. /\ tasks \in Seq(Tasks)
          /\ closed \in BOOLEAN
          /\ cancelled \in SUBSET Tasks /\ submitted \in SUBSET Tasks
      <3>1. tasks \in Seq(Tasks)  BY <2>1 DEF Q!Init
      <3>2. closed \in BOOLEAN    BY <2>1, Zenon DEF Q!Init
      <3>3. cancelled \in SUBSET Tasks /\ submitted \in SUBSET Tasks  BY <2>1 DEF Q!Init
      <3> QED  BY <3>1, <3>2, <3>3
    <2>3. /\ taskMap \in [Tasks -> Tasks \cup {None}] /\ runningTaskMap \in [Tasks -> Tasks \cup {None}]
          /\ held \in [Workers -> Tasks \cup {None}] /\ found \in [Callers -> Tasks \cup {None}]
      BY <2>1 DEF Q!Init
    <2>4. getter \in [Workers -> Q!GetterStates]
      BY <2>1 DEF Q!Init, Q!GetterStates
    <2> QED  BY <2>2, <2>3, <2>4 DEF Q!TypeOK
  <1>2. TypeOK
    <2>1. Cardinality(Workers) \in Nat  BY FS_CardinalityType
    <2>2. sent \in [Tasks -> Seq(Status)]  BY DEF Init
    <2> QED  BY <1>1, <2>1, <2>2 DEF Init, TypeOK, Outcomes
  <1>3. /\ tasks = <<>> /\ \A w \in Workers : held[w] = None
        /\ \A t \in Tasks : taskMap[t] = None /\ runningTaskMap[t] = None
    BY DEF Init, Q!Init
  <1>4. Owners /\ OwnEntries /\ Cancelling
    BY <1>3 DEF Init, Owners, OwnEntries, Cancelling
  <1>5. WorkersPlaces
    <2>1. Busy = {}  BY DEF Init, Busy
    <2> QED  BY <1>3, <2>1, FS_EmptySet DEF Init, WorkersPlaces, Holding
  <1>6. \A t \in Tasks : TaskSide(t)
    <2> TAKE t \in Tasks
    <2>1. ~Queueing(t) /\ \A P : ~At(t, P)  BY <1>3 DEF Queueing, At
    <2>2. rec[t] = None /\ outcome[t] = "none" /\ sent[t] = <<>> /\ t \notin straggler /\ creation[t] = "new"
          /\ \A c \in Callers : kpc[c] = "idle"
      BY DEF Init
    <2> QED
      BY <2>1, <2>2 DEF TaskSide, ExecutedOnce, Unexecuted, Earned, AsRegistered, Shown, ShownEnded, RunningHeld
  <1> QED  BY <1>2, <1>4, <1>5, <1>6 DEF RunnerInv, QueueSide

LEMMA CreatorStep ==
  ASSUME RunnerInv, NEW t \in Tasks, Creator(t) \/ LateProgress(t) \/ CleanupExpired(t) \/ ContextDone(t)
  PROVE  RunnerInv'
  <1> QueueSide  BY DEF RunnerInv
  <1>1. CASE Register(t)
    BY <1>1, RegisterSide, RegisterTasks DEF RunnerInv
  <1>2. CASE AddTask(t)
    <2>1. QueueSide'  BY <1>2, AddSide
    <2> QED  BY <1>2, <2>1, AddTasks DEF RunnerInv
  <1>3. CASE EmitQueued(t)
    BY <1>3, AnnounceSide, AnnounceTasks DEF RunnerInv
  <1>4. CASE DeleteTask(t)
    BY <1>4, AnnounceSide, DeleteTasks DEF RunnerInv
  <1>5. CASE LateProgress(t)
    BY <1>5, LateSide, LateTasks DEF RunnerInv
  <1>6. CASE CleanupExpired(t)
    BY <1>6, LateSide, CleanupTasks DEF RunnerInv
  <1>7. CASE ContextDone(t)
    BY <1>7, StopSide, StopTasks DEF RunnerInv
  <1> QED  BY <1>1, <1>2, <1>3, <1>4, <1>5, <1>6, <1>7 DEF Creator

LEMMA WorkerStep ==
  ASSUME RunnerInv, NEW w \in Workers, Worker(w) \/ EmitProgress(w)
  PROVE  RunnerInv'
  <1> QueueSide  BY DEF RunnerInv
  <1>1. CASE Acquire(w)
    BY <1>1, AcquireSide, TurnTasks DEF RunnerInv
  <1>2. CASE Get(w)
    <2>1. QueueSide'  BY <1>2, GetSide
    <2> QED  BY <1>2, <2>1, GetTasks DEF RunnerInv
  <1>3. CASE EmitStart(w) \/ EmitProgress(w)
    <2>1. held[w] \in Tasks
      BY <1>3, HeldIsTask DEF EmitStart, EmitProgress, Holding
    <2>2. PICK t \in Tasks : held[w] = t
      BY <2>1
    <2>3. UNCHANGED <<tasks, cancelled, held, creation, outcome, straggler, kpc, target, sent>>
      BY <1>3 DEF EmitStart, EmitProgress, qvars, wvars, kvars
    <2>4. PICK source \in {Origin(t), "unknown"} :
            /\ Emit(t, source, "running")
            /\ \/ source = Origin(t) /\ wpc[w] = "start" /\ Goto(w, "execute")
               \/ wpc[w] = "execute" /\ wpc' = wpc
      BY <1>3, <2>2 DEF EmitStart, EmitProgress, wvars
    <2>5. \A u \in Tasks : TaskSide(u)'
      BY <2>2, <2>3, <2>4, ReportTasks
    <2> QED  BY <1>3, <2>5, ReportSide DEF RunnerInv
  <1>4. CASE ExecuteReturns(w)
    BY <1>4, ExecuteSide, ExecuteTasks DEF RunnerInv
  <1>5. CASE EmitDone(w)
    BY <1>5, ReportSide, DoneTasks DEF RunnerInv
  <1>6. CASE Notify(w)
    BY <1>6, ExecuteSide, NotifyTasks DEF RunnerInv
  <1>7. CASE QueueDone(w)
    BY <1>7, DoneSide, FinishTasks DEF RunnerInv
  <1>8. CASE Release(w)
    BY <1>8, ReleaseSide, TurnTasks DEF RunnerInv
  <1> QED  BY <1>1, <1>2, <1>3, <1>4, <1>5, <1>6, <1>7, <1>8 DEF Worker

LEMMA CancellerStep ==
  ASSUME RunnerInv, NEW c \in Callers, Canceller(c) \/ \E t \in Tasks : Request(c, t)
  PROVE  RunnerInv'
  <1> QueueSide  BY DEF RunnerInv
  <1>1. QueueSide'
    BY CancelSide, RequestSide DEF RunnerInv
  <1>2. \A u \in Tasks : TaskSide(u)'
    <2>1. CASE EmitCancelled(c) \/ UpdateStatus(c)
      BY <2>1, CancelledTasks
    <2>2. CASE (\E t \in Tasks : Request(c, t)) \/ CancelFind(c) \/ CancelApply(c)
      BY <2>2, RequestTasks
    <2> QED  BY <2>1, <2>2 DEF Canceller
  <1> QED  BY <1>1, <1>2 DEF RunnerInv

LEMMA RunnerStep == RunnerInv /\ [Next]_vars => RunnerInv'
  <1> SUFFICES ASSUME RunnerInv, [Next]_vars  PROVE RunnerInv'
    OBVIOUS
  <1>1. CASE \E t \in Tasks : Creator(t) \/ LateProgress(t) \/ CleanupExpired(t) \/ ContextDone(t)
    BY <1>1, CreatorStep
  <1>2. CASE \E w \in Workers : Worker(w) \/ EmitProgress(w)
    BY <1>2, WorkerStep
  <1>3. CASE \E c \in Callers : Canceller(c) \/ \E t \in Tasks : Request(c, t)
    BY <1>3, CancellerStep
  <1>4. CASE Stop \/ Close
    BY <1>4, StopSide, StopTasks DEF RunnerInv
  <1>5. CASE UNCHANGED vars
    <2>1. UNCHANGED <<qvars, main, creation, semaphore, wpc, outcome, straggler, kpc, target, rec, sent>>
      BY <1>5 DEF vars, wvars, kvars, rvars
    <2>2. TypeOK'
      BY <2>1, QueueTypesKept DEF RunnerInv, QueueSide, TypeOK
    <2>3. QueueSide'
      BY <2>1, <2>2, SideKept DEF RunnerInv, Accepted
    <2>4. \A u \in Tasks : TaskSide(u)'
      BY <2>1, NoneTouched DEF qvars, Queueing
    <2> QED  BY <2>3, <2>4 DEF RunnerInv
  <1> QED  BY <1>1, <1>2, <1>3, <1>4, <1>5 DEF Next

(* What the strengthening says of each task gives what the records promise. *)
LEMMA RecordsFollow == RunnerInv => RecordsInv
  <1> SUFFICES ASSUME RunnerInv  PROVE RecordsInv
    OBVIOUS
  <1>1. TypeOK /\ \A t \in Tasks : TaskSide(t)
    BY DEF RunnerInv, QueueSide
  <1>2. WebhookEarned
    BY <1>1 DEF WebhookEarned, TaskSide, Earned
  <1>3. LiveShown
    BY <1>1 DEF LiveShown, TaskSide, Shown, ShownAs, Executing, At
  <1>4. RefusedForgotten
    BY <1>1 DEF RefusedForgotten, Refused, TaskSide, AsRegistered
  <1>5. RunningMeansExecuting
    BY <1>1 DEF RunningMeansExecuting, TaskSide, ShownEnded
  <1> QED  BY <1>1, <1>2, <1>3, <1>4, <1>5 DEF RecordsInv

(* Whatever order the events of creators, workers, copying goroutines and cancel requests come in, and *)
(* however many there are: the records are shown as they should be, and a webhook fires at most once.  *)
THEOREM RecordsKept == Spec => []RecordsInv
  BY RunnerInit, RunnerStep, RecordsFollow, PTL DEF Spec

-----------------------------------------------------------------------------
(* Every step of the runner is one of the queue or leaves it alone: a request cancels a task by the *)
(* identifier it was given, a worker finishes the task it got.                                      *)
LEMMA QueueStep == RunnerInv /\ [Next]_vars => [Q!Next]_(Q!qvars)
  <1> SUFFICES ASSUME RunnerInv, Next  PROVE Q!Next \/ UNCHANGED Q!qvars
    BY DEF vars, qvars, Q!qvars
  <1>1. CASE \E t \in Tasks : Creator(t) \/ LateProgress(t) \/ CleanupExpired(t) \/ ContextDone(t)
    <2>1. PICK t \in Tasks : Creator(t) \/ LateProgress(t) \/ CleanupExpired(t) \/ ContextDone(t)
      BY <1>1
    <2>2. CASE AddTask(t) \/ ContextDone(t)
      <3>1. Q!TaskStep(t)  BY <2>2 DEF AddTask, ContextDone, Q!TaskStep
      <3> QED  BY <3>1 DEF Q!Next
    <2>3. CASE Register(t) \/ EmitQueued(t) \/ DeleteTask(t) \/ LateProgress(t) \/ CleanupExpired(t)
      BY <2>3 DEF Register, EmitQueued, DeleteTask, LateProgress, CleanupExpired, qvars, Q!qvars
    <2> QED  BY <2>1, <2>2, <2>3 DEF Creator
  <1>2. CASE \E w \in Workers : Worker(w) \/ EmitProgress(w)
    <2>1. PICK w \in Workers : Worker(w) \/ EmitProgress(w)
      BY <1>2
    <2>2. CASE Get(w) \/ QueueDone(w)
      <3>1. Q!Get(w) \/ Q!Done(w)  BY <2>2 DEF Get, QueueDone, Q!Get
      <3> QED  BY <3>1 DEF Q!Next
    <2>3. CASE Acquire(w) \/ EmitStart(w) \/ EmitProgress(w) \/ ExecuteReturns(w) \/ EmitDone(w) \/ Notify(w) \/ Release(w)
      BY <2>3 DEF Acquire, EmitStart, EmitProgress, ExecuteReturns, EmitDone, Notify, Release, qvars, Q!qvars
    <2> QED  BY <2>1, <2>2, <2>3 DEF Worker
  <1>3. CASE \E c \in Callers : Canceller(c) \/ \E t \in Tasks : Request(c, t)
    <2>1. PICK c \in Callers : Canceller(c) \/ \E t \in Tasks : Request(c, t)
      BY <1>3
    <2>2. CASE CancelFind(c)
      <3>1. target[c] \in Tasks
        BY <2>2 DEF CancelFind, RunnerInv, QueueSide, Cancelling
      <3>2. CASE Q!CancelFind(c, target[c])  BY <3>1, <3>2 DEF Q!Next
      <3>3. CASE UNCHANGED qvars  BY <3>3 DEF qvars, Q!qvars
      <3> QED  BY <2>2, <3>2, <3>3 DEF CancelFind
    <2>3. CASE CancelApply(c)
      BY <2>3 DEF CancelApply, Q!Next
    <2>4. CASE EmitCancelled(c) \/ UpdateStatus(c) \/ \E t \in Tasks : Request(c, t)
      BY <2>4 DEF EmitCancelled, UpdateStatus, Request, qvars, Q!qvars
    <2> QED  BY <2>1, <2>2, <2>3, <2>4 DEF Canceller
  <1>4. CASE Stop
    BY <1>4 DEF Stop, qvars, Q!qvars
  <1>5. CASE Close
    BY <1>5 DEF Close, Q!Next
  <1> QED  BY <1>1, <1>2, <1>3, <1>4, <1>5 DEF Next

(* The runner uses the queue as TaskQueue lets any number of goroutines use it, so that what is proved *)
(* of the queue (TaskQueueProofs) holds in the runner.                                                 *)
THEOREM RunnerKeepsQueue == Spec => Q!Spec
  <1>1. Init => Q!Init  BY DEF Init
  <1> QED  BY <1>1, RunnerInit, RunnerStep, QueueStep, PTL DEF Spec, Q!Spec

-----------------------------------------------------------------------------
(* The requests that create tasks (ApiTask). *)
Stages == {"new", "gather", "album", "made", "registered", "created", "error"}

(* What a request has gathered, and only while it is at an album the client that read its message. *)
Formed(q) ==
  /\ q.pc \in Stages /\ (q.pc = "album" => q.rest # <<>>)
  /\ IF q.pc = "album" THEN q = [pc |-> q.pc, rest |-> q.rest, files |-> q.files, client |-> q.client]
                       ELSE q = [pc |-> q.pc, rest |-> q.rest, files |-> q.files]

(* Before it is registered a request has left no trace; from then on it has a record, and has what its *)
(* task is made of.                                                                                    *)
Traces(r) ==
  /\ request[r].pc \in {"new", "gather", "album", "made", "error"} => r \notin records \union queued
  /\ request[r].pc = "registered" => r \in records /\ r \notin queued
  /\ request[r].pc = "created" => r \in records /\ r \in queued
  /\ request[r].pc \in {"made", "registered", "created"} /\ Asked[r].type # "parseditem" => request[r].files # <<>>

(* The one link of a request is still to be read, or has brought its files or nothing; a request that *)
(* is at an album has read a message of it.                                                           *)
OneLink(r) ==
  Len(Asked[r].links) = 1 =>
    LET q == request[r]
        link == Asked[r].links[1]
    IN /\ (q.rest = Asked[r].links /\ q.files = <<>>) \/ (q.rest = <<>> /\ (q.files = <<>> \/ Brings(link, q.files, deleted)))
       /\ q.pc = "album" => /\ q.rest = Asked[r].links /\ Whole(link)
                            /\ q.client \in {"bot", "user"} /\ link.msg \in Sees[q.client]

NoLinks(r) == Asked[r].links = <<>> => request[r].rest = <<>>

RequestIInv ==
  /\ request = [r \in Ids |-> request[r]] /\ up \subseteq {"bot", "user"}
  /\ \A r \in Ids : Formed(request[r]) /\ Traces(r) /\ OneLink(r) /\ NoLinks(r)

LEMMA OneLinkOnly ==
  ASSUME NEW r \in Ids, Len(Asked[r].links) = 1
  PROVE  /\ Asked[r].links # <<>> /\ Asked[r].type = "tgfiles"
         /\ Head(Asked[r].links) = Asked[r].links[1] /\ Tail(Asked[r].links) = <<>>
  <1>1. PICK s \in Seq(Links) : s = Asked[r].links
    BY ApiTaskAssumption DEF ApiTaskAssumption
  <1>2. s # <<>> /\ Len(s) = 1
    BY <1>1, EmptySeq
  <1>3. Asked[r].type = "tgfiles"
    BY <1>1, <1>2, ApiTaskAssumption DEF ApiTaskAssumption
  <1>4. Tail(s) \in Seq(Links) /\ Len(Tail(s)) = 0 /\ Head(s) = s[1]
    BY <1>2, HeadTailProperties
  <1>5. Tail(s) = <<>>
    BY <1>4, EmptySeq
  <1> QED  BY <1>1, <1>2, <1>3, <1>4, <1>5

(* What is brought stays so, however many messages are deleted later. *)
LEMMA BroughtStays ==
  ASSUME NEW link, NEW fs, NEW gone, NEW more, gone \subseteq more, Brings(link, fs, gone)
  PROVE  Brings(link, fs, more)
  <1>1. \A c : Readings(c, link.msg, gone) \subseteq Readings(c, link.msg, more)
    BY DEF Readings
  <1> QED  BY <1>1 DEF Brings

LEMMA FilesAreSequences ==
  ASSUME NEW c, NEW msgs
  PROVE  <<>> \o FilesOf(c, msgs) = FilesOf(c, msgs) /\ <<>> \o <<>> = <<>>
  <1>1. IsFiniteSet(msgs \cap Files)
    BY ApiTaskAssumption, FS_Subset DEF ApiTaskAssumption
  <1>2. PICK n \in Nat : n = Cardinality(msgs \cap Files)
    BY <1>1, FS_CardinalityType
  <1> DEFINE S == {File(c, InOrder(msgs)[i]) : i \in 1 .. n}
  <1>3. FilesOf(c, msgs) \in Seq(S)
    <2>1. FilesOf(c, msgs) = [i \in 1 .. n |-> File(c, InOrder(msgs)[i])]
      BY <1>2 DEF FilesOf
    <2>2. \A i \in 1 .. n : File(c, InOrder(msgs)[i]) \in S
      OBVIOUS
    <2>3. FilesOf(c, msgs) \in [1 .. n -> S]
      BY <2>1, <2>2
    <2> HIDE DEF S
    <2>4. PICK fs : fs = FilesOf(c, msgs)
      OBVIOUS
    <2>5. \A k \in Nat : [1 .. k -> S] \subseteq Seq(S)
      BY SeqDef
    <2>6. fs \in Seq(S)
      BY <1>2, <2>3, <2>4, <2>5
    <2> QED  BY <2>4, <2>6
  <1>4. <<>> \in Seq(S)
    OBVIOUS
  <1> HIDE DEF S
  <1>5. \A s \in Seq(S) : <<>> \o s = s
    BY ConcatEmptySeq
  <1> QED  BY <1>3, <1>4, <1>5

LEMMA RequestsStart == RequestInit => RequestIInv
  <1> SUFFICES ASSUME RequestInit PROVE RequestIInv
    OBVIOUS
  <1>1. up \subseteq {"bot", "user"} /\ records = {} /\ queued = {}
        /\ request = [r \in Ids |-> [pc |-> "new", rest |-> Asked[r].links, files |-> <<>>]]
    BY DEF RequestInit
  <1>2. request = [r \in Ids |-> request[r]]
    BY <1>1
  <1>3. ASSUME NEW r \in Ids PROVE Formed(request[r]) /\ Traces(r) /\ OneLink(r) /\ NoLinks(r)
    <2>1. request[r] = [pc |-> "new", rest |-> Asked[r].links, files |-> <<>>]
      BY <1>1
    <2>2. request[r].pc = "new" /\ request[r].rest = Asked[r].links /\ request[r].files = <<>>
      BY <2>1
    <2>3. Formed(request[r])
      BY <2>1, <2>2 DEF Formed, Stages
    <2> QED  BY <1>1, <2>2, <2>3 DEF Traces, OneLink, NoLinks
  <1> QED  BY <1>1, <1>2, <1>3 DEF RequestIInv

(* One request moves from q to p; the records and tasks of the others stay. *)
LEMMA OneRequestMoves ==
  ASSUME RequestIInv, NEW r \in Ids, NEW p, Formed(p), request' = [request EXCEPT ![r] = p], UNCHANGED Outside,
         \A u \in Ids \ {r} : (u \in records' <=> u \in records) /\ (u \in queued' <=> u \in queued),
         Traces(r)', OneLink(r)', NoLinks(r)'
  PROVE  RequestIInv'
  <1>1. request' = [u \in Ids |-> request'[u]] /\ request'[r] = p
        /\ \A u \in Ids \ {r} : request'[u] = request[u]
    BY DEF RequestIInv
  <1>2. up' \subseteq {"bot", "user"}
    BY DEF RequestIInv, Outside
  <1>3. \A u \in Ids : Formed(request'[u])
    BY <1>1 DEF RequestIInv
  <1>4. \A u \in Ids \ {r} : Traces(u)' /\ OneLink(u)' /\ NoLinks(u)'
    BY <1>1 DEF RequestIInv, Traces, OneLink, NoLinks, Outside
  <1> QED  BY <1>1, <1>2, <1>3, <1>4 DEF RequestIInv

(* A request has a link before it, or the album behind it. *)
AtLink(r) == request[r].pc \in {"gather", "album"} /\ request[r].rest # <<>>

(* What the only link of a request may bring. *)
MayBring(r, fs) ==
  Len(Asked[r].links) = 1 /\ request[r].rest = Asked[r].links =>
    (fs = <<>> \/ Brings(Asked[r].links[1], fs, deleted)) /\ <<>> \o fs = fs

(* A link is passed: its files are what it brought, if it was the only one. *)
LEMMA LinkPassed ==
  ASSUME RequestIInv, NEW r \in Ids, NEW fs, NEW p, AtLink(r),
         p = Passed(request[r], fs), request' = [request EXCEPT ![r] = p], UNCHANGED <<Outside, records, queued>>,
         MayBring(r, fs)
  PROVE  RequestIInv'
  <1> DEFINE q == request[r]
  <1>1. p = [pc |-> "gather", rest |-> Tail(q.rest), files |-> q.files \o fs]
    BY DEF Passed
  <1>2. p.pc = "gather" /\ p.rest = Tail(q.rest) /\ p.files = q.files \o fs
    BY <1>1
  <1>3. Formed(p)
    BY <1>1, <1>2 DEF Formed, Stages
  <1>4. request'[r] = p /\ Traces(r) /\ OneLink(r) /\ NoLinks(r)
    BY DEF RequestIInv
  <1>5. Traces(r)'
    BY <1>2, <1>4 DEF Traces, AtLink
  <1>6. OneLink(r)'
    <2> SUFFICES ASSUME Len(Asked[r].links) = 1
                 PROVE  p.rest = <<>> /\ (p.files = <<>> \/ Brings(Asked[r].links[1], p.files, deleted))
      BY <1>2, <1>4 DEF OneLink, Outside
    <2>1. Asked[r].links # <<>> /\ Tail(Asked[r].links) = <<>>
      BY OneLinkOnly
    <2>2. q.rest = Asked[r].links /\ q.files = <<>>
      BY <1>4 DEF OneLink, AtLink
    <2> QED  BY <1>2, <2>1, <2>2 DEF MayBring
  <1>7. NoLinks(r)'
    <2> SUFFICES ASSUME Asked[r].links = <<>> PROVE FALSE
      BY DEF NoLinks
    <2> QED  BY <1>4 DEF NoLinks, AtLink
  <1> QED  BY <1>3, <1>5, <1>6, <1>7, OneRequestMoves

(* A request goes on to p with the files it has. *)
LEMMA StageMoves ==
  ASSUME RequestIInv, NEW r \in Ids, NEW p \in Stages \ {"album"}, Goes(r, p), UNCHANGED Outside,
         request[r].pc # "album",
         \A u \in Ids \ {r} : (u \in records' <=> u \in records) /\ (u \in queued' <=> u \in queued),
         p \in {"new", "gather", "album", "made", "error"} => r \notin records' \union queued',
         p = "registered" => r \in records' /\ r \notin queued',
         p = "created" => r \in records' /\ r \in queued',
         p \in {"made", "registered", "created"} /\ Asked[r].type # "parseditem" => request[r].files # <<>>
  PROVE  RequestIInv'
  <1> DEFINE q == request[r]
             moved == [q EXCEPT !.pc = p]
  <1>1. Formed(q) /\ OneLink(r) /\ NoLinks(r)
    BY DEF RequestIInv
  <1>2. q = [pc |-> q.pc, rest |-> q.rest, files |-> q.files]
    BY <1>1 DEF Formed
  <1>3. moved = [pc |-> p, rest |-> q.rest, files |-> q.files]
    BY <1>2
  <1>4. moved.pc = p /\ moved.rest = q.rest /\ moved.files = q.files
    BY <1>3
  <1>5. Formed(moved)
    BY <1>3, <1>4 DEF Formed
  <1>6. request' = [request EXCEPT ![r] = moved]
    BY DEF Goes
  <1>7. request'[r] = moved
    BY <1>6 DEF RequestIInv
  <1>8. Traces(r)' /\ OneLink(r)' /\ NoLinks(r)'
    BY <1>1, <1>4, <1>7 DEF Traces, OneLink, NoLinks, Outside
  <1> HIDE DEF moved
  <1> QED  BY <1>5, <1>6, <1>8, OneRequestMoves

LEMMA LinkReadKeeps ==
  ASSUME RequestIInv, NEW r \in Ids, ReadLink(r)
  PROVE  RequestIInv'
  <1> DEFINE q == request[r]
             link == Head(q.rest)
  <1>1. q.pc = "gather" /\ q.rest # <<>> /\ UNCHANGED <<Outside, records, queued>>
    BY DEF ReadLink
  <1>6. AtLink(r)
    BY <1>1 DEF AtLink
  <1>2. Len(Asked[r].links) = 1 /\ q.rest = Asked[r].links => link = Asked[r].links[1]
    BY OneLinkOnly
  <1>3. CASE request' = [request EXCEPT ![r] = Passed(q, <<>>)]
    <2>1. MayBring(r, <<>>)
      BY FilesAreSequences DEF MayBring
    <2>2. PICK p : p = Passed(request[r], <<>>)
      OBVIOUS
    <2>3. request' = [request EXCEPT ![r] = p]
      BY <1>3, <2>2
    <2> QED  BY <1>1, <1>6, <2>1, <2>2, <2>3, LinkPassed
  <1>4. ASSUME NEW c \in Readers(link.msg), ~Whole(link),
               request' = [request EXCEPT ![r] = Passed(q, FilesOf(c, {link.msg}))]
        PROVE  RequestIInv'
    <2>1. c \in {"bot", "user"} /\ link.msg \in Sees[c]
      BY <1>4 DEF Readers, RequestIInv
    <2>2. Brings(link, FilesOf(c, {link.msg}), deleted)
      BY <2>1 DEF Brings
    <2>4. PICK fs : fs = FilesOf(c, {link.msg})
      OBVIOUS
    <2>3. <<>> \o fs = fs
      BY <2>4, FilesAreSequences
    <2>5. PICK p : p = Passed(request[r], fs)
      OBVIOUS
    <2>6. request' = [request EXCEPT ![r] = p]
      BY <1>4, <2>4, <2>5
    <2>7. MayBring(r, fs)
      BY <1>2, <2>2, <2>3, <2>4 DEF MayBring
    <2> QED  BY <1>1, <1>6, <2>5, <2>6, <2>7, LinkPassed
  <1>5. ASSUME NEW c \in Readers(link.msg), Whole(link),
               request' = [request EXCEPT ![r] = [pc |-> "album", rest |-> q.rest, files |-> q.files, client |-> c]]
        PROVE  RequestIInv'
    <2> DEFINE p == [pc |-> "album", rest |-> q.rest, files |-> q.files, client |-> c]
    <2>1. p.pc = "album" /\ p.rest = q.rest /\ p.files = q.files /\ p.client = c
      OBVIOUS
    <2>2. c \in {"bot", "user"} /\ link.msg \in Sees[c]
      BY <1>5 DEF Readers, RequestIInv
    <2>3. Formed(p)
      BY <1>1, <2>1 DEF Formed, Stages
    <2>4. request'[r] = p /\ Traces(r) /\ OneLink(r) /\ NoLinks(r)
      BY <1>5 DEF RequestIInv
    <2>5. Traces(r)' /\ NoLinks(r)'
      BY <1>1, <2>1, <2>4 DEF Traces, NoLinks
    <2>6. Len(Asked[r].links) = 1 => q.rest = Asked[r].links
      BY <1>1, <2>4, OneLinkOnly DEF OneLink
    <2>7. OneLink(r)'
      BY <1>1, <1>2, <1>5, <2>1, <2>2, <2>4, <2>6 DEF OneLink, Outside
    <2> HIDE DEF p
    <2> QED  BY <1>1, <1>5, <2>3, <2>5, <2>7, OneRequestMoves DEF p
  <1> QED  BY <1>3, <1>4, <1>5 DEF ReadLink

LEMMA AlbumReadKeeps ==
  ASSUME RequestIInv, NEW r \in Ids, ReadAlbum(r)
  PROVE  RequestIInv'
  <1> DEFINE q == request[r]
             link == Head(q.rest)
             c == q.client
  <1>1. q.pc = "album" /\ UNCHANGED <<Outside, records, queued>> /\ OneLink(r)
    BY DEF ReadAlbum, RequestIInv
  <1>2. PICK got \in {{link.msg}} \union Readings(c, link.msg, deleted) :
          request' = [request EXCEPT ![r] = Passed(q, FilesOf(c, got))]
    BY DEF ReadAlbum
  <1>9. PICK fs : fs = FilesOf(c, got)
    OBVIOUS
  <1>3. <<>> \o fs = fs
    BY <1>9, FilesAreSequences
  <1>4. Len(Asked[r].links) = 1 =>
          /\ link = Asked[r].links[1] /\ Whole(link)
          /\ c \in {"bot", "user"} /\ link.msg \in Sees[c]
    BY <1>1, OneLinkOnly DEF OneLink
  <1>5. Len(Asked[r].links) = 1 => Brings(Asked[r].links[1], fs, deleted)
    BY <1>2, <1>4, <1>9 DEF Brings
  <1>6. PICK p : p = Passed(request[r], fs)
    OBVIOUS
  <1>7. request' = [request EXCEPT ![r] = p] /\ AtLink(r)
    BY <1>1, <1>2, <1>6, <1>9 DEF RequestIInv, Formed, AtLink
  <1>8. MayBring(r, fs)
    BY <1>3, <1>5 DEF MayBring
  <1> QED  BY <1>1, <1>6, <1>7, <1>8, LinkPassed

LEMMA FoundKeeps ==
  ASSUME RequestIInv, NEW r \in Ids, request[r].pc = "gather", Asked[r].type # "tgfiles", Found(r),
         UNCHANGED <<Outside, records, queued>>
  PROVE  RequestIInv'
  <1>1. PICK s \in Seq(Nat) : s = Asked[r].files
    BY ApiTaskAssumption DEF ApiTaskAssumption
  <1> DEFINE fs == [i \in 1 .. Len(s) |-> File("web", s[i])]
             p == [pc |-> "made", rest |-> <<>>, files |-> fs]
  <1>2. request' = [request EXCEPT ![r] = p] /\ (s # <<>> \/ Asked[r].type = "parseditem")
    BY <1>1 DEF Found
  <1>3. s # <<>> => fs # <<>>
    <2> SUFFICES ASSUME s # <<>> PROVE fs # <<>>
      OBVIOUS
    <2>1. Len(s) \in Nat /\ Len(s) # 0
      BY EmptySeq, LenProperties
    <2>2. 1 \in DOMAIN fs
      BY <2>1
    <2>3. DOMAIN <<>> = {}
      OBVIOUS
    <2> QED  BY <2>2, <2>3
  <1>4. p.pc = "made" /\ p.rest = <<>> /\ p.files = fs
    OBVIOUS
  <1>5. Formed(p)
    BY <1>4 DEF Formed, Stages
  <1>6. request'[r] = p /\ Traces(r)
    BY <1>2 DEF RequestIInv
  <1>7. Traces(r)'
    BY <1>2, <1>3, <1>4, <1>6 DEF Traces
  <1>8. OneLink(r)' /\ NoLinks(r)'
    BY <1>4, <1>6, OneLinkOnly DEF OneLink, NoLinks
  <1> HIDE DEF p
  <1> QED  BY <1>2, <1>5, <1>7, <1>8, OneRequestMoves

LEMMA RequestStep == RequestIInv /\ [ApiNext]_requestVars => RequestIInv'
  <1> SUFFICES ASSUME RequestIInv, [ApiNext]_requestVars PROVE RequestIInv'
    OBVIOUS
  <1>0. \A r \in Ids : Formed(request[r]) /\ Traces(r)
    BY DEF RequestIInv
  <1>1. ASSUME NEW r \in Ids, CreateTask(r) PROVE RequestIInv'
    <2>1. PICK p \in {"error", "gather"} : Goes(r, p)
      BY <1>1 DEF CreateTask
    <2>2. request[r].pc = "new" /\ UNCHANGED <<Outside, records, queued>>
      BY <1>1 DEF CreateTask
    <2> QED  BY <1>0, <2>1, <2>2, StageMoves DEF Traces, Stages
  <1>2. ASSUME NEW r \in Ids, ReadLink(r) \/ ReadAlbum(r) PROVE RequestIInv'
    BY <1>2, LinkReadKeeps, AlbumReadKeeps
  <1>3. ASSUME NEW r \in Ids, Gathered(r) PROVE RequestIInv'
    <2>1. PICK p \in {"error", "made"} : Goes(r, p) /\ (p = "made" => request[r].files # <<>>)
      BY <1>3 DEF Gathered
    <2>2. request[r].pc = "gather" /\ UNCHANGED <<Outside, records, queued>>
      BY <1>3 DEF Gathered
    <2> QED  BY <1>0, <2>1, <2>2, StageMoves DEF Traces, Stages
  <1>4. ASSUME NEW r \in Ids, TakeURLs(r) \/ AddURI(r) \/ Parse(r) \/ ListSource(r) PROVE RequestIInv'
    <2>1. request[r].pc = "gather" /\ Asked[r].type # "tgfiles" /\ Found(r) /\ UNCHANGED <<Outside, records, queued>>
      BY <1>4 DEF TakeURLs, AddURI, Parse, ListSource, GatheringFor
    <2> QED  BY <2>1, FoundKeeps
  <1>5. ASSUME NEW r \in Ids, GatherFails(r) PROVE RequestIInv'
    <2>1. request[r].pc = "gather" /\ Goes(r, "error") /\ UNCHANGED <<Outside, records, queued>>
      BY <1>5 DEF GatherFails, GatheringFor
    <2> QED  BY <1>0, <2>1, StageMoves DEF Traces, Stages
  <1>6. ASSUME NEW r \in Ids, RegisterTask(r) PROVE RequestIInv'
    <2>1. request[r].pc = "made" /\ Goes(r, "registered") /\ records' = records \union {r} /\ UNCHANGED <<Outside, queued>>
      BY <1>6 DEF RegisterTask
    <2> QED  BY <1>0, <2>1, StageMoves DEF Traces, Stages
  <1>7. ASSUME NEW r \in Ids, Enqueue(r) PROVE RequestIInv'
    <2>1. request[r].pc = "registered" /\ Goes(r, "created") /\ queued' = queued \union {r} /\ UNCHANGED <<Outside, records>>
      BY <1>7 DEF Enqueue
    <2> QED  BY <1>0, <2>1, StageMoves DEF Traces, Stages
  <1>8. ASSUME NEW r \in Ids, Unregister(r) PROVE RequestIInv'
    <2>1. request[r].pc = "registered" /\ Goes(r, "error") /\ records' = records \ {r} /\ UNCHANGED <<Outside, queued>>
      BY <1>8 DEF Unregister
    <2> QED  BY <1>0, <2>1, StageMoves DEF Traces, Stages
  <1>9. CASE World
    <2>1. UNCHANGED <<request, records, queued>> /\ up' \subseteq {"bot", "user"} /\ deleted \subseteq deleted'
      BY <1>9 DEF World, RequestIInv
    <2>2. \A r \in Ids : OneLink(r)'
      BY <2>1, BroughtStays DEF RequestIInv, OneLink
    <2> QED  BY <2>1, <2>2 DEF RequestIInv, Traces, NoLinks
  <1>10. CASE UNCHANGED requestVars
    BY <1>10 DEF requestVars, RequestIInv, Traces, OneLink, NoLinks
  <1> QED  BY <1>1, <1>2, <1>3, <1>4, <1>5, <1>6, <1>7, <1>8, <1>9, <1>10 DEF ApiNext

(* Whatever clients and storages do meanwhile, and whenever the queue closes: a request is answered      *)
(* with a task exactly when the task is in the queue and in the store, and with an error when it is in   *)
(* neither; and the files of a request for one link are the message alone or, in order, what one client  *)
(* sees of the album, missing none but deleted ones (factory.go:41-83, tgfiles.go:132-246).              *)
THEOREM AnswersTell == ApiSpec => []AnswerTells
  <1>1. ApiSpec => []RequestIInv
    BY RequestsStart, RequestStep, PTL DEF ApiSpec
  <1>2. RequestIInv => AnswerTells
    <2> SUFFICES ASSUME RequestIInv, NEW r \in Ids
                 PROVE  /\ request[r].pc = "created" => r \in records \cap queued
                        /\ request[r].pc = "created" /\ Asked[r].type # "parseditem" => request[r].files # <<>>
                        /\ request[r].pc = "error" => r \notin records \cup queued
                        /\ Len(Asked[r].links) = 1 /\ request[r].files # <<>> =>
                             Brings(Asked[r].links[1], request[r].files, deleted)
      BY DEF AnswerTells
    <2>1. Traces(r) /\ OneLink(r)
      BY DEF RequestIInv
    <2> QED  BY <2>1 DEF Traces, OneLink
  <1> QED  BY <1>1, <1>2, PTL

-----------------------------------------------------------------------------
(* The configuration file (ConfigFile). *)
Behind(original, line) ==
  IF IsPlaceholder(line) THEN [line EXCEPT !.value = SecretOf(original, line.value.redacted)] ELSE line

PageShape(p) ==
  /\ p = [text |-> p.text, meant |-> p.meant, stale |-> p.stale, edits |-> p.edits]
  /\ p.text \in Seq(Lines) /\ p.meant \in Seq(Lines) /\ Len(p.meant) = Len(p.text)

(* Behind every placeholder of a text is what its editor means there. *)
Stands(original, text, meant) == \A i \in 1 .. Len(text) : meant[i] = Behind(original, text[i])

(* A page that is not stale was read from the file as it is, and no save is under way. *)
PageTrue(e) ==
  page[e] # NoPage =>
    /\ PageShape(page[e])
    /\ page[e].stale \/ (Stands(disk, page[e].text, page[e].meant) /\ Idle)

ConfigIInv ==
  /\ disk # Torn => disk \in Seq(Lines)
  /\ writing # NoPage => mounted /\ writing.new \in Seq(Lines) /\ writing.old \in Seq(Lines)
  /\ TornOnlyMounted /\ SecretsStay
  /\ page = [e \in Editors |-> page[e]]
  /\ \A e \in Editors : PageTrue(e)

LEMMA TornIsNoText == Torn \notin Seq(Lines)
  <1> SUFFICES ASSUME Torn \in Seq(Lines) PROVE FALSE
    OBVIOUS
  <1>1. [kind |-> "torn"] \in Lines
    <2>1. Torn[1] = [kind |-> "torn"] /\ Len(Torn) = 1
      BY DEF Torn
    <2>2. Torn[1] \in Lines
      BY <2>1
    <2> QED  BY <2>1, <2>2
  <1>2. [kind |-> "torn"].kind = "torn"
    OBVIOUS
  <1>3. \A l \in Lines : l.kind \in {"table", "array", "key"}
    BY DEF Lines, Table, ArrayTable
  <1> QED  BY <1>1, <1>2, <1>3

LEMMA SecretLine ==
  ASSUME NEW l \in Lines, IsSensitive(l)
  PROVE  l = [kind |-> "key", key |-> "token", value |-> l.value]
  <1>1. l.kind = "key" /\ l.key = "token"
    BY DEF IsSensitive, IsKey
  <1>2. l \in [kind : {"key"}, key : {"token"}, value : SecretValues]
    BY <1>1 DEF Lines, Table, ArrayTable
  <1> QED  BY <1>1, <1>2

LEMMA RedactedLine ==
  ASSUME NEW l \in Lines, IsSensitive(l), NEW n \in Nat
  PROVE  LET r == [l EXCEPT !.value = Placeholder(n)]
         IN /\ r \in Lines /\ IsPlaceholder(r) /\ r.value.redacted = n
            /\ [r EXCEPT !.value = l.value] = l
  <1> DEFINE r == [l EXCEPT !.value = Placeholder(n)]
  <1>1. l = [kind |-> "key", key |-> "token", value |-> l.value]
    BY SecretLine
  <1>2. r = [kind |-> "key", key |-> "token", value |-> Placeholder(n)]
    BY <1>1
  <1>3. Placeholder(n) \in SecretValues /\ "redacted" \in DOMAIN Placeholder(n) /\ Placeholder(n).redacted = n
    BY DEF Placeholder, SecretValues
  <1>4. r \in Lines
    BY <1>2, <1>3 DEF Lines
  <1>5. r.kind = "key" /\ r.key = "token" /\ r.value = Placeholder(n)
    BY <1>2
  <1>6. IsPlaceholder(r)
    BY <1>3, <1>5 DEF IsPlaceholder, IsSensitive, IsKey
  <1>7. \A v, w : [[kind |-> "key", key |-> "token", value |-> v] EXCEPT !.value = w]
                   = [kind |-> "key", key |-> "token", value |-> w]
    OBVIOUS
  <1>8. [r EXCEPT !.value = l.value] = l
    <2> HIDE DEF r
    <2>1. [r EXCEPT !.value = l.value] = [[kind |-> "key", key |-> "token", value |-> Placeholder(n)] EXCEPT !.value = l.value]
      BY <1>2
    <2>2. @ = [kind |-> "key", key |-> "token", value |-> l.value]
      BY <1>7
    <2> QED  BY <1>1, <2>1, <2>2
  <1> HIDE DEF r
  <1>9. r.value.redacted = n
    BY <1>3, <1>5
  <1> QED  BY <1>4, <1>6, <1>8, <1>9 DEF r

(* Secrets have numbers of their own. *)
LEMMA NumbersApart ==
  ASSUME NEW text \in Seq(Lines), NEW i \in Secrets(text), NEW j \in Secrets(text), NumberOf(text, i) = NumberOf(text, j)
  PROVE  i = j
  <1> DEFINE Upto(k) == {l \in 1 .. k : IsSensitive(text[l])}
  <1>1. i \in Nat /\ j \in Nat /\ i \in 1 .. i /\ j \in 1 .. j /\ IsSensitive(text[i]) /\ IsSensitive(text[j])
    BY DEF Secrets
  <1>2. ASSUME NEW m \in Nat, NEW n \in Nat, m < n, n \in Upto(n)
        PROVE  Cardinality(Upto(m)) # Cardinality(Upto(n))
    <2>1. IsFiniteSet(Upto(n))
      <3>1. IsFiniteSet(1 .. n)
        BY FS_Interval
      <3> QED  BY <3>1, FS_Subset
    <2>2. Upto(m) \subseteq Upto(n) /\ n \notin Upto(m)
      BY <1>2
    <2> HIDE DEF Upto
    <2>3. Cardinality(Upto(n)) = Cardinality(Upto(m)) => Upto(n) = Upto(m)
      BY <2>1, <2>2, FS_Subset
    <2> QED  BY <1>2, <2>2, <2>3
  <1>3. i \in Upto(i) /\ j \in Upto(j) /\ Cardinality(Upto(i)) = Cardinality(Upto(j))
    BY <1>1 DEF NumberOf
  <1> HIDE DEF Upto
  <1>4. ~(i < j) /\ ~(j < i)
    BY <1>1, <1>2, <1>3
  <1> QED  BY <1>1, <1>4

LEMMA NumbersAreNumbers ==
  ASSUME NEW text, NEW i \in Nat
  PROVE  NumberOf(text, i) \in Nat
  <1>1. IsFiniteSet(1 .. i)
    BY FS_Interval
  <1>2. IsFiniteSet({j \in 1 .. i : IsSensitive(text[j])})
    BY <1>1, FS_Subset
  <1> QED  BY <1>2, FS_CardinalityType DEF NumberOf

(* Behind the placeholders of a page that was just read are the secrets of the file. *)
LEMMA RedactStands ==
  ASSUME NEW text \in Seq(Lines)
  PROVE  Redact(text) \in Seq(Lines) /\ Len(Redact(text)) = Len(text) /\ Stands(text, Redact(text), text)
  <1>1. ASSUME NEW i \in 1 .. Len(text)
        PROVE  Redact(text)[i] \in Lines /\ text[i] = Behind(text, Redact(text)[i])
    <2>1. text[i] \in Lines /\ i \in DOMAIN text /\ i \in Nat
      OBVIOUS
    <2>2. CASE IsSensitive(text[i])
      <3> DEFINE n == NumberOf(text, i)
                 r == [text[i] EXCEPT !.value = Placeholder(n)]
      <3>1. n \in Nat
        BY <2>1, NumbersAreNumbers
      <3>2. Redact(text)[i] = r
        BY <2>1, <2>2 DEF Redact
      <3>3. r \in Lines /\ IsPlaceholder(r) /\ r.value.redacted = n /\ [r EXCEPT !.value = text[i].value] = text[i]
        BY <2>1, <2>2, <3>1, RedactedLine
      <3>4. SecretOf(text, n) = text[i].value
        <4>1. i \in Secrets(text)
          BY <2>1, <2>2 DEF Secrets
        <4>2. \A j \in Secrets(text) : NumberOf(text, j) = n => j = i
          BY <4>1, NumbersApart
        <4>3. (CHOOSE j \in Secrets(text) : NumberOf(text, j) = n) = i
          BY <4>1, <4>2
        <4> QED  BY <4>3 DEF SecretOf
      <3> HIDE DEF r, n
      <3> QED  BY <3>2, <3>3, <3>4 DEF Behind
    <2>3. CASE ~IsSensitive(text[i])
      <3>1. Redact(text)[i] = text[i]
        BY <2>1, <2>3 DEF Redact
      <3> QED  BY <2>1, <2>3, <3>1 DEF Behind, IsPlaceholder
    <2> QED  BY <2>2, <2>3
  <1>2. Redact(text) = [i \in 1 .. Len(text) |-> Redact(text)[i]]
    BY DEF Redact
  <1>3. Len(text) \in Nat
    OBVIOUS
  <1>4. Redact(text) \in Seq(Lines) /\ Len(Redact(text)) = Len(text)
    BY <1>1, <1>2, <1>3
  <1> QED  BY <1>1, <1>4 DEF Stands

LEMMA Removed ==
  ASSUME NEW S, NEW s \in Seq(S), NEW i \in 1 .. Len(s)
  PROVE  /\ RemoveAt(s, i) \in Seq(S) /\ Len(RemoveAt(s, i)) = Len(s) - 1
         /\ \A j \in 1 .. Len(s) - 1 : RemoveAt(s, i)[j] = IF j < i THEN s[j] ELSE s[j + 1]
  <1> DEFINE u == SubSeq(s, 1, i - 1)
             v == SubSeq(s, i + 1, Len(s))
  <1>0. Len(s) \in Nat /\ i \in Nat /\ 1 <= i /\ i <= Len(s)
    OBVIOUS
  <1>1. u \in Seq(S) /\ Len(u) = i - 1 /\ \A j \in 1 .. i - 1 : u[j] = s[j]
    <2>1. \A j \in 1 .. i - 1 : s[j] \in S
      OBVIOUS
    <2>2. i - 1 \in Int /\ i - 1 - 1 + 1 = i - 1
      BY <1>0
    <2>3. u \in Seq(S) /\ Len(u) = (IF 1 <= i - 1 THEN i - 1 - 1 + 1 ELSE 0)
          /\ \A j \in 1 .. i - 1 - 1 + 1 : u[j] = s[1 + j - 1]
      BY <2>1, <2>2, SubSeqProperties
    <2> HIDE DEF u
    <2>4. \A j \in 1 .. i - 1 : 1 + j - 1 = j
      BY <1>0
    <2>5. Len(u) = i - 1
      BY <1>0, <2>3
    <2>6. \A j \in 1 .. i - 1 : u[j] = s[j]
      BY <2>2, <2>3, <2>4
    <2> QED  BY <2>3, <2>5, <2>6
  <1>2. v \in Seq(S) /\ Len(v) = Len(s) - i /\ \A j \in 1 .. Len(s) - i : v[j] = s[i + j]
    <2>1. \A j \in i + 1 .. Len(s) : s[j] \in S
      OBVIOUS
    <2>2. i + 1 \in Int /\ Len(s) \in Int
      BY <1>0
    <2>3. v \in Seq(S) /\ Len(v) = (IF i + 1 <= Len(s) THEN Len(s) - (i + 1) + 1 ELSE 0)
          /\ \A j \in 1 .. Len(s) - (i + 1) + 1 : v[j] = s[i + 1 + j - 1]
      BY <2>1, <2>2, SubSeqProperties
    <2> HIDE DEF v
    <2>4. Len(s) - (i + 1) + 1 = Len(s) - i /\ \A j \in 1 .. Len(s) - i : i + 1 + j - 1 = i + j
      BY <1>0
    <2>5. Len(v) = Len(s) - i
      BY <1>0, <2>3
    <2>6. \A j \in 1 .. Len(s) - i : v[j] = s[i + j]
      BY <2>3, <2>4
    <2> QED  BY <2>3, <2>5, <2>6
  <1> HIDE DEF u, v
  <1>3. u \o v \in Seq(S) /\ Len(u \o v) = Len(u) + Len(v)
        /\ \A j \in 1 .. Len(u) + Len(v) : (u \o v)[j] = IF j <= Len(u) THEN u[j] ELSE v[j - Len(u)]
    BY <1>1, <1>2, ConcatProperties
  <1>4. \A j \in 1 .. Len(s) - 1 : (u \o v)[j] = IF j < i THEN s[j] ELSE s[j + 1]
    <2> SUFFICES ASSUME NEW j \in 1 .. Len(s) - 1 PROVE (u \o v)[j] = IF j < i THEN s[j] ELSE s[j + 1]
      OBVIOUS
    <2>1. Len(s) \in Nat /\ i \in 1 .. Len(s)
      OBVIOUS
    <2>2. j \in 1 .. Len(u) + Len(v) /\ (j <= Len(u) <=> j < i)
      BY <1>1, <1>2, <2>1
    <2>3. CASE j < i
      BY <1>1, <1>3, <2>1, <2>2, <2>3
    <2>4. CASE ~(j < i)
      <3>1. j - Len(u) \in 1 .. Len(s) - i /\ i + (j - Len(u)) = j + 1
        BY <1>1, <2>1, <2>4
      <3>2. v[j - Len(u)] = s[i + (j - Len(u))]
        BY <1>2, <3>1
      <3> QED  BY <1>3, <2>2, <2>4, <3>1, <3>2
    <2> QED  BY <2>3, <2>4
  <1>5. RemoveAt(s, i) = u \o v
    BY DEF RemoveAt, u, v
  <1>6. Len(u) + Len(v) = Len(s) - 1
    BY <1>1, <1>2
  <1> QED  BY <1>3, <1>4, <1>5, <1>6

(* An edit leaves what is behind each line with the line. *)
LEMMA EditStands ==
  ASSUME NEW original, NEW text \in Seq(Lines), NEW meant \in Seq(Lines), Len(meant) = Len(text), NEW i \in 1 .. Len(text)
  PROVE  /\ RemoveAt(text, i) \in Seq(Lines) /\ RemoveAt(meant, i) \in Seq(Lines)
         /\ Len(RemoveAt(meant, i)) = Len(RemoveAt(text, i))
         /\ Stands(original, text, meant) => Stands(original, RemoveAt(text, i), RemoveAt(meant, i))
         /\ i < Len(text) =>
              /\ Exchanged(text, i) \in Seq(Lines) /\ Exchanged(meant, i) \in Seq(Lines)
              /\ Len(Exchanged(meant, i)) = Len(Exchanged(text, i))
              /\ Stands(original, text, meant) => Stands(original, Exchanged(text, i), Exchanged(meant, i))
  <1>1. /\ RemoveAt(text, i) \in Seq(Lines) /\ Len(RemoveAt(text, i)) = Len(text) - 1
        /\ \A j \in 1 .. Len(text) - 1 : RemoveAt(text, i)[j] = IF j < i THEN text[j] ELSE text[j + 1]
    BY Removed
  <1>2. /\ RemoveAt(meant, i) \in Seq(Lines) /\ Len(RemoveAt(meant, i)) = Len(meant) - 1
        /\ \A j \in 1 .. Len(meant) - 1 : RemoveAt(meant, i)[j] = IF j < i THEN meant[j] ELSE meant[j + 1]
    BY Removed
  <1>3. ASSUME Stands(original, text, meant) PROVE Stands(original, RemoveAt(text, i), RemoveAt(meant, i))
    <2>1. ASSUME NEW j \in 1 .. Len(text) - 1 PROVE RemoveAt(meant, i)[j] = Behind(original, RemoveAt(text, i)[j])
      <3>1. j \in 1 .. Len(text) /\ j + 1 \in 1 .. Len(text)
        OBVIOUS
      <3>2. meant[j] = Behind(original, text[j]) /\ meant[j + 1] = Behind(original, text[j + 1])
        BY <1>3, <3>1 DEF Stands
      <3>3. CASE j < i
        BY <1>1, <1>2, <3>2, <3>3
      <3>4. CASE ~(j < i)
        BY <1>1, <1>2, <3>2, <3>4
      <3> QED  BY <3>3, <3>4
    <2> QED  BY <1>1, <2>1 DEF Stands
  <1>4. ASSUME i < Len(text), NEW s \in Seq(Lines), Len(s) = Len(text)
        PROVE  /\ Exchanged(s, i) \in Seq(Lines) /\ Len(Exchanged(s, i)) = Len(text)
               /\ \A j \in 1 .. Len(text) :
                    Exchanged(s, i)[j] = IF j = i + 1 THEN s[i] ELSE IF j = i THEN s[i + 1] ELSE s[j]
    <2>1. i \in DOMAIN s /\ i + 1 \in DOMAIN s /\ DOMAIN s = 1 .. Len(text) /\ Len(text) \in Nat
      BY <1>4
    <2>2. s[i] \in Lines /\ s[i + 1] \in Lines
      BY <2>1
    <2> DEFINE t == [s EXCEPT ![i] = s[i + 1]]
    <2>3. t \in Seq(Lines) /\ Len(t) = Len(text) /\ \A j \in 1 .. Len(text) : t[j] = IF j = i THEN s[i + 1] ELSE s[j]
      BY <1>4, <2>1, <2>2
    <2>4. Exchanged(s, i) = [t EXCEPT ![i + 1] = s[i]]
      BY <2>1 DEF Exchanged
    <2> HIDE DEF t
    <2> QED  BY <2>1, <2>2, <2>3, <2>4
  <1>5. ASSUME i < Len(text), Stands(original, text, meant)
        PROVE  Stands(original, Exchanged(text, i), Exchanged(meant, i))
    <2>1. \A j \in 1 .. Len(text) : meant[j] = Behind(original, text[j])
      BY <1>5 DEF Stands
    <2>2. i + 1 \in 1 .. Len(text)
      BY <1>5
    <2>3. ASSUME NEW j \in 1 .. Len(text) PROVE Exchanged(meant, i)[j] = Behind(original, Exchanged(text, i)[j])
      <3>1. Exchanged(text, i)[j] = IF j = i + 1 THEN text[i] ELSE IF j = i THEN text[i + 1] ELSE text[j]
        BY <1>4, <1>5
      <3>2. Exchanged(meant, i)[j] = IF j = i + 1 THEN meant[i] ELSE IF j = i THEN meant[i + 1] ELSE meant[j]
        BY <1>4, <1>5
      <3> QED  BY <2>1, <2>2, <3>1, <3>2
    <2>4. Len(Exchanged(text, i)) = Len(text)
      BY <1>4, <1>5
    <2> QED  BY <2>3, <2>4 DEF Stands
  <1> QED  BY <1>1, <1>2, <1>3, <1>4, <1>5

(* A text saved from a page that is true is what its editor means. *)
LEMMA SavedAsMeant ==
  ASSUME NEW original, NEW text \in Seq(Lines), NEW meant \in Seq(Lines), Len(meant) = Len(text),
         Stands(original, text, meant)
  PROVE  PutBack(original, text) = meant
  <1>1. PutBack(original, text) = [i \in 1 .. Len(text) |-> Behind(original, text[i])]
    BY DEF PutBack, Behind
  <1>2. meant = [i \in 1 .. Len(text) |-> meant[i]]
    OBVIOUS
  <1> QED  BY <1>1, <1>2 DEF Stands

LEMMA ConfigStarts == ConfigInit => ConfigIInv
  <1> SUFFICES ASSUME ConfigInit PROVE ConfigIInv
    OBVIOUS
  <1>1. disk \in Seq(Lines)
    BY DEF ConfigInit, Valid
  <1>2. page = [e \in Editors |-> NoPage] /\ writing = NoPage /\ mixed = {}
    BY DEF ConfigInit
  <1>3. page = [e \in Editors |-> page[e]] /\ \A e \in Editors : page[e] = NoPage
    BY <1>2
  <1> QED  BY <1>1, <1>2, <1>3, TornIsNoText DEF ConfigIInv, TornOnlyMounted, SecretsStay, PageTrue

(* Every page that is open becomes stale by a save. *)
LEMMA StalePagesTrue ==
  ASSUME ConfigIInv, NEW e \in Editors, NEW p, p = OthersStale[e], p # NoPage
  PROVE  PageShape(p) /\ p.stale
  <1>1. page[e] # NoPage /\ p = [page[e] EXCEPT !.stale = TRUE]
    BY DEF OthersStale
  <1>2. PageShape(page[e])
    BY <1>1 DEF ConfigIInv, PageTrue
  <1>3. p = [text |-> page[e].text, meant |-> page[e].meant, stale |-> TRUE, edits |-> page[e].edits]
    BY <1>1, <1>2 DEF PageShape
  <1> QED  BY <1>2, <1>3 DEF PageShape

LEMMA SaveKeeps ==
  ASSUME ConfigIInv, Idle, NEW text \in Seq(Lines), ReplaceWith(text), UNCHANGED mounted,
         mixed' \subseteq {"changed file"},
         page' = [e \in Editors |-> page'[e]],
         \A e \in Editors : page'[e] = OthersStale[e] \/ page'[e] = NoPage
  PROVE  ConfigIInv'
  <1>1. ASSUME NEW e \in Editors PROVE PageTrue(e)'
    <2>1. CASE page'[e] = NoPage
      BY <2>1 DEF PageTrue
    <2>2. CASE page'[e] # NoPage
      <3>1. PICK p : p = page'[e]
        OBVIOUS
      <3>2. PageShape(p) /\ p.stale
        BY <2>2, <3>1, StalePagesTrue
      <3> QED  BY <3>1, <3>2 DEF PageTrue
    <2> QED  BY <2>1, <2>2
  <1>2. /\ (disk # Torn => disk \in Seq(Lines))'
        /\ (writing # NoPage => mounted /\ writing.new \in Seq(Lines) /\ writing.old \in Seq(Lines))'
        /\ TornOnlyMounted'
    <2>1. disk \in Seq(Lines) /\ writing = NoPage
      BY DEF ConfigIInv, Idle
    <2>2. CASE mounted
      <3>1. disk' = disk /\ writing' = [new |-> text, old |-> disk] /\ mounted'
        BY <2>2 DEF ReplaceWith
      <3>2. writing'.new = text /\ writing'.old = disk
        BY <3>1
      <3> QED  BY <2>1, <3>1, <3>2 DEF TornOnlyMounted
    <2>3. CASE ~mounted
      <3>1. disk' = text /\ writing' = writing
        BY <2>3 DEF ReplaceWith
      <3> QED  BY <2>1, <3>1, TornIsNoText DEF TornOnlyMounted
    <2> QED  BY <2>2, <2>3
  <1> QED  BY <1>1, <1>2 DEF ConfigIInv, SecretsStay

LEMMA ConfigStep == ConfigIInv /\ [ConfigNext]_fileVars => ConfigIInv'
  <1> SUFFICES ASSUME ConfigIInv, [ConfigNext]_fileVars PROVE ConfigIInv'
    OBVIOUS
  <1>1. ASSUME NEW e \in Editors, Read(e) PROVE ConfigIInv'
    <2> DEFINE p == [text |-> Redact(disk), meant |-> disk, stale |-> FALSE, edits |-> 0]
    <2>1. Idle /\ disk \in Seq(Lines) /\ page' = [page EXCEPT ![e] = p] /\ UNCHANGED <<disk, mounted, writing, saves, mixed>>
      BY <1>1 DEF Read, ConfigIInv, Idle
    <2>2. PageShape(p) /\ Stands(disk, p.text, p.meant)
      BY <2>1, RedactStands DEF PageShape
    <2>3. ASSUME NEW f \in Editors PROVE PageTrue(f)'
      <3>1. page'[e] = p /\ (f # e => page'[f] = page[f])
        BY <2>1 DEF ConfigIInv
      <3>2. Idle' <=> Idle
        BY <2>1 DEF Idle
      <3>3. PageTrue(f)
        BY DEF ConfigIInv
      <3> HIDE DEF p
      <3> QED  BY <2>1, <2>2, <3>1, <3>2, <3>3 DEF PageTrue
    <2>4. page' = [f \in Editors |-> page'[f]]
      BY <2>1 DEF ConfigIInv
    <2> QED  BY <2>1, <2>3, <2>4 DEF ConfigIInv, TornOnlyMounted, SecretsStay
  <1>2. ASSUME NEW e \in Editors, Edit(e) PROVE ConfigIInv'
    <2>1. page[e] # NoPage /\ PageTrue(e) /\ PageShape(page[e]) /\ UNCHANGED <<disk, mounted, writing, saves, mixed>>
      BY <1>2 DEF Edit, ConfigIInv, PageTrue
    <2> DEFINE Becomes(i, text, meant) ==
                 /\ page' = [page EXCEPT ![e] = [text |-> text, meant |-> meant, stale |-> page[e].stale, edits |-> page[e].edits + 1]]
                 /\ \/ text = RemoveAt(page[e].text, i) /\ meant = RemoveAt(page[e].meant, i)
                    \/ i < Len(page[e].text) /\ text = Exchanged(page[e].text, i) /\ meant = Exchanged(page[e].meant, i)
    <2>9. PICK i \in DOMAIN page[e].text : \E text, meant : Becomes(i, text, meant)
      BY <1>2 DEF Edit
    <2>2. PICK text, meant : Becomes(i, text, meant)
      BY <2>9
    <2>3. i \in 1 .. Len(page[e].text)
      BY <2>1 DEF PageShape
    <2>4. /\ text \in Seq(Lines) /\ meant \in Seq(Lines) /\ Len(meant) = Len(text)
          /\ Stands(disk, page[e].text, page[e].meant) => Stands(disk, text, meant)
      <3>1. PICK q : q = page[e]
        OBVIOUS
      <3> DEFINE T == q.text
                 M == q.meant
      <3>2. q.text \in Seq(Lines) /\ q.meant \in Seq(Lines) /\ Len(q.meant) = Len(q.text) /\ i \in 1 .. Len(q.text)
        BY <2>1, <2>3, <3>1 DEF PageShape
      <3>3. PICK now : now = disk
        OBVIOUS
      <3>4. \/ text = RemoveAt(q.text, i) /\ meant = RemoveAt(q.meant, i)
            \/ i < Len(q.text) /\ text = Exchanged(q.text, i) /\ meant = Exchanged(q.meant, i)
        BY <2>2, <3>1
      <3>5. /\ text \in Seq(Lines) /\ meant \in Seq(Lines) /\ Len(meant) = Len(text)
            /\ Stands(now, q.text, q.meant) => Stands(now, text, meant)
        <4>1. T \in Seq(Lines) /\ M \in Seq(Lines) /\ Len(M) = Len(T) /\ i \in 1 .. Len(T)
          BY <3>2
        <4>2. \/ text = RemoveAt(T, i) /\ meant = RemoveAt(M, i)
              \/ i < Len(T) /\ text = Exchanged(T, i) /\ meant = Exchanged(M, i)
          BY <3>4
        <4> HIDE DEF T, M
        <4>3. /\ text \in Seq(Lines) /\ meant \in Seq(Lines) /\ Len(meant) = Len(text)
              /\ Stands(now, T, M) => Stands(now, text, meant)
          <5>1. /\ RemoveAt(T, i) \in Seq(Lines) /\ RemoveAt(M, i) \in Seq(Lines)
                /\ Len(RemoveAt(M, i)) = Len(RemoveAt(T, i))
                /\ Stands(now, T, M) => Stands(now, RemoveAt(T, i), RemoveAt(M, i))
            BY <4>1, EditStands
          <5>2. i < Len(T) =>
                  /\ Exchanged(T, i) \in Seq(Lines) /\ Exchanged(M, i) \in Seq(Lines)
                  /\ Len(Exchanged(M, i)) = Len(Exchanged(T, i))
                  /\ Stands(now, T, M) => Stands(now, Exchanged(T, i), Exchanged(M, i))
            BY <4>1, EditStands
          <5>3. CASE text = RemoveAt(T, i) /\ meant = RemoveAt(M, i)
            BY <5>1, <5>3, Zenon
          <5>4. CASE i < Len(T) /\ text = Exchanged(T, i) /\ meant = Exchanged(M, i)
            BY <5>2, <5>4, Zenon
          <5> QED  BY <4>2, <5>3, <5>4
        <4> QED  BY <4>3 DEF T, M
      <3> QED  BY <3>1, <3>3, <3>5
    <2> DEFINE p == [text |-> text, meant |-> meant, stale |-> page[e].stale, edits |-> page[e].edits + 1]
    <2>5. PageShape(p) /\ p.text = text /\ p.meant = meant /\ p.stale = page[e].stale
      BY <2>4 DEF PageShape
    <2>6. ASSUME NEW f \in Editors PROVE PageTrue(f)'
      <3>1. page'[e] = p /\ (f # e => page'[f] = page[f])
        BY <2>2 DEF ConfigIInv
      <3>2. (Idle' <=> Idle) /\ disk' = disk
        BY <2>1 DEF Idle
      <3>3. PageTrue(f)
        BY DEF ConfigIInv
      <3> HIDE DEF p
      <3>4. CASE f = e
        BY <2>1, <2>4, <2>5, <3>1, <3>2, <3>4, Zenon DEF PageTrue
      <3>5. CASE f # e
        BY <3>1, <3>2, <3>3, <3>5 DEF PageTrue
      <3> QED  BY <3>4, <3>5
    <2>7. page' = [f \in Editors |-> page'[f]]
      BY <2>2 DEF ConfigIInv
    <2> QED  BY <2>1, <2>6, <2>7 DEF ConfigIInv, TornOnlyMounted, SecretsStay
  <1>3. ASSUME NEW e \in Editors, SaveText(e) PROVE ConfigIInv'
    <2> DEFINE text == PutBack(disk, page[e].text)
    <2>1. /\ Idle /\ page[e] # NoPage /\ ReplaceWith(text) /\ text \in Seq(Lines) /\ UNCHANGED mounted
          /\ mixed' = IF text = page[e].meant THEN mixed
                      ELSE mixed \union {IF page[e].stale THEN "changed file" ELSE "same file"}
          /\ page' = [OthersStale EXCEPT ![e] = NoPage]
      BY <1>3 DEF SaveText, Valid
    <2>2. PageShape(page[e]) /\ (page[e].stale \/ Stands(disk, page[e].text, page[e].meant))
      BY <2>1 DEF ConfigIInv, PageTrue
    <2>3. text = page[e].meant \/ page[e].stale
      BY <2>2, SavedAsMeant DEF PageShape
    <2>4. mixed' \subseteq {"changed file"}
      BY <2>1, <2>3 DEF ConfigIInv, SecretsStay
    <2>5. page' = [f \in Editors |-> page'[f]] /\ \A f \in Editors : page'[f] = OthersStale[f] \/ page'[f] = NoPage
      BY <2>1 DEF OthersStale
    <2> HIDE DEF text
    <2> QED  BY <2>1, <2>4, <2>5, SaveKeeps
  <1>4. ASSUME NEW e \in Editors, SaveRejected(e) PROVE ConfigIInv'
    <2>1. page' = [page EXCEPT ![e] = NoPage] /\ UNCHANGED <<disk, mounted, writing, saves, mixed>>
      BY <1>4 DEF SaveRejected
    <2>2. page' = [f \in Editors |-> page'[f]] /\ \A f \in Editors : page'[f] = page[f] \/ page'[f] = NoPage
      BY <2>1 DEF ConfigIInv
    <2>3. ASSUME NEW f \in Editors PROVE PageTrue(f)'
      <3>1. PageTrue(f) /\ (Idle' <=> Idle) /\ disk' = disk
        BY <2>1 DEF ConfigIInv, Idle
      <3> QED  BY <2>2, <3>1 DEF PageTrue
    <2> QED  BY <2>1, <2>2, <2>3 DEF ConfigIInv, TornOnlyMounted, SecretsStay
  <1>5. ASSUME NEW u \in Updates, SaveValues(u) PROVE ConfigIInv'
    <2> DEFINE patched == Patch(disk, u)
    <2>1. Idle /\ patched \in Seq(Lines) /\ ReplaceWith(patched) /\ page' = OthersStale /\ UNCHANGED <<mounted, mixed>>
      BY <1>5 DEF SaveValues, Valid
    <2>2. page' = [f \in Editors |-> page'[f]] /\ \A f \in Editors : page'[f] = OthersStale[f]
      BY <2>1 DEF OthersStale
    <2>3. mixed' \subseteq {"changed file"}
      BY <2>1 DEF ConfigIInv, SecretsStay
    <2> HIDE DEF patched
    <2> QED  BY <2>1, <2>2, <2>3, SaveKeeps
  <1>6. ASSUME Truncate \/ Overwritten \/ OverwriteFails \/ Crash PROVE ConfigIInv'
    <2>1. /\ writing # NoPage /\ UNCHANGED <<mounted, page, mixed>>
          /\ disk' \in {disk, Torn, writing.new, writing.old} /\ writing' \in {writing, NoPage}
      BY <1>6 DEF Truncate, Overwritten, OverwriteFails, Crash
    <2>2. ASSUME NEW f \in Editors PROVE PageTrue(f)'
      <3>1. page[f] # NoPage => PageShape(page[f]) /\ page[f].stale
        BY <2>1 DEF ConfigIInv, PageTrue, Idle
      <3> QED  BY <2>1, <3>1 DEF PageTrue
    <2> QED  BY <2>1, <2>2 DEF ConfigIInv, TornOnlyMounted, SecretsStay
  <1>7. ASSUME UNCHANGED fileVars PROVE ConfigIInv'
    <2>1. UNCHANGED <<disk, mounted, page, writing, mixed>>
      BY <1>7 DEF fileVars
    <2>2. ASSUME NEW f \in Editors PROVE PageTrue(f)'
      BY <2>1 DEF ConfigIInv, PageTrue, Idle
    <2> QED  BY <2>1, <2>2 DEF ConfigIInv, TornOnlyMounted, SecretsStay
  <1> QED  BY <1>1, <1>2, <1>3, <1>4, <1>5, <1>6, <1>7 DEF ConfigNext

(* Whatever the texts, the number of secrets and of pages, and however lines are moved and removed, saves  *)
(* cross, fail or end in a crash: saving the page of the whole text puts no secret where its editor did    *)
(* not leave it unless the file changed since the page was read, and the file is torn only where it cannot *)
(* be replaced by a rename (config/file.go:174-207, 287-342).                                              *)
THEOREM SecretsKept == ConfigSpec => []ConfigInv
  <1>1. ConfigSpec => []ConfigIInv
    BY ConfigStarts, ConfigStep, PTL DEF ConfigSpec
  <1>2. ConfigIInv => ConfigInv
    BY DEF ConfigIInv, ConfigInv
  <1> QED  BY <1>1, <1>2, PTL

-----------------------------------------------------------------------------
(* What the form of common settings writes (ConfigFile). *)
(* The order of the spots, and the rank of a spot in it. *)
Triples == Nat \X Nat \X Nat

LEMMA BeforeOrder ==
  /\ \A p \in Triples : ~Before(p, p)
  /\ \A p, q, m \in Triples : Before(p, q) /\ Before(q, m) => Before(p, m)
  /\ \A p, q \in Triples : p = q \/ Before(p, q) \/ Before(q, p)
  <1>1. \A p \in Triples : p = <<p[1], p[2], p[3]>> /\ p[1] \in Nat /\ p[2] \in Nat /\ p[3] \in Nat
    BY DEF Triples
  <1>2. ASSUME NEW p \in Triples  PROVE ~Before(p, p)
    BY <1>1 DEF Before
  <1>3. ASSUME NEW p \in Triples, NEW q \in Triples, NEW m \in Triples, Before(p, q), Before(q, m)
        PROVE  Before(p, m)
    BY <1>1, <1>3 DEF Before
  <1>4. ASSUME NEW p \in Triples, NEW q \in Triples, ~Before(p, q), ~Before(q, p)
        PROVE  p = q
    <2>1. p[1] = q[1] /\ p[2] = q[2] /\ p[3] = q[3]
      BY <1>1, <1>4 DEF Before
    <2> QED  BY <1>1, <2>1
  <1> QED  BY <1>2, <1>3, <1>4

LEMMA RankGrows ==
  ASSUME NEW S \in SUBSET Triples, IsFiniteSet(S), NEW p \in S, NEW q \in S, Before(p, q)
  PROVE  Rank(S, p) < Rank(S, q)
  <1>1. PICK P, G : P = {m \in S : Before(m, p)} /\ G = {m \in S : Before(m, q)}
    OBVIOUS
  <1>2. P \subseteq G /\ p \in G /\ p \notin P
    BY <1>1, BeforeOrder
  <1>3. IsFiniteSet(G) /\ IsFiniteSet(P)
    BY <1>1, FS_Subset
  <1>4. Cardinality(P) \in Nat /\ Cardinality(G) \in Nat
    BY <1>3, FS_CardinalityType
  <1>5. Cardinality(P) <= Cardinality(G) /\ Cardinality(P) # Cardinality(G)
    BY <1>2, <1>3, FS_Subset
  <1> QED  BY <1>1, <1>4, <1>5 DEF Rank

LEMMA RankInRange ==
  ASSUME NEW S \in SUBSET Triples, IsFiniteSet(S), NEW p \in S
  PROVE  Rank(S, p) \in 1 .. Cardinality(S)
  <1>1. PICK P : P = {m \in S : Before(m, p)}
    OBVIOUS
  <1>2. P \subseteq S /\ p \notin P
    BY <1>1, BeforeOrder
  <1>3. Cardinality(P) \in Nat /\ Cardinality(S) \in Nat
    BY <1>2, FS_Subset, FS_CardinalityType
  <1>4. Cardinality(P) <= Cardinality(S) /\ Cardinality(P) # Cardinality(S)
    BY <1>2, FS_Subset
  <1> QED  BY <1>1, <1>3, <1>4 DEF Rank

(* The ranks of the spots are the numbers of the lines. *)
LEMMA RankApart ==
  ASSUME NEW S \in SUBSET Triples, IsFiniteSet(S), NEW p \in S, NEW q \in S, Rank(S, p) = Rank(S, q)
  PROVE  p = q
  <1>1. Rank(S, p) \in Nat /\ Rank(S, q) \in Nat
    BY RankInRange
  <1>2. ~Before(p, q) /\ ~Before(q, p)
    BY <1>1, RankGrows
  <1> QED  BY <1>2, BeforeOrder

LEMMA RankOnto ==
  ASSUME NEW S \in SUBSET Triples, IsFiniteSet(S), NEW m \in 1 .. Cardinality(S)
  PROVE  \E p \in S : Rank(S, p) = m
  <1>1. PICK f : f = [p \in S |-> Rank(S, p)]
    OBVIOUS
  <1>2. Cardinality(S) \in Nat
    BY FS_CardinalityType
  <1>3. PICK all : all = 1 .. Cardinality(S)
    OBVIOUS
  <1>4. IsFiniteSet(all) /\ Cardinality(all) = Cardinality(S)
    BY <1>2, <1>3, FS_Interval
  <1>5. f \in Injection(S, all)
    <2>1. f \in [S -> all]
      BY <1>1, <1>3, RankInRange
    <2>2. \A p, q \in S : f[p] = f[q] => p = q
      BY <1>1, RankApart
    <2> QED  BY <2>1, <2>2 DEF Injection, IsInjective
  <1>6. f \in Surjection(S, all)
    BY <1>4, <1>5, FS_Injection
  <1> QED  BY <1>1, <1>3, <1>6 DEF Surjection

LEMMA ImageFinite == ASSUME NEW S, IsFiniteSet(S), NEW f, DOMAIN f = S  PROVE IsFiniteSet({f[x] : x \in S})
  <1>1. PICK g, T : g = [x \in S |-> f[x]] /\ T = {f[x] : x \in S}
    OBVIOUS
  <1>2. g \in Surjection(S, T)
    BY <1>1 DEF Surjection
  <1> QED  BY <1>1, <1>2, FS_Surjection

LEMMA SmallestNumber == ASSUME NEW S \in SUBSET Nat, S # {}  PROVE Min(S) \in S /\ \A n \in S : Min(S) <= n
  <1>1. PICK m \in S : \A n \in S : <<n, m>> \notin OpToRel(<, Nat)
    BY NatLessThanWellFounded, WFMin, Zenon
  <1>2. \A n \in S : ~(n < m)
    <2>1. \A n \in Nat, k \in Nat : n < k => <<n, k>> \in OpToRel(<, Nat)
      BY Zenon DEF OpToRel
    <2> QED  BY <1>1, <2>1
  <1>3. \A n \in S : m <= n
    BY <1>2
  <1> QED  BY <1>3 DEF Min

LEMMA GreatestNumber ==
  ASSUME NEW b \in Nat, NEW S \in SUBSET (0 .. b), S # {}
  PROVE  Max(S) \in S /\ \A n \in S : n <= Max(S)
  <1>1. PICK T : T = {n \in Nat : \E m \in S : n = b - m}
    OBVIOUS
  <1>2. T \in SUBSET Nat /\ T # {} /\ \A m \in S : b - m \in T
    <2>1. \A m \in S : m \in 0 .. b
      OBVIOUS
    <2>2. \A m \in 0 .. b : b - m \in Nat
      OBVIOUS
    <2>3. \A m \in S : b - m \in T
      BY <1>1, <2>1, <2>2, Zenon
    <2> QED  BY <1>1, <2>3, Zenon
  <1>3. Min(T) \in T /\ \A n \in T : Min(T) <= n
    BY <1>2, SmallestNumber
  <1>4. PICK m \in S : Min(T) = b - m
    BY <1>1, <1>3
  <1>5. \A n \in S : n <= m
    BY <1>2, <1>3, <1>4
  <1>6. \A n \in S : (\A k \in S : n >= k) => n = m
    BY <1>5
  <1> QED  BY <1>5, <1>6 DEF Max

(* The forms that are saved set each of their keys once. *)
FormOK(u) ==
  /\ u \in Seq([path : (Tables \union {Root}) \X Keys, value : {"new", "off", NewToken}])
  /\ \A k, l \in DOMAIN u : u[k].path = u[l].path => k = l

LEMMA FormsFit == ASSUME NEW u \in Updates  PROVE FormOK(u)
  <1> DEFINE S == [path : (Tables \union {Root}) \X Keys, value : {"new", "off", NewToken}]
  <1>1. PICK a, b, c, d, e : /\ a = Setting(Root, "lang", "new") /\ b = Setting("log", "level", "new")
                             /\ c = Setting("telegram", "app_id", "new") /\ d = Setting("telegram", "token", NewToken)
                             /\ e = Setting("log", "level", "off")
    BY Zenon
  <1>2. a \in S /\ b \in S /\ c \in S /\ d \in S /\ e \in S
    BY <1>1 DEF Setting, Tables, Keys, Root
  <1>3. /\ a.path = <<Root, "lang">> /\ b.path = <<"log", "level">> /\ c.path = <<"telegram", "app_id">>
        /\ d.path = <<"telegram", "token">>
    BY <1>1 DEF Setting
  <1>4. /\ a.path # b.path /\ a.path # c.path /\ a.path # d.path /\ b.path # c.path /\ b.path # d.path
        /\ c.path # d.path
    BY <1>3
  <1>5. u = <<a, b, c>> \/ u = <<a, b, c>> \o <<d>> \/ u = <<e>>
    <2>1. u = <<a, b, c>> \o <<>> \/ u = <<a, b, c>> \o <<d>> \/ u = <<e>>
      BY <1>1, Zenon DEF Updates, Form
    <2>2. <<a, b, c>> \o <<>> = <<a, b, c>>
      BY <1>2
    <2> QED  BY <2>1, <2>2, Zenon
  <1> HIDE DEF S
  <1>6. CASE u = <<a, b, c>>
    <2>1. u \in Seq(S) /\ DOMAIN u = 1 .. 3 /\ u[1] = a /\ u[2] = b /\ u[3] = c
      BY <1>2, <1>6
    <2>2. \A k, l \in DOMAIN u : u[k].path = u[l].path => k = l
      BY <1>4, <2>1
    <2> QED  BY <2>1, <2>2 DEF FormOK, S
  <1>7. CASE u = <<a, b, c>> \o <<d>>
    <2>3. PICK v, w : v = <<a, b, c>> /\ w = <<d>>
      BY Zenon
    <2>4. /\ v \in Seq(S) /\ w \in Seq(S) /\ Len(v) = 3 /\ Len(w) = 1
          /\ v[1] = a /\ v[2] = b /\ v[3] = c /\ w[1] = d
      BY <1>2, <2>3
    <2>5. /\ v \o w \in Seq(S) /\ Len(v \o w) = 4
          /\ \A i \in 1 .. 4 : (v \o w)[i] = IF i <= 3 THEN v[i] ELSE w[i - 3]
      <3>1. /\ v \o w \in Seq(S) /\ Len(v \o w) = Len(v) + Len(w)
            /\ \A i \in 1 .. Len(v) + Len(w) : (v \o w)[i] = IF i <= Len(v) THEN v[i] ELSE w[i - Len(v)]
        BY <2>4, ConcatProperties, Zenon
      <3> QED  BY <2>4, <3>1
    <2>6. u = v \o w
      BY <1>7, <2>3, Zenon
    <2>1. u \in Seq(S) /\ DOMAIN u = 1 .. 4 /\ u[1] = a /\ u[2] = b /\ u[3] = c /\ u[4] = d
      BY <2>4, <2>5, <2>6
    <2>2. \A k, l \in DOMAIN u : u[k].path = u[l].path => k = l
      BY <1>4, <2>1
    <2> QED  BY <2>1, <2>2 DEF FormOK, S
  <1>8. CASE u = <<e>>
    <2>1. u \in Seq(S) /\ DOMAIN u = 1 .. 1 /\ u[1] = e
      BY <1>2, <1>8
    <2>2. \A k, l \in DOMAIN u : u[k].path = u[l].path => k = l
      BY <2>1
    <2> QED  BY <2>1, <2>2 DEF FormOK, S
  <1> QED  BY <1>5, <1>6, <1>7, <1>8

LEMMA FormShape ==
  ASSUME NEW u, FormOK(u)
  PROVE  /\ DOMAIN u = 1 .. Len(u) /\ Len(u) \in Nat
         /\ \A k \in DOMAIN u : /\ k \in Nat /\ k > 0 /\ Section(u, k) \in Tables \union {Root}
                                /\ u[k].path = <<Section(u, k), u[k].path[2]>>
  <1> DEFINE S == [path : (Tables \union {Root}) \X Keys, value : {"new", "off", NewToken}]
  <1>1. u \in Seq(S)
    BY DEF FormOK
  <1>2. \A s \in S : s.path[1] \in Tables \union {Root} /\ s.path = <<s.path[1], s.path[2]>>
    OBVIOUS
  <1> HIDE DEF S
  <1>3. DOMAIN u = 1 .. Len(u) /\ Len(u) \in Nat /\ \A k \in DOMAIN u : u[k] \in S
    BY <1>1
  <1> QED  BY <1>2, <1>3 DEF Section

(* The turn of a table, and where its missing keys go. *)
LEMMA TurnFirst ==
  ASSUME NEW text, NEW u, FormOK(u), NEW k \in Missing(text, u)
  PROVE  /\ Turn(text, u, k) \in Missing(text, u) /\ Turn(text, u, k) \in Nat /\ Turn(text, u, k) > 0
         /\ Section(u, Turn(text, u, k)) = Section(u, k)
         /\ Turn(text, u, k) <= Len(u)
  <1>1. PICK S : S = {l \in Missing(text, u) : Section(u, l) = Section(u, k)}
    OBVIOUS
  <1>2. S \in SUBSET Nat /\ S # {} /\ \A l \in S : l > 0 /\ l <= Len(u)
    BY <1>1, FormShape DEF Missing
  <1>3. Min(S) \in S
    BY <1>2, SmallestNumber
  <1>4. Turn(text, u, k) = Min(S)
    BY <1>1 DEF Turn
  <1> QED  BY <1>1, <1>2, <1>3, <1>4

LEMMA TurnShared ==
  ASSUME NEW text, NEW u, NEW k \in Missing(text, u), NEW l \in Missing(text, u), Section(u, k) = Section(u, l)
  PROVE  Turn(text, u, k) = Turn(text, u, l)
  BY Zenon DEF Turn

TextOK(text) == text \in Seq(Lines)

LEMMA TextShape ==
  ASSUME NEW text, TextOK(text)
  PROVE  /\ DOMAIN text = 1 .. Len(text) /\ Len(text) \in Nat
         /\ \A i \in DOMAIN text : i \in Nat /\ i > 0 /\ text[i] \in Lines
  BY DEF TextOK

(* The end of a table: no header between its own and there. *)
LEMMA PointOfSection ==
  ASSUME NEW text, TextOK(text), NEW s \in Tables \union {Root}
  PROVE  /\ InsertionPoint(text, s) \in 0 .. Len(text)
         /\ ~Present(text, s) => InsertionPoint(text, s) = Len(text)
         /\ Present(text, s) => InsertionPoint(text, s) = TableEnd(text, s)
         /\ s = Root => \A j \in DOMAIN text : ~IsKey(text[j]) => j > InsertionPoint(text, s)
         /\ s # Root /\ Present(text, s) =>
              \E h \in DOMAIN text : /\ h <= InsertionPoint(text, s) /\ text[h] = Table(s)
                                     /\ \A j \in DOMAIN text : ~IsKey(text[j]) /\ j > h => j > InsertionPoint(text, s)
  <1>1. DOMAIN text = 1 .. Len(text) /\ Len(text) \in Nat
    BY TextShape
  <1>2. CASE ~Present(text, s)
    BY <1>1, <1>2 DEF InsertionPoint, Present
  <1>3. CASE Present(text, s)
    <2>1. PICK start : start = IF s = Root THEN 0 ELSE CHOOSE i \in TableAt(text, s) : TRUE
      OBVIOUS
    <2>2. /\ start \in 0 .. Len(text)
          /\ s = Root => start = 0
          /\ s # Root => start \in DOMAIN text /\ text[start] = Table(s)
      <3>1. CASE s = Root
        BY <1>1, <2>1, <3>1
      <3>2. CASE s # Root
        <4>1. TableAt(text, s) # {}
          BY <1>3, <3>2 DEF Present
        <4>2. start \in TableAt(text, s)
          BY <2>1, <3>2, <4>1, Zenon
        <4> QED  BY <1>1, <3>2, <4>2 DEF TableAt
      <3> QED  BY <3>1, <3>2
    <2>3. PICK next : next = {j \in DOMAIN text : j > start /\ ~IsKey(text[j])}
      BY Zenon
    <2>4. PICK end : end = IF next = {} THEN Len(text) ELSE Min(next) - 1
      BY Zenon
    <2>5. TableEnd(text, s) = end
      BY <2>1, <2>3, <2>4, Zenon DEF TableEnd
    <2>6. end \in 0 .. Len(text) /\ start <= end /\ \A j \in next : j > end
      <3>1. CASE next = {}
        BY <1>1, <2>2, <2>4, <3>1
      <3>2. CASE next # {}
        <4>1. next \in SUBSET Nat
          BY <1>1, <2>3
        <4>2. Min(next) \in next /\ \A j \in next : Min(next) <= j
          BY <3>2, <4>1, SmallestNumber
        <4>3. Min(next) \in 1 .. Len(text) /\ Min(next) > start
          BY <1>1, <2>3, <4>2
        <4> QED  BY <1>1, <2>2, <2>4, <3>2, <4>1, <4>2, <4>3
      <3> QED  BY <3>1, <3>2
    <2>7. InsertionPoint(text, s) = end
      BY <1>3, <2>5, Zenon DEF InsertionPoint
    <2>8. \A j \in DOMAIN text : ~IsKey(text[j]) /\ j > start => j > end
      BY <2>3, <2>6
    <2>9. s = Root => \A j \in DOMAIN text : ~IsKey(text[j]) => j > end
      BY <1>1, <2>2, <2>8
    <2> QED  BY <1>3, <2>2, <2>5, <2>6, <2>7, <2>8, <2>9
  <1> QED  BY <1>2, <1>3

(* ---- the spots of a patched text ---- *)
OldSpot(i) == <<i, 0, 0>>
NewTable(text, u, k) == k \in Missing(text, u) /\ ~Present(text, Section(u, k))

LEMMA SpotShapes ==
  ASSUME NEW text, TextOK(text), NEW u, FormOK(u)
  PROVE  /\ \A i \in DOMAIN text : OldSpot(i) \in Triples
         /\ \A k \in Missing(text, u) : KeySpot(text, u, k) \in Triples /\ TableSpot(text, u, k) \in Triples
         /\ Spots(text, u) \subseteq Triples
  <1>1. \A i \in DOMAIN text : OldSpot(i) \in Triples
    BY TextShape DEF OldSpot, Triples
  <1>2. ASSUME NEW k \in Missing(text, u)
        PROVE  KeySpot(text, u, k) \in Triples /\ TableSpot(text, u, k) \in Triples
    <2>1. k \in Nat /\ Section(u, k) \in Tables \union {Root}
      BY FormShape DEF Missing
    <2>2. Turn(text, u, k) \in Nat /\ Len(text) \in Nat
      BY TurnFirst, TextShape
    <2>3. InsertionPoint(text, Section(u, k)) \in 0 .. Len(text)
      BY <2>1, PointOfSection
    <2>4. InsertionPoint(text, Section(u, k)) \in Nat
      BY <2>2, <2>3
    <2> QED  BY <2>1, <2>2, <2>4 DEF KeySpot, TableSpot, Triples
  <1>3. Spots(text, u) \subseteq Triples
    BY <1>1, <1>2 DEF Spots, OldSpot
  <1> QED  BY <1>1, <1>2, <1>3

LEMMA SpotsFinite ==
  ASSUME NEW text, TextOK(text), NEW u, FormOK(u)
  PROVE  IsFiniteSet(Spots(text, u))
  <1>1. IsFiniteSet(DOMAIN text) /\ IsFiniteSet(DOMAIN u)
    BY TextShape, FormShape, FS_Interval
  <1>2. PICK M, N : M = Missing(text, u) /\ N = {k \in M : ~Present(text, Section(u, k))}
    BY Zenon
  <1>3. IsFiniteSet(M) /\ IsFiniteSet(N)
    BY <1>1, <1>2, FS_Subset DEF Missing
  <1>4. PICK f, g, h : /\ f = [i \in DOMAIN text |-> <<i, 0, 0>>] /\ g = [k \in M |-> KeySpot(text, u, k)]
                       /\ h = [k \in N |-> TableSpot(text, u, k)]
    BY Zenon
  <1>5. IsFiniteSet({f[i] : i \in DOMAIN text}) /\ IsFiniteSet({g[k] : k \in M}) /\ IsFiniteSet({h[k] : k \in N})
    BY <1>1, <1>3, <1>4, ImageFinite
  <1>6. PICK A, B, C : A = {f[i] : i \in DOMAIN text} /\ B = {g[k] : k \in M} /\ C = {h[k] : k \in N}
    BY Zenon
  <1>7. Spots(text, u) = A \union B \union C
    BY <1>2, <1>4, <1>6 DEF Spots
  <1>8. IsFiniteSet(A \union B)
    BY <1>5, <1>6, FS_Union
  <1>9. IsFiniteSet((A \union B) \union C)
    BY <1>5, <1>6, <1>8, FS_Union
  <1> QED  BY <1>7, <1>9

LEMMA SpotCases ==
  ASSUME NEW text, NEW u, NEW p \in Spots(text, u)
  PROVE  \/ \E i \in DOMAIN text : p = OldSpot(i)
         \/ \E k \in Missing(text, u) : p = KeySpot(text, u, k)
         \/ \E k \in Missing(text, u) : p = TableSpot(text, u, k) /\ NewTable(text, u, k)
  BY DEF Spots, OldSpot, NewTable

LEMMA SpotsThere ==
  ASSUME NEW text, NEW u
  PROVE  /\ \A i \in DOMAIN text : OldSpot(i) \in Spots(text, u)
         /\ \A k \in Missing(text, u) : KeySpot(text, u, k) \in Spots(text, u)
         /\ \A k \in Missing(text, u) : NewTable(text, u, k) => TableSpot(text, u, k) \in Spots(text, u)
  BY DEF Spots, OldSpot, NewTable

(* The lines at the spots. *)
LEMMA LineOfText ==
  ASSUME NEW text, TextOK(text), NEW u, NEW i \in DOMAIN text
  PROVE  LET l == LineAt(text, u, OldSpot(i))
         IN /\ IsKey(l) <=> IsKey(text[i])
            /\ ~IsKey(text[i]) => l = text[i]
            /\ IsKey(text[i]) => /\ l.key = text[i].key
                                 /\ l.value = IF PathOf(text, i) \in Paths(u) THEN ValueOf(u, PathOf(text, i))
                                              ELSE text[i].value
  <1>1. LineAt(text, u, OldSpot(i)) = Replaced(text, u, i)
    BY DEF LineAt, OldSpot
  <1>2. text[i] \in Lines
    BY TextShape
  <1>3. CASE IsKey(text[i]) /\ PathOf(text, i) \in Paths(u)
    <2>1. PICK line, v : line = text[i] /\ v = ValueOf(u, PathOf(text, i))
      OBVIOUS
    <2>2. line.kind = "key" /\ line = [kind |-> line.kind, key |-> line.key, value |-> line.value]
      BY <1>2, <1>3, <2>1 DEF IsKey, Lines, Table, ArrayTable
    <2>3. PICK l : l = [line EXCEPT !.value = v]
      OBVIOUS
    <2>4. l = [kind |-> "key", key |-> line.key, value |-> v]
      BY <2>2, <2>3
    <2>5. LineAt(text, u, OldSpot(i)) = l
      BY <1>1, <1>3, <2>1, <2>3, Zenon DEF Replaced
    <2> QED  BY <1>3, <2>1, <2>2, <2>4, <2>5 DEF IsKey
  <1>4. CASE ~(IsKey(text[i]) /\ PathOf(text, i) \in Paths(u))
    <2>1. LineAt(text, u, OldSpot(i)) = text[i]
      BY <1>1, <1>4, Zenon DEF Replaced
    <2> QED  BY <1>4, <2>1, Zenon
  <1> QED  BY <1>3, <1>4

LEMMA LineOfKey ==
  ASSUME NEW text, NEW u, FormOK(u), NEW k \in Missing(text, u)
  PROVE  LET l == LineAt(text, u, KeySpot(text, u, k))
         IN IsKey(l) /\ l.key = u[k].path[2] /\ l.value = u[k].value
  <1>1. Turn(text, u, k) # 0 /\ k # 0
    <2>1. k \in DOMAIN u
      BY DEF Missing
    <2>2. k > 0 /\ Turn(text, u, k) > 0
      BY <2>1, FormShape, TurnFirst
    <2> QED  BY <2>2
  <1>2. LineAt(text, u, KeySpot(text, u, k)) = KeyValue(u[k].path[2], u[k].value)
    BY <1>1 DEF LineAt, KeySpot
  <1> QED  BY <1>2 DEF KeyValue, IsKey

LEMMA LineOfTable ==
  ASSUME NEW text, NEW u, FormOK(u), NEW k \in Missing(text, u)
  PROVE  LineAt(text, u, TableSpot(text, u, k)) = Table(Section(u, k)) /\ ~IsKey(Table(Section(u, k)))
  <1>1. Turn(text, u, k) # 0 /\ Section(u, Turn(text, u, k)) = Section(u, k)
    BY TurnFirst
  <1>2. LineAt(text, u, TableSpot(text, u, k)) = Table(Section(u, k))
    BY <1>1 DEF LineAt, TableSpot
  <1> QED  BY <1>2 DEF Table, IsKey

(* A spot is the line of its rank. *)
LineNo(text, u, p) == Rank(Spots(text, u), p)

LEMMA PatchLines ==
  ASSUME NEW text, TextOK(text), NEW u, FormOK(u)
  PROVE  /\ DOMAIN Patch(text, u) \subseteq Nat
         /\ \A p \in Spots(text, u) : LineNo(text, u, p) \in DOMAIN Patch(text, u) /\ LineNo(text, u, p) \in Nat
                                        /\ Patch(text, u)[LineNo(text, u, p)] = LineAt(text, u, p)
         /\ \A j \in DOMAIN Patch(text, u) : \E p \in Spots(text, u) : j = LineNo(text, u, p)
         /\ \A p, q \in Spots(text, u) : Before(p, q) => LineNo(text, u, p) < LineNo(text, u, q)
  <1>1. PICK S, n : S = Spots(text, u) /\ n = Cardinality(S)
    BY Zenon
  <1>2. S \in SUBSET Triples /\ IsFiniteSet(S) /\ n \in Nat
    BY <1>1, SpotShapes, SpotsFinite, FS_CardinalityType
  <1>3. Patch(text, u) = [m \in 1 .. n |-> LineAt(text, u, CHOOSE p \in S : Rank(S, p) = m)]
    BY <1>1 DEF Patch
  <1>4. ASSUME NEW p \in S  PROVE Rank(S, p) \in 1 .. n /\ Patch(text, u)[Rank(S, p)] = LineAt(text, u, p)
    <2>1. Rank(S, p) \in 1 .. n
      BY <1>1, <1>2, RankInRange
    <2>2. PICK q : q = CHOOSE x \in S : Rank(S, x) = Rank(S, p)
      OBVIOUS
    <2>3. q \in S /\ Rank(S, q) = Rank(S, p)
      BY <2>2, Zenon
    <2>4. q = p
      BY <1>2, <2>3, RankApart
    <2>5. Patch(text, u)[Rank(S, p)] = LineAt(text, u, q)
      BY <1>3, <2>1, <2>2
    <2> QED  BY <2>1, <2>4, <2>5
  <1>5. \A j \in 1 .. n : \E p \in S : j = Rank(S, p)
    BY <1>1, <1>2, RankOnto
  <1>6. DOMAIN Patch(text, u) = 1 .. n
    BY <1>3
  <1>7. \A p, q \in S : Before(p, q) => Rank(S, p) < Rank(S, q)
    BY <1>2, RankGrows
  <1> QED  BY <1>1, <1>2, <1>4, <1>5, <1>6, <1>7 DEF LineNo

(* The last header before a line names its section. *)
NameOf(h) == IF h.kind = "table" THEN h.name ELSE "array"

LEMMA LastHeader ==
  ASSUME NEW text, NEW i \in Nat, NEW h \in Headers(text, i), \A j \in Headers(text, i) : j <= h
  PROVE  SectionOf(text, i) = NameOf(text[h])
  <1>1. PICK H : H = Headers(text, i)
    BY Zenon
  <1>2. H \in SUBSET Nat /\ h \in H /\ \A j \in H : j <= h
    BY <1>1 DEF Headers
  <1>3. \A x \in H : (\A y \in H : x >= y) => x = h
    BY <1>2
  <1>4. Max(H) = h
    BY <1>2, <1>3 DEF Max
  <1> QED  BY <1>1, <1>2, <1>4 DEF SectionOf, NameOf

LEMMA SectionNamed ==
  ASSUME NEW text, TextOK(text), NEW i \in DOMAIN text
  PROVE  \/ Headers(text, i) = {} /\ SectionOf(text, i) = Root
         \/ \E h \in Headers(text, i) : /\ \A j \in Headers(text, i) : j <= h
                                        /\ h \in DOMAIN text /\ SectionOf(text, i) = NameOf(text[h])
  <1>1. i \in Nat /\ i \in 1 .. Len(text) /\ Len(text) \in Nat /\ DOMAIN text = 1 .. Len(text)
    BY TextShape
  <1>2. CASE Headers(text, i) = {}
    BY <1>2 DEF SectionOf
  <1>3. CASE Headers(text, i) # {}
    <2>1. Headers(text, i) \in SUBSET (0 .. i)
      BY <1>1 DEF Headers
    <2>2. PICK h : h = Max(Headers(text, i))
      BY Zenon
    <2>3. h \in Headers(text, i) /\ \A j \in Headers(text, i) : j <= h
      BY <1>1, <1>3, <2>1, <2>2, GreatestNumber
    <2>4. h \in DOMAIN text
      BY <1>1, <2>3 DEF Headers
    <2> QED  BY <1>1, <2>3, <2>4, LastHeader
  <1> QED  BY <1>2, <1>3

(* The spots of the headers that come before a spot, or are it. *)
HeadSpots(text, u, p) == {q \in Spots(text, u) : ~IsKey(LineAt(text, u, q)) /\ (q = p \/ Before(q, p))}

LEMMA HeadersAtSpots ==
  ASSUME NEW text, TextOK(text), NEW u, FormOK(u), NEW p \in Spots(text, u)
  PROVE  Headers(Patch(text, u), LineNo(text, u, p)) = {LineNo(text, u, q) : q \in HeadSpots(text, u, p)}
  <1>1. PICK S, P, n : S = Spots(text, u) /\ P = Patch(text, u) /\ n = LineNo(text, u, p)
    BY Zenon
  <1>2. S \in SUBSET Triples
    BY <1>1, SpotShapes
  <1>3. /\ DOMAIN P \subseteq Nat /\ n \in Nat
        /\ \A q \in S : /\ LineNo(text, u, q) \in DOMAIN P /\ LineNo(text, u, q) \in Nat
                         /\ P[LineNo(text, u, q)] = LineAt(text, u, q)
        /\ \A j \in DOMAIN P : \E q \in S : j = LineNo(text, u, q)
        /\ \A q, m \in S : Before(q, m) => LineNo(text, u, q) < LineNo(text, u, m)
    BY <1>1, PatchLines
  <1>4. DOMAIN P = 1 .. Cardinality(S) /\ Cardinality(S) \in Nat
    BY <1>1, SpotShapes, SpotsFinite, FS_CardinalityType DEF Patch
  <1>5. ASSUME NEW j \in Headers(P, n)  PROVE \E q \in HeadSpots(text, u, p) : j = LineNo(text, u, q)
    <2>1. j \in 1 .. n /\ ~IsKey(P[j])
      BY DEF Headers
    <2>2. j \in DOMAIN P
      BY <1>1, <1>3, <1>4, <2>1
    <2>3. PICK q \in S : j = LineNo(text, u, q)
      BY <1>3, <2>2
    <2>4. ~IsKey(LineAt(text, u, q))
      BY <1>3, <2>1, <2>3
    <2>5. ~Before(p, q)
      BY <1>1, <1>3, <2>1, <2>3
    <2>6. q = p \/ Before(q, p)
      BY <1>1, <1>2, <2>5, BeforeOrder
    <2> QED  BY <1>1, <2>3, <2>4, <2>6 DEF HeadSpots
  <1>6. ASSUME NEW q \in HeadSpots(text, u, p)  PROVE LineNo(text, u, q) \in Headers(P, n)
    <2>1. q \in S /\ ~IsKey(LineAt(text, u, q)) /\ (q = p \/ Before(q, p))
      BY <1>1 DEF HeadSpots
    <2>2. LineNo(text, u, q) <= n
      BY <1>1, <1>3, <2>1
    <2>3. LineNo(text, u, q) \in 1 .. n
      BY <1>3, <1>4, <2>1, <2>2
    <2>4. ~IsKey(P[LineNo(text, u, q)])
      BY <1>3, <2>1
    <2> QED  BY <2>3, <2>4 DEF Headers
  <1>7. Headers(P, n) = {LineNo(text, u, q) : q \in HeadSpots(text, u, p)}
    BY <1>5, <1>6
  <1> QED  BY <1>1, <1>7

LEMMA SpotSection ==
  ASSUME NEW text, TextOK(text), NEW u, FormOK(u), NEW p \in Spots(text, u)
  PROVE  /\ HeadSpots(text, u, p) = {} => SectionOf(Patch(text, u), LineNo(text, u, p)) = Root
         /\ \A h \in HeadSpots(text, u, p) :
              (\A q \in HeadSpots(text, u, p) : q = h \/ Before(q, h))
                => SectionOf(Patch(text, u), LineNo(text, u, p)) = NameOf(LineAt(text, u, h))
  <1>1. PICK P, n, H : P = Patch(text, u) /\ n = LineNo(text, u, p) /\ H = HeadSpots(text, u, p)
    BY Zenon
  <1>2. Headers(P, n) = {LineNo(text, u, q) : q \in H}
    BY <1>1, HeadersAtSpots
  <1>3. H = {} => SectionOf(P, n) = Root
    BY <1>2 DEF SectionOf
  <1>4. ASSUME NEW h \in H, \A q \in H : q = h \/ Before(q, h)
        PROVE  SectionOf(P, n) = NameOf(LineAt(text, u, h))
    <2>1. H \subseteq Spots(text, u)
      BY <1>1 DEF HeadSpots
    <2>2. /\ n \in Nat /\ P[LineNo(text, u, h)] = LineAt(text, u, h)
          /\ \A q \in H : LineNo(text, u, q) \in Nat
      BY <1>1, <2>1, PatchLines
    <2>3. \A q \in H : LineNo(text, u, q) <= LineNo(text, u, h)
      <3>1. \A q \in H : q = h \/ LineNo(text, u, q) < LineNo(text, u, h)
        BY <1>4, <2>1, PatchLines
      <3> QED  BY <2>2, <3>1
    <2>4. LineNo(text, u, h) \in Headers(P, n) /\ \A j \in Headers(P, n) : j <= LineNo(text, u, h)
      BY <1>2, <2>3
    <2>5. SectionOf(P, n) = NameOf(P[LineNo(text, u, h)])
      BY <2>2, <2>4, LastHeader
    <2> QED  BY <2>2, <2>5
  <1> QED  BY <1>1, <1>3, <1>4

(* No line of the text leaves its section: new tables come at the end of the text. *)
LEMMA OldSection ==
  ASSUME NEW text, TextOK(text), NEW u, FormOK(u), NEW i \in DOMAIN text
  PROVE  SectionOf(Patch(text, u), LineNo(text, u, OldSpot(i))) = SectionOf(text, i)
  <1>1. PICK n, p, H : n = Len(text) /\ p = OldSpot(i) /\ H = HeadSpots(text, u, p)
    BY Zenon
  <1>2. n \in Nat /\ DOMAIN text = 1 .. n /\ i \in 1 .. n /\ p \in Spots(text, u)
    BY <1>1, TextShape, SpotsThere
  <1>3. ASSUME NEW q \in H  PROVE \E j \in Headers(text, i) : q = OldSpot(j)
    <2>1. q \in Spots(text, u) /\ ~IsKey(LineAt(text, u, q)) /\ (q = p \/ Before(q, p))
      BY <1>1 DEF HeadSpots
    <2>2. CASE \E j \in DOMAIN text : q = OldSpot(j)
      <3>1. PICK j \in DOMAIN text : q = OldSpot(j)
        BY <2>2
      <3>2. ~IsKey(text[j])
        BY <2>1, <3>1, LineOfText
      <3>3. j \in 1 .. i
        BY <1>1, <1>2, <2>1, <3>1 DEF OldSpot, Before
      <3> QED  BY <3>1, <3>2, <3>3 DEF Headers
    <2>3. CASE \E k \in Missing(text, u) : q = KeySpot(text, u, k)
      BY <2>1, <2>3, LineOfKey
    <2>4. CASE \E k \in Missing(text, u) : q = TableSpot(text, u, k)
      <3>1. PICK k \in Missing(text, u) : q = TableSpot(text, u, k)
        BY <2>4
      <3>2. PICK t : t = Turn(text, u, k)
        BY Zenon
      <3>3. t \in Nat /\ t > 0
        BY <3>2, TurnFirst
      <3>4. q = <<n, t, 0>> /\ p = <<i, 0, 0>>
        BY <1>1, <3>1, <3>2 DEF TableSpot, OldSpot
      <3> QED  BY <1>2, <2>1, <3>3, <3>4 DEF Before
    <2> QED  BY <2>1, <2>2, <2>3, <2>4, SpotCases
  <1>4. ASSUME NEW j \in Headers(text, i)
        PROVE  OldSpot(j) \in H /\ LineAt(text, u, OldSpot(j)) = text[j] /\ j \in Nat
    <2>1. j \in DOMAIN text /\ ~IsKey(text[j]) /\ j <= i /\ j \in Nat
      BY <1>2 DEF Headers
    <2>2. LineAt(text, u, OldSpot(j)) = text[j]
      BY <2>1, LineOfText
    <2>3. OldSpot(j) = p \/ Before(OldSpot(j), p)
      BY <1>1, <1>2, <2>1 DEF OldSpot, Before
    <2> QED  BY <1>1, <2>1, <2>2, <2>3, SpotsThere DEF HeadSpots
  <1>5. CASE Headers(text, i) = {}
    <2>1. H = {}
      BY <1>3, <1>5
    <2>2. SectionOf(text, i) = Root
      BY <1>5 DEF SectionOf
    <2> QED  BY <1>1, <1>2, <2>1, <2>2, SpotSection
  <1>6. ASSUME NEW h \in Headers(text, i), \A j \in Headers(text, i) : j <= h, SectionOf(text, i) = NameOf(text[h])
        PROVE  SectionOf(Patch(text, u), LineNo(text, u, p)) = SectionOf(text, i)
    <2>1. \A q \in H : q = OldSpot(h) \/ Before(q, OldSpot(h))
      <3>1. \A j \in Headers(text, i) : j = h \/ j < h
        BY <1>4, <1>6
      <3>2. \A j \in Headers(text, i) : j < h => Before(OldSpot(j), OldSpot(h))
        BY DEF OldSpot, Before
      <3> QED  BY <1>3, <3>1, <3>2
    <2>2. OldSpot(h) \in H /\ LineAt(text, u, OldSpot(h)) = text[h]
      BY <1>4
    <2>3. SectionOf(Patch(text, u), LineNo(text, u, p)) = NameOf(LineAt(text, u, OldSpot(h)))
      BY <1>1, <1>2, <2>1, <2>2, SpotSection
    <2> QED  BY <1>6, <2>2, <2>3
  <1> QED  BY <1>1, <1>5, <1>6, SectionNamed

(* What comes before a new key: the headers of the text up to its point, and the new tables of an *)
(* earlier turn where its point is the end of the text.                                           *)
LEMMA HeadsBeforeKey ==
  ASSUME NEW text, TextOK(text), NEW u, FormOK(u), NEW k \in Missing(text, u),
         NEW end, end = InsertionPoint(text, Section(u, k))
  PROVE  /\ \A q \in HeadSpots(text, u, KeySpot(text, u, k)) :
              \/ \E j \in DOMAIN text : q = OldSpot(j) /\ j <= end /\ ~IsKey(text[j])
              \/ \E l \in Missing(text, u) : /\ q = TableSpot(text, u, l) /\ NewTable(text, u, l) /\ end = Len(text)
                                             /\ Turn(text, u, l) <= Turn(text, u, k)
         /\ \A j \in DOMAIN text : ~IsKey(text[j]) /\ j <= end => OldSpot(j) \in HeadSpots(text, u, KeySpot(text, u, k))
         /\ \A l \in Missing(text, u) : NewTable(text, u, l) /\ end = Len(text) /\ Turn(text, u, l) <= Turn(text, u, k)
                                          => TableSpot(text, u, l) \in HeadSpots(text, u, KeySpot(text, u, k))
         /\ end \in 0 .. Len(text)
  <1>1. PICK n, p, t : n = Len(text) /\ p = KeySpot(text, u, k) /\ t = Turn(text, u, k)
    BY Zenon
  <1>2. k \in Nat /\ k > 0 /\ t \in Nat /\ t > 0 /\ n \in Nat /\ DOMAIN text = 1 .. n
    BY <1>1, FormShape, TurnFirst, TextShape DEF Missing
  <1>3. end \in 0 .. n
    <2>1. Section(u, k) \in Tables \union {Root}
      BY FormShape DEF Missing
    <2> QED  BY <1>1, <2>1, PointOfSection
  <1>4. p = <<end, t, k>> /\ p \in Spots(text, u)
    BY <1>1, SpotsThere DEF KeySpot
  <1>5. ASSUME NEW q \in HeadSpots(text, u, p)
        PROVE  \/ \E j \in DOMAIN text : q = OldSpot(j) /\ j <= end /\ ~IsKey(text[j])
               \/ \E l \in Missing(text, u) : /\ q = TableSpot(text, u, l) /\ NewTable(text, u, l) /\ end = n
                                              /\ Turn(text, u, l) <= t
    <2>1. q \in Spots(text, u) /\ ~IsKey(LineAt(text, u, q)) /\ (q = p \/ Before(q, p))
      BY DEF HeadSpots
    <2>2. CASE \E j \in DOMAIN text : q = OldSpot(j)
      <3>1. PICK j \in DOMAIN text : q = OldSpot(j)
        BY <2>2
      <3>2. ~IsKey(text[j])
        BY <2>1, <3>1, LineOfText
      <3>3. q = <<j, 0, 0>>
        BY <3>1 DEF OldSpot
      <3>4. j <= end
        BY <1>2, <1>3, <1>4, <2>1, <3>3 DEF Before
      <3> QED  BY <3>1, <3>2, <3>4
    <2>3. CASE \E l \in Missing(text, u) : q = KeySpot(text, u, l)
      BY <2>1, <2>3, LineOfKey
    <2>4. CASE \E l \in Missing(text, u) : q = TableSpot(text, u, l) /\ NewTable(text, u, l)
      <3>1. PICK l \in Missing(text, u) : q = TableSpot(text, u, l) /\ NewTable(text, u, l)
        BY <2>4
      <3>2. PICK m : m = Turn(text, u, l)
        BY Zenon
      <3>3. m \in Nat
        BY <3>2, TurnFirst
      <3>4. q = <<n, m, 0>>
        BY <1>1, <3>1, <3>2 DEF TableSpot
      <3>5. end = n /\ m <= t
        BY <1>2, <1>3, <1>4, <2>1, <3>3, <3>4 DEF Before
      <3> QED  BY <3>1, <3>2, <3>5
    <2> QED  BY <2>1, <2>2, <2>3, <2>4, SpotCases
  <1>6. ASSUME NEW j \in DOMAIN text, ~IsKey(text[j]), j <= end  PROVE OldSpot(j) \in HeadSpots(text, u, p)
    <2>1. Before(OldSpot(j), p)
      BY <1>2, <1>3, <1>4, <1>6 DEF OldSpot, Before
    <2> QED  BY <1>6, <2>1, LineOfText, SpotsThere DEF HeadSpots
  <1>7. ASSUME NEW l \in Missing(text, u), NewTable(text, u, l), end = n, Turn(text, u, l) <= t
        PROVE  TableSpot(text, u, l) \in HeadSpots(text, u, p)
    <2>1. PICK m : m = Turn(text, u, l)
      BY Zenon
    <2>2. TableSpot(text, u, l) = <<n, m, 0>> /\ m \in Nat /\ m <= t
      BY <1>1, <1>7, <2>1, TurnFirst DEF TableSpot
    <2>3. Before(TableSpot(text, u, l), p)
      BY <1>2, <1>4, <1>7, <2>2 DEF Before
    <2> QED  BY <1>7, <2>3, LineOfTable, SpotsThere DEF HeadSpots
  <1> QED  BY <1>1, <1>3, <1>5, <1>6, <1>7

(* A new key is in its own section, unless a new table took its place at the end of the text. *)
LEMMA KeySection ==
  ASSUME NEW text, TextOK(text), NEW u, FormOK(u), NEW k \in Missing(text, u)
  PROVE  LET sec == SectionOf(Patch(text, u), LineNo(text, u, KeySpot(text, u, k)))
         IN \/ sec = Section(u, k)
            \/ Crowded(text, u) /\ \E l \in Missing(text, u) : NewTable(text, u, l) /\ sec = Section(u, l)
  <1>1. PICK n, p, t, s, sec, H, end :
           /\ n = Len(text) /\ p = KeySpot(text, u, k) /\ t = Turn(text, u, k) /\ s = Section(u, k)
           /\ sec = SectionOf(Patch(text, u), LineNo(text, u, p)) /\ H = HeadSpots(text, u, p)
           /\ end = InsertionPoint(text, s)
    BY Zenon
  <1>2. k \in DOMAIN u /\ n \in Nat /\ DOMAIN text = 1 .. n /\ p \in Spots(text, u)
    BY <1>1, TextShape, SpotsThere DEF Missing
  <1>3. s \in Tables \union {Root} /\ t \in Nat /\ t > 0
    BY <1>1, <1>2, FormShape, TurnFirst
  <1>4. /\ \A q \in H :
              \/ \E j \in DOMAIN text : q = OldSpot(j) /\ j <= end /\ ~IsKey(text[j])
              \/ \E l \in Missing(text, u) : /\ q = TableSpot(text, u, l) /\ NewTable(text, u, l) /\ end = n
                                             /\ Turn(text, u, l) <= t
        /\ \A j \in DOMAIN text : ~IsKey(text[j]) /\ j <= end => OldSpot(j) \in H
        /\ \A l \in Missing(text, u) : NewTable(text, u, l) /\ end = n /\ Turn(text, u, l) <= t => TableSpot(text, u, l) \in H
        /\ end \in 0 .. n
    BY <1>1, HeadsBeforeKey
  <1>5. \A h \in H : (\A q \in H : q = h \/ Before(q, h)) => sec = NameOf(LineAt(text, u, h))
    BY <1>1, <1>2, SpotSection
  <1>6. ASSUME NEW l \in Missing(text, u), NewTable(text, u, l), end = n, Turn(text, u, l) <= t,
               \A m \in Missing(text, u) : NewTable(text, u, m) /\ Turn(text, u, m) <= t => Turn(text, u, m) <= Turn(text, u, l)
        PROVE  sec = Section(u, l)
    <2>1. PICK h, b : h = TableSpot(text, u, l) /\ b = Turn(text, u, l)
      BY Zenon
    <2>2. h = <<n, b, 0>> /\ b \in Nat /\ b > 0 /\ h \in H
      BY <1>1, <1>4, <1>6, <2>1, TurnFirst DEF TableSpot
    <2>3. ASSUME NEW q \in H  PROVE q = h \/ Before(q, h)
      <3>1. CASE \E j \in DOMAIN text : q = OldSpot(j)
        BY <1>2, <2>2, <3>1 DEF OldSpot, Before
      <3>2. CASE \E m \in Missing(text, u) : q = TableSpot(text, u, m) /\ NewTable(text, u, m) /\ Turn(text, u, m) <= t
        <4>1. PICK m \in Missing(text, u) : q = TableSpot(text, u, m) /\ NewTable(text, u, m) /\ Turn(text, u, m) <= t
          BY <3>2
        <4>2. PICK c : c = Turn(text, u, m)
          BY Zenon
        <4>3. q = <<n, c, 0>> /\ c \in Nat
          BY <1>1, <4>1, <4>2, TurnFirst DEF TableSpot
        <4>4. c <= b
          BY <1>6, <2>1, <4>1, <4>2
        <4> QED  BY <2>2, <4>3, <4>4 DEF Before
      <3> QED  BY <1>4, <3>1, <3>2
    <2>4. sec = NameOf(LineAt(text, u, h))
      BY <1>5, <2>2, <2>3
    <2>5. LineAt(text, u, h) = Table(Section(u, l))
      BY <2>1, LineOfTable
    <2> QED  BY <2>4, <2>5 DEF NameOf, Table
  <1>7. CASE ~Present(text, s)
    <2>1. NewTable(text, u, k)
      BY <1>1, <1>7 DEF NewTable
    <2>2. end = n
      BY <1>1, <1>3, <1>7, PointOfSection
    <2>3. \A m \in Missing(text, u) : Turn(text, u, m) <= t => Turn(text, u, m) <= Turn(text, u, k)
      BY <1>1
    <2>4. sec = s
      BY <1>1, <1>3, <1>6, <2>1, <2>2, <2>3
    <2> QED  BY <1>1, <2>4
  <1>8. CASE Present(text, s)
    <2>1. PICK T : T = {Turn(text, u, l) : l \in {m \in Missing(text, u) : NewTable(text, u, m) /\ Turn(text, u, m) <= t}}
      BY Zenon
    <2>2. end = TableEnd(text, s)
      BY <1>1, <1>3, <1>8, PointOfSection
    <2>3. CASE end = n /\ T # {}
      <3>1. T \in SUBSET (0 .. t)
        BY <1>3, <2>1, TurnFirst
      <3>2. PICK b : b = Max(T)
        BY Zenon
      <3>3. b \in T /\ \A m \in T : m <= b
        BY <1>3, <2>3, <3>1, <3>2, GreatestNumber
      <3>4. PICK l \in Missing(text, u) : NewTable(text, u, l) /\ Turn(text, u, l) <= t /\ b = Turn(text, u, l)
        BY <2>1, <3>3
      <3>5. \A m \in Missing(text, u) : NewTable(text, u, m) /\ Turn(text, u, m) <= t => Turn(text, u, m) <= Turn(text, u, l)
        BY <2>1, <3>3, <3>4
      <3>6. sec = Section(u, l)
        BY <1>6, <2>3, <3>4, <3>5
      <3>7. Turn(text, u, l) # t
        <4>1. SUFFICES ASSUME Turn(text, u, l) = t  PROVE FALSE
          OBVIOUS
        <4>2. Section(u, l) = Section(u, t) /\ Section(u, k) = Section(u, t)
          BY <1>1, <4>1, TurnFirst
        <4> QED  BY <1>1, <1>8, <3>4, <4>2 DEF NewTable
      <3>8. b < t /\ b \in Nat
        BY <1>3, <3>1, <3>3, <3>4, <3>7
      <3>9. /\ Turn(text, u, l) < Turn(text, u, k) /\ ~Present(text, Section(u, l))
            /\ Present(text, Section(u, k)) /\ TableEnd(text, Section(u, k)) = Len(text)
        BY <1>1, <1>8, <2>2, <2>3, <3>4, <3>8 DEF NewTable
      <3>10. Crowded(text, u)
        BY <3>4, <3>9, Zenon DEF Crowded
      <3> QED  BY <1>1, <3>4, <3>6, <3>10
    <2>4. CASE ~(end = n /\ T # {})
      <3>1. \A q \in H : \E j \in DOMAIN text : q = OldSpot(j) /\ j <= end /\ ~IsKey(text[j])
        BY <1>4, <2>1, <2>4
      <3>2. CASE s = Root
        <4>1. \A j \in DOMAIN text : ~IsKey(text[j]) => j > end
          BY <1>1, <1>3, <3>2, PointOfSection
        <4>2. \A j \in DOMAIN text : ~(j > end /\ j <= end)
          BY <1>2, <1>4
        <4>3. H = {}
          BY <3>1, <4>1, <4>2
        <4>4. sec = s
          BY <1>1, <1>2, <3>2, <4>3, SpotSection
        <4> QED  BY <1>1, <4>4
      <3>3. CASE s # Root
        <4>1. PICK h \in DOMAIN text : /\ h <= end /\ text[h] = Table(s)
                                      /\ \A j \in DOMAIN text : ~IsKey(text[j]) /\ j > h => j > end
          BY <1>1, <1>3, <1>8, <3>3, PointOfSection
        <4>2. ~IsKey(text[h])
          BY <4>1 DEF IsKey, Table
        <4>3. OldSpot(h) \in H
          BY <1>4, <4>1, <4>2
        <4>4. ASSUME NEW q \in H  PROVE q = OldSpot(h) \/ Before(q, OldSpot(h))
          <5>1. PICK j \in DOMAIN text : q = OldSpot(j) /\ j <= end /\ ~IsKey(text[j])
            BY <3>1
          <5>2. j = h \/ j < h
            BY <1>2, <1>4, <4>1, <5>1
          <5> QED  BY <5>1, <5>2 DEF OldSpot, Before
        <4>5. LineAt(text, u, OldSpot(h)) = Table(s)
          BY <4>1, <4>2, LineOfText
        <4>6. sec = s
          BY <1>5, <4>3, <4>4, <4>5 DEF NameOf, Table
        <4> QED  BY <1>1, <4>6
      <3> QED  BY <3>2, <3>3
    <2> QED  BY <2>3, <2>4
  <1> QED  BY <1>7, <1>8

(* ---- what a patched text says ---- *)
LEMMA OldPath ==
  ASSUME NEW text, TextOK(text), NEW u, FormOK(u), NEW i \in DOMAIN text, IsKey(text[i])
  PROVE  LET j == LineNo(text, u, OldSpot(i))
         IN /\ j \in KeysAt(Patch(text, u), PathOf(text, i))
            /\ Patch(text, u)[j].value = IF PathOf(text, i) \in Paths(u) THEN ValueOf(u, PathOf(text, i)) ELSE text[i].value
  <1>1. PICK j, P, l : j = LineNo(text, u, OldSpot(i)) /\ P = Patch(text, u) /\ l = LineAt(text, u, OldSpot(i))
    BY Zenon
  <1>2. j \in DOMAIN P /\ P[j] = l
    BY <1>1, SpotsThere, PatchLines
  <1>3. IsKey(l) /\ l.key = text[i].key
        /\ l.value = IF PathOf(text, i) \in Paths(u) THEN ValueOf(u, PathOf(text, i)) ELSE text[i].value
    BY <1>1, LineOfText
  <1>4. SectionOf(P, j) = SectionOf(text, i)
    BY <1>1, OldSection
  <1>5. PathOf(P, j) = PathOf(text, i)
    BY <1>2, <1>3, <1>4, Zenon DEF PathOf
  <1> QED  BY <1>1, <1>2, <1>3, <1>5, Zenon DEF KeysAt

LEMMA NewPath ==
  ASSUME NEW text, TextOK(text), NEW u, FormOK(u), NEW k \in Missing(text, u)
  PROVE  LET j == LineNo(text, u, KeySpot(text, u, k))
             P == Patch(text, u)
         IN /\ j \in DOMAIN P /\ IsKey(P[j]) /\ P[j].value = u[k].value
            /\ \/ PathOf(P, j) = u[k].path
               \/ Crowded(text, u) /\ \E l \in Missing(text, u) : NewTable(text, u, l) /\ PathOf(P, j)[1] = Section(u, l)
  <1>1. PICK j, P, l, sec : /\ j = LineNo(text, u, KeySpot(text, u, k)) /\ P = Patch(text, u)
                            /\ l = LineAt(text, u, KeySpot(text, u, k)) /\ sec = SectionOf(P, j)
    BY Zenon
  <1>2. j \in DOMAIN P /\ P[j] = l
    BY <1>1, SpotsThere, PatchLines
  <1>3. IsKey(l) /\ l.key = u[k].path[2] /\ l.value = u[k].value
    BY <1>1, LineOfKey
  <1>4. u[k].path = <<Section(u, k), u[k].path[2]>>
    BY FormShape DEF Missing
  <1>5. PathOf(P, j) = <<sec, u[k].path[2]>> /\ PathOf(P, j)[1] = sec
    BY <1>1, <1>2, <1>3 DEF PathOf
  <1>6. sec = Section(u, k) \/ (Crowded(text, u) /\ \E m \in Missing(text, u) : NewTable(text, u, m) /\ sec = Section(u, m))
    BY <1>1, KeySection
  <1>7. PathOf(P, j) = u[k].path
        \/ (Crowded(text, u) /\ \E m \in Missing(text, u) : NewTable(text, u, m) /\ PathOf(P, j)[1] = Section(u, m))
    BY <1>4, <1>5, <1>6
  <1> QED  BY <1>1, <1>2, <1>3, <1>7

(* Every key of a patched text is one of the text or of the form. *)
LEMMA KeyComesFrom ==
  ASSUME NEW text, TextOK(text), NEW u, FormOK(u), NEW path, NEW j \in KeysAt(Patch(text, u), path)
  PROVE  \/ \E i \in KeysAt(text, path) : j = LineNo(text, u, OldSpot(i))
         \/ \E k \in Missing(text, u) : j = LineNo(text, u, KeySpot(text, u, k))
  <1>1. PICK P : P = Patch(text, u)
    BY Zenon
  <1>2. j \in DOMAIN P /\ IsKey(P[j]) /\ PathOf(P, j) = path
    BY <1>1, Zenon DEF KeysAt
  <1>3. PICK p \in Spots(text, u) : j = LineNo(text, u, p)
    BY <1>1, <1>2, PatchLines
  <1>4. P[j] = LineAt(text, u, p)
    BY <1>1, <1>3, PatchLines
  <1>5. CASE \E i \in DOMAIN text : p = OldSpot(i)
    <2>1. PICK i \in DOMAIN text : p = OldSpot(i)
      BY <1>5
    <2>2. IsKey(text[i])
      BY <1>2, <1>4, <2>1, LineOfText
    <2>3. j \in KeysAt(P, PathOf(text, i))
      BY <1>1, <1>3, <2>1, <2>2, OldPath
    <2>4. PathOf(text, i) = path
      BY <1>2, <2>3, Zenon DEF KeysAt
    <2> QED  BY <1>3, <2>1, <2>2, <2>4 DEF KeysAt
  <1>6. CASE \E k \in Missing(text, u) : p = KeySpot(text, u, k)
    BY <1>3, <1>6
  <1>7. CASE \E k \in Missing(text, u) : p = TableSpot(text, u, k)
    BY <1>2, <1>4, <1>7, LineOfTable
  <1> QED  BY <1>5, <1>6, <1>7, SpotCases

(* A table that is not in the text holds none of its keys. *)
LEMMA NotAbsent ==
  ASSUME NEW text, TextOK(text), NEW u, FormOK(u), NEW k \in Missing(text, u), NewTable(text, u, k),
         NEW i \in DOMAIN text
  PROVE  SectionOf(text, i) # Section(u, k)
  <1>1. PICK s : s = Section(u, k)
    BY Zenon
  <1>2. s \in Tables /\ s # Root /\ TableAt(text, s) = {}
    BY <1>1, FormShape DEF NewTable, Present, Missing
  <1>3. ASSUME NEW h \in DOMAIN text, ~IsKey(text[h]), NameOf(text[h]) = s  PROVE FALSE
    <2>1. PICK line : line = text[h]
      BY Zenon
    <2>2. line \in Lines /\ line.kind # "key"
      BY <1>3, <2>1, TextShape DEF IsKey
    <2>3. line = ArrayTable \/ \E name \in Tables : line = Table(name)
      BY <2>2 DEF Lines
    <2>4. line # Table(s)
      BY <1>2, <2>1 DEF TableAt
    <2>5. NameOf(line) = s
      BY <1>3, <2>1
    <2>6. NameOf(ArrayTable) = "array" /\ \A name : NameOf(Table(name)) = name
      BY DEF NameOf, Table, ArrayTable
    <2>7. s # "array"
      BY <1>2 DEF Tables
    <2> QED  BY <2>3, <2>4, <2>5, <2>6, <2>7
  <1>4. ASSUME NEW h \in Headers(text, i), h \in DOMAIN text, SectionOf(text, i) = NameOf(text[h])
        PROVE  SectionOf(text, i) # s
    BY <1>3, <1>4 DEF Headers
  <1>5. SectionOf(text, i) # s
    BY <1>2, <1>4, SectionNamed
  <1> QED  BY <1>1, <1>5

(* The form keeps the other keys, with their values and in their sections. *)
LEMMA OthersKept ==
  ASSUME NEW text, TextOK(text), NEW u, FormOK(u)
  PROVE  KeepsOthers(text, Patch(text, u), u)
  <1>1. SUFFICES ASSUME NEW path \in PathsIn(text) \ Paths(u)
                 PROVE  ValueAt(Patch(text, u), path) = ValueAt(text, path)
    BY Zenon DEF KeepsOthers
  <1>2. PICK P : P = Patch(text, u)
    BY Zenon
  <1>3. PICK i0 \in DOMAIN text : path = PathOf(text, i0)
    BY <1>1 DEF PathsIn
  <1>4. path[1] = SectionOf(text, i0)
    BY <1>3 DEF PathOf
  <1>5. ASSUME NEW i \in KeysAt(text, path)
        PROVE  LineNo(text, u, OldSpot(i)) \in KeysAt(P, path) /\ P[LineNo(text, u, OldSpot(i))].value = text[i].value
    <2>1. i \in DOMAIN text /\ IsKey(text[i]) /\ PathOf(text, i) = path
      BY DEF KeysAt
    <2> QED  BY <1>1, <1>2, <2>1, OldPath
  <1>6. ASSUME NEW j \in KeysAt(P, path)  PROVE \E i \in KeysAt(text, path) : j = LineNo(text, u, OldSpot(i))
    <2>1. ASSUME NEW k \in Missing(text, u), j = LineNo(text, u, KeySpot(text, u, k))  PROVE FALSE
      <3>1. PathOf(P, j) = path
        BY Zenon DEF KeysAt
      <3>2. PathOf(P, j) = u[k].path \/ \E l \in Missing(text, u) : NewTable(text, u, l) /\ PathOf(P, j)[1] = Section(u, l)
        BY <1>2, <2>1, NewPath
      <3>3. u[k].path \in Paths(u)
        BY DEF Paths, Missing
      <3> QED  BY <1>1, <1>4, <3>1, <3>2, <3>3, NotAbsent
    <2> QED  BY <1>2, <2>1, KeyComesFrom
  <1>7. ValueAt(P, path) = ValueAt(text, path)
    <2>1. \A x : x \in ValueAt(P, path) <=> \E j \in KeysAt(P, path) : x = P[j].value
      BY Zenon DEF ValueAt
    <2>2. \A x : x \in ValueAt(text, path) <=> \E i \in KeysAt(text, path) : x = text[i].value
      BY Zenon DEF ValueAt
    <2>3. \A x \in ValueAt(P, path) : x \in ValueAt(text, path)
      BY <1>5, <1>6, <2>1, <2>2
    <2>4. \A x \in ValueAt(text, path) : x \in ValueAt(P, path)
      BY <1>5, <2>1, <2>2
    <2> QED  BY <2>3, <2>4
  <1> QED  BY <1>2, <1>7

(* Unless a new table comes in between, the form sets its keys in their own sections. *)
LEMMA OwnSet ==
  ASSUME NEW text, TextOK(text), NEW u, FormOK(u), ~Crowded(text, u)
  PROVE  SetsItsOwn(Patch(text, u), u)
  <1>1. SUFFICES ASSUME NEW path \in Paths(u)  PROVE ValueAt(Patch(text, u), path) = {ValueOf(u, path)}
    BY Zenon DEF SetsItsOwn
  <1>2. PICK P, v : P = Patch(text, u) /\ v = ValueOf(u, path)
    BY Zenon
  <1>3. \A k \in DOMAIN u : u[k].path = path => u[k].value = v
    <2>1. SUFFICES ASSUME NEW k \in DOMAIN u, u[k].path = path  PROVE u[k].value = v
      OBVIOUS
    <2>2. PICK l : l = CHOOSE m \in DOMAIN u : u[m].path = path
      OBVIOUS
    <2>3. l \in DOMAIN u /\ u[l].path = path
      BY <2>1, <2>2, Zenon
    <2>4. l = k
      BY <2>1, <2>3 DEF FormOK
    <2>5. v = u[l].value
      BY <1>2, <2>2, Zenon DEF ValueOf
    <2> QED  BY <2>4, <2>5
  <1>4. ASSUME NEW i \in KeysAt(text, path)
        PROVE  LineNo(text, u, OldSpot(i)) \in KeysAt(P, path) /\ P[LineNo(text, u, OldSpot(i))].value = v
    <2>1. i \in DOMAIN text /\ IsKey(text[i]) /\ PathOf(text, i) = path
      BY DEF KeysAt
    <2> QED  BY <1>1, <1>2, <2>1, OldPath
  <1>5. ASSUME NEW k \in Missing(text, u)
        PROVE  LET j == LineNo(text, u, KeySpot(text, u, k)) IN j \in KeysAt(P, u[k].path) /\ P[j].value = u[k].value
    <2>1. PICK j : j = LineNo(text, u, KeySpot(text, u, k))
      BY Zenon
    <2>2. j \in DOMAIN P /\ IsKey(P[j]) /\ P[j].value = u[k].value /\ PathOf(P, j) = u[k].path
      BY <1>2, <2>1, NewPath
    <2>3. j \in KeysAt(P, u[k].path)
      BY <2>2, Zenon DEF KeysAt
    <2> QED  BY <2>1, <2>2, <2>3
  <1>6. \A j \in KeysAt(P, path) : P[j].value = v
    <2>1. SUFFICES ASSUME NEW j \in KeysAt(P, path), NEW k \in Missing(text, u), j = LineNo(text, u, KeySpot(text, u, k))
                   PROVE  P[j].value = v
      BY <1>2, <1>4, KeyComesFrom
    <2>2. j \in KeysAt(P, u[k].path) /\ P[j].value = u[k].value
      BY <1>5, <2>1
    <2>3. u[k].path = path /\ k \in DOMAIN u
      BY <2>1, <2>2 DEF KeysAt, Missing
    <2> QED  BY <1>3, <2>2, <2>3
  <1>7. \E j \in KeysAt(P, path) : P[j].value = v
    <2>1. PICK k \in DOMAIN u : u[k].path = path
      BY <1>1 DEF Paths
    <2>2. CASE KeysAt(text, path) # {}
      BY <1>4, <2>2
    <2>3. CASE KeysAt(text, path) = {}
      <3>1. k \in Missing(text, u)
        BY <2>1, <2>3 DEF Missing
      <3>2. u[k].value = v
        BY <1>3, <2>1
      <3> QED  BY <1>5, <2>1, <3>1, <3>2
    <2> QED  BY <2>2, <2>3
  <1>8. ValueAt(P, path) = {v}
    BY <1>6, <1>7 DEF ValueAt
  <1> QED  BY <1>2, <1>8

(* Whatever the texts, and whatever pages, failures and crashes come between: a save of the common settings *)
(* keeps the keys it does not manage, with their values and in their sections, and gives its own theirs,    *)
(* unless a new table comes before a key at the end of the text (config/product.go:178-251).                *)
THEOREM FormKeepsRest == ConfigSpec => PatchKeepsRest
  <1>1. ConfigSpec => []ConfigIInv
    BY ConfigStarts, ConfigStep, PTL DEF ConfigSpec
  <1>2. ConfigIInv => \A u \in Updates : SaveValues(u) =>
                        KeepsOthers(disk, Written, u) /\ (Crowded(disk, u) \/ SetsItsOwn(Written, u))
    <2>1. SUFFICES ASSUME ConfigIInv, NEW u \in Updates, SaveValues(u)
                   PROVE  KeepsOthers(disk, Written, u) /\ (Crowded(disk, u) \/ SetsItsOwn(Written, u))
      OBVIOUS
    <2>2. PICK text, P : text = disk /\ P = Patch(disk, u)
      BY Zenon
    <2>3. Idle /\ ReplaceWith(P)
      BY <2>1, <2>2, Zenon DEF SaveValues
    <2>4. Written = P
      BY <2>3 DEF ReplaceWith, Written
    <2>5. TextOK(text)
      BY <2>1, <2>2, <2>3 DEF ConfigIInv, Idle, TextOK
    <2>6. FormOK(u)
      BY FormsFit
    <2>7. KeepsOthers(text, Patch(text, u), u) /\ (Crowded(text, u) \/ SetsItsOwn(Patch(text, u), u))
      BY <2>5, <2>6, OthersKept, OwnSet
    <2>8. P = Patch(text, u)
      BY <2>2
    <2> QED  BY <2>2, <2>4, <2>7, <2>8, Zenon
  <1> QED  BY <1>1, <1>2, PTL DEF PatchKeepsRest
=============================================================================
