------------------------------- MODULE UserLogin -------------------------------
(* The login of the user account: the dashboard's, which hands what the user types to the login  *)
(* library one request at a time (api/userbot_auth.go), and the one at start, with the client    *)
(* it publishes and Logout takes back (client/user/userclient.go).                               *)
(*                                                                                               *)
(* The login library (gotgproto) and Telegram are external: Authenticate announces each question *)
(* with AuthStatus and then asks it, repeats a question whose answer was wrong, and returns a    *)
(* session or an error, also when its context is done. A user types one of Fields.               *)
EXTENDS Naturals, FiniteSets

CONSTANTS
  Attempts,  \* bound: the logins of the dashboard
  MaxWrong,  \* bound: the wrong answers of one attempt
  NoAttempt

Fields == {"phone", "code", "password"}

VARIABLES
  attempt,   \* the manager's current attempt
  status,    \* its response
  lib,       \* per attempt, where Authenticate is: "new", "announce", "ask", "check", "success", "error", "end"
  question,  \* per attempt, the field it is at
  chan,      \* per attempt and field, whether the channel holds an answer
  wrong,     \* per attempt, its wrong answers
  alive,     \* per attempt, its context is not done
  canceling, \* the attempts whose context a DELETE has yet to cancel
  startup,   \* Login at start: "off", "authenticating", "rendezvous", "gone", "publishing", "done", "failed"
  startAlive,\* the context of the process
  client,    \* the client of Login: "none", "made", "published" or "stopped"
  enabled,   \* telegram.userbot.enable in the config file
  quitting,  \* the DELETE under way: "no", "disabled" or "loggedOut"
  restarted
loginVars == <<attempt, status, lib, question, chan, wrong, alive, canceling, startup, startAlive,
               client, enabled, quitting, restarted>>
webVars == <<attempt, status, lib, question, chan, wrong, alive, canceling>>
clientVars == <<startup, startAlive, client>>
quitVars == <<enabled, quitting, restarted>>

LoginInit ==
  /\ attempt = NoAttempt /\ status = "idle"
  /\ lib = [a \in Attempts |-> "new"] /\ question = [a \in Attempts |-> "phone"]
  /\ chan = [a \in Attempts |-> [f \in Fields |-> FALSE]]
  /\ wrong = [a \in Attempts |-> 0] /\ alive = [a \in Attempts |-> TRUE] /\ canceling = {}
  /\ enabled \in BOOLEAN
  /\ startup = IF enabled THEN "authenticating" ELSE "off"
  /\ startAlive = TRUE /\ client = "none" /\ quitting = "no" /\ restarted = FALSE

Connected == client = "published"                   \* GetCtx() # nil
Required == [phone |-> "phone required", code |-> "code required", password |-> "password required"]

(* ---- POST: submit ---- *)
SubmitPhone ==
  /\ startup \in {"off", "done"} /\ ~Connected
  /\ attempt = NoAttempt /\ status # "authenticated"
  /\ \E a \in Attempts :
       /\ lib[a] = "new" /\ alive[a]
       /\ attempt' = a /\ status' = "starting"
       /\ chan' = [chan EXCEPT ![a].phone = TRUE]
       /\ lib' = [lib EXCEPT ![a] = "announce"]
  /\ UNCHANGED <<question, wrong, alive, canceling, clientVars, quitVars>>

\* An answer is accepted for the question that was announced, if the channel has room.
SubmitAnswer(f) ==
  /\ ~Connected /\ attempt # NoAttempt /\ status = Required[f]
  /\ ~chan[attempt][f]
  /\ chan' = [chan EXCEPT ![attempt][f] = TRUE] /\ status' = "authenticating"
  /\ UNCHANGED <<attempt, lib, question, wrong, alive, canceling, clientVars, quitVars>>

(* ---- the library, and update and read, which it calls ---- *)
StatusAsked(a) == [phone |-> IF wrong[a] = 0 THEN "starting" ELSE Required["phone"],
                           code |-> Required["code"], password |-> Required["password"]][question[a]]

UpdateAlways(a, response) == status' = response

\* update: only the current attempt changes the response.
Update(a, response) == status' = IF attempt = a THEN response ELSE status

Announce(a) ==
  /\ lib[a] = "announce" /\ lib' = [lib EXCEPT ![a] = "ask"]
  /\ Update(a, StatusAsked(a))
  /\ UNCHANGED <<attempt, question, chan, wrong, alive, canceling, clientVars, quitVars>>

ReadAnswer(a) ==
  /\ lib[a] = "ask" /\ chan[a][question[a]]
  /\ chan' = [chan EXCEPT ![a][question[a]] = FALSE]
  /\ lib' = [lib EXCEPT ![a] = "check"]
  /\ UNCHANGED <<attempt, status, question, wrong, alive, canceling, clientVars, quitVars>>

\* read returns the context's error, or Telegram does not answer.
LibraryFails(a) ==
  /\ lib[a] \in {"announce", "ask", "check"}
  /\ lib[a] = "ask" => ~alive[a]
  /\ lib' = [lib EXCEPT ![a] = "error"]
  /\ UNCHANGED <<attempt, status, question, chan, wrong, alive, canceling, clientVars, quitVars>>

Wrong(a) ==
  /\ lib[a] = "check" /\ wrong[a] < MaxWrong
  /\ wrong' = [wrong EXCEPT ![a] = @ + 1]
  /\ lib' = [lib EXCEPT ![a] = "announce"]
  /\ UNCHANGED <<attempt, status, question, chan, alive, canceling, clientVars, quitVars>>

\* The last wrong answer: the library announces the failure and returns.
WrongAgain(a) ==
  /\ lib[a] = "check" /\ wrong[a] = MaxWrong
  /\ Update(a, "failed") /\ lib' = [lib EXCEPT ![a] = "error"]
  /\ UNCHANGED <<attempt, question, chan, wrong, alive, canceling, clientVars, quitVars>>

NextQuestion(a) ==
  /\ lib[a] = "check" /\ question[a] # "password"
  /\ question' = [question EXCEPT ![a] = IF @ = "phone" THEN "code" ELSE "password"]
  /\ lib' = [lib EXCEPT ![a] = "announce"]
  /\ UNCHANGED <<attempt, status, chan, wrong, alive, canceling, clientVars, quitVars>>

\* The session is saved; a context that is done may come too late to stop it.
Verified(a) ==
  /\ lib[a] = "check" /\ question[a] # "phone"
  /\ Update(a, "authenticating") /\ lib' = [lib EXCEPT ![a] = "success"]
  /\ UNCHANGED <<attempt, question, chan, wrong, alive, canceling, clientVars, quitVars>>

RunEndsSilently(a) ==
  /\ lib[a] \in {"success", "error"}
  /\ lib' = [lib EXCEPT ![a] = "end"] /\ alive' = [alive EXCEPT ![a] = FALSE]
  /\ attempt' = IF attempt = a THEN NoAttempt ELSE attempt
  /\ UNCHANGED <<status, question, chan, wrong, canceling, clientVars, quitVars>>

\* run: Authenticate has returned.
RunEnds(a) ==
  /\ lib[a] \in {"success", "error"}
  /\ lib' = [lib EXCEPT ![a] = "end"] /\ alive' = [alive EXCEPT ![a] = FALSE]
  /\ IF attempt = a
       THEN attempt' = NoAttempt /\ status' = IF lib[a] = "success" THEN "authenticated" ELSE "failed"
       ELSE UNCHANGED <<attempt, status>>
  /\ UNCHANGED <<question, chan, wrong, canceling, clientVars, quitVars>>

\* userbotAuthTimeout, or the end of the process.
AttemptTimesOut(a) ==
  /\ alive[a] /\ lib[a] \notin {"new", "end"}
  /\ alive' = [alive EXCEPT ![a] = FALSE]
  /\ UNCHANGED <<attempt, status, lib, question, chan, wrong, canceling, clientVars, quitVars>>

(* ---- DELETE ---- *)
CancelAttempt ==
  /\ ~Connected /\ startup \in {"off", "done"}
  /\ canceling' = canceling \union ({attempt} \ {NoAttempt})
  /\ attempt' = NoAttempt /\ status' = "idle"
  /\ UNCHANGED <<lib, question, chan, wrong, alive, clientVars, quitVars>>

CancelContext(a) ==
  /\ a \in canceling /\ canceling' = canceling \ {a}
  /\ alive' = [alive EXCEPT ![a] = FALSE]
  /\ UNCHANGED <<attempt, status, lib, question, chan, wrong, clientVars, quitVars>>

\* A connected account: first the config, so that a restart does not log in again, ...
DisableUserbot ==
  /\ Connected /\ quitting = "no"
  /\ enabled' = FALSE /\ quitting' = "disabled"
  /\ UNCHANGED <<webVars, clientVars, restarted>>

\* (when that fails nothing happens) then Telegram and the client, ...
LogOut ==
  /\ quitting = "disabled" /\ Connected
  /\ client' = "stopped" /\ quitting' = "loggedOut"
  /\ UNCHANGED <<webVars, startup, startAlive, enabled, restarted>>

LogOutFails ==
  /\ quitting = "disabled" /\ quitting' = "no"
  /\ UNCHANGED <<webVars, clientVars, enabled, restarted>>

\* ... and the restart, unless the answer could not be written.
RestartAfterLogout ==
  /\ quitting = "loggedOut" /\ quitting' = "no"
  /\ restarted' \in {restarted, TRUE}
  /\ UNCHANGED <<webVars, clientVars, enabled>>

(* ---- Login at start: a goroutine authenticates, and hands over the client or stops it ---- *)
ProcessEnds ==
  /\ startAlive /\ startAlive' = FALSE
  /\ alive' = [a \in Attempts |-> FALSE]
  /\ UNCHANGED <<attempt, status, lib, question, chan, wrong, canceling, startup, client, quitVars>>

StartAuthenticated ==
  /\ startup \in {"authenticating", "gone"} /\ client = "none"
  /\ client' = "made"
  /\ startup' = IF startup = "authenticating" THEN "rendezvous" ELSE startup
  /\ UNCHANGED <<webVars, startAlive, quitVars>>

StartFails ==
  /\ startup = "authenticating" /\ startup' = "failed"
  /\ UNCHANGED <<webVars, startAlive, client, quitVars>>

\* Login's select prefers neither: the context may be done although the client is ready.
LoginGivesUp ==
  /\ startup \in {"authenticating", "rendezvous"} /\ ~startAlive
  /\ startup' = "gone"
  /\ UNCHANGED <<webVars, startAlive, client, quitVars>>

LoginReceives ==
  /\ startup = "rendezvous" /\ client = "made"
  /\ startup' = "publishing"
  /\ UNCHANGED <<webVars, startAlive, client, quitVars>>

StopUnwanted ==
  /\ startup \in {"rendezvous", "gone"} /\ ~startAlive /\ client = "made"
  /\ client' = "stopped" /\ startup' = "gone"
  /\ UNCHANGED <<webVars, startAlive, quitVars>>

Publish ==
  /\ startup = "publishing" /\ startup' = "done" /\ client' = "published"
  /\ UNCHANGED <<webVars, startAlive, quitVars>>

Library(a) ==
  \/ Announce(a) \/ ReadAnswer(a) \/ LibraryFails(a) \/ Wrong(a) \/ WrongAgain(a)
  \/ NextQuestion(a) \/ Verified(a)
User == SubmitPhone \/ CancelAttempt \/ DisableUserbot \/ \E f \in Fields : SubmitAnswer(f)
Quit == LogOut \/ LogOutFails \/ RestartAfterLogout
StartLogin ==
  StartAuthenticated \/ StartFails \/ LoginGivesUp \/ LoginReceives \/ StopUnwanted \/ Publish

LoginNext ==
  \/ User \/ Quit \/ StartLogin \/ ProcessEnds
  \/ \E a \in Attempts : Library(a) \/ RunEnds(a) \/ AttemptTimesOut(a) \/ CancelContext(a)

LoginFairness ==
  \A a \in Attempts :
    WF_loginVars(Library(a)) /\ WF_loginVars(RunEnds(a)) /\ WF_loginVars(AttemptTimesOut(a))

LoginSpec == LoginInit /\ [][LoginNext]_loginVars /\ LoginFairness

-----------------------------------------------------------------------------
(* What the dashboard shows is the state of the current attempt, whatever a cancelled one still  *)
(* does: a question is open only while the library of that attempt waits for its answer and has  *)
(* none, and without an attempt nothing is pending (userbot_auth.go:161-223, 254-286, 313-341).  *)
StatusOfCurrentAttempt ==
  /\ \A f \in Fields : status = Required[f] =>
       attempt # NoAttempt /\ question[attempt] = f /\ ~chan[attempt][f]
  /\ attempt = NoAttempt => status \in {"idle", "failed", "authenticated"}
  /\ attempt # NoAttempt => status \notin {"idle", "authenticated"}

(* An answer that was accepted leads on: to the next question, or to the attempt's end.          *)
AnswerLeadsOn == status \in {"starting", "authenticating"} ~> status \notin {"starting", "authenticating"}

(* The process is restarted by a DELETE only when neither the config nor the client brings the   *)
(* account back, whichever of the steps failed before (userbot_auth.go:109-128).                 *)
RestartLoggedOut == restarted => ~enabled /\ client = "stopped"

(* What the dashboard can rely on while attempts, answers and a DELETE cross.                    *)
LoginInv == StatusOfCurrentAttempt /\ RestartLoggedOut
=============================================================================
