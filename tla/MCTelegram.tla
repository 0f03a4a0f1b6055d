------------------------------ MODULE MCTelegram ------------------------------
(***************************************************************************)
(* What the bot and the user account do with Telegram's updates: an album  *)
(* of three files and a file alone in its album, sent to the bot; an album *)
(* of two messages in a watched chat, and one that may come again; and the *)
(* login of the user account, with one attempt of the dashboard.           *)
(***************************************************************************)
EXTENDS MediaGroup, ChatWatch, TLC

CONSTANTS a1, a2, a3, b1, A, B,
          Attempts, MaxWrong, NoAttempt

VARIABLES part,
          attempt, status, lib, question, chan, wrong, alive, canceling, startup, startAlive, client,
          enabled, quitting, restarted

L == INSTANCE UserLogin

loginVars == <<attempt, status, lib, question, chan, wrong, alive, canceling, startup, startAlive, client,
               enabled, quitting, restarted>>

MCItems == {a1, a2, a3, b1}
MCKeyOf == (a1 :> A) @@ (a2 :> A) @@ (a3 :> A) @@ (b1 :> B)
MCAlbumOf == (a1 :> A) @@ (a2 :> A) @@ (b1 :> NoAlbum)
MCDeliveries == (a1 :> 1) @@ (a2 :> 1) @@ (b1 :> 2)

On(p) == part = p

MCInit ==
  /\ part \in {"albums", "watch", "login"}
  /\ Init /\ WatchInit /\ L!LoginInit
  /\ ~On("watch") => watching = {}
  /\ ~On("login") => ~enabled
MCNext ==
  \/ On("albums") /\ Next /\ UNCHANGED <<part, watchVars, loginVars>>
  \/ On("watch") /\ WatchNext /\ UNCHANGED <<part, vars, loginVars>>
  \/ On("login") /\ L!LoginNext /\ UNCHANGED <<part, vars, watchVars>>

(* The fairness of MediaGroup, ChatWatch and UserLogin, each in its part. *)
MCFairness ==
  /\ \A i \in Items : /\ WF_vars(On("albums") /\ TimerExpires(i))
                      /\ WF_vars(On("albums") /\ ProcessMediaGroup(i))
                      /\ WF_vars(On("albums") /\ Finish(i))
  /\ WF_watchVars(On("watch") /\ ~crashed /\ Listen)
  /\ \A f \in Files : WF_watchVars(On("watch") /\ ~crashed /\ Callback(f))
  /\ \A u \in Users : WF_watchVars(On("watch") /\ ~crashed /\ HandleUser(u))
  /\ \A a \in Attempts : /\ WF_loginVars(On("login") /\ L!Library(a))
                         /\ WF_loginVars(On("login") /\ L!RunEnds(a))
                         /\ WF_loginVars(On("login") /\ L!AttemptTimesOut(a))

MCSpec == MCInit /\ [][MCNext]_<<part, vars, watchVars, loginVars>> /\ MCFairness

(* UserLogin: an answer that was accepted leads to the next question or to the attempt's end. *)
AnswerLeadsOn == L!AnswerLeadsOn
=============================================================================
