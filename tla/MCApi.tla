--------------------------------- MODULE MCApi ---------------------------------
(***************************************************************************)
(* The server: the runner's tasks and their records, with an API task that *)
(* has a webhook, a task of the bot, a DELETE request and a press of the   *)
(* bot's cancel button; the requests that create tasks; the configuration  *)
(* file; and the login of the user account with two attempts.              *)
(***************************************************************************)
EXTENDS TaskRunner, UserLogin, ApiTask, ConfigFile, TLC

CONSTANTS Parts,    \* which of "runner", "requests", "config" and "login" may run
          w1, w2

VARIABLE part

MCWorkers == {w1, w2}
WorkerSymmetry == Permutations(MCWorkers)

(* Links to a file, to an album and past it; an album of messages 1, 2 and *)
(* 5, of which the bot cannot read the first and the last makes no file.   *)
Link(m, s) == [msg |-> m, single |-> s]
Asks(type, links, names) == [type |-> type, links |-> links, files |-> names]
MCAsked ==
  [a |-> Asks("tgfiles", <<Link(2, FALSE)>>, <<>>),
   b |-> Asks("tgfiles", <<Link(1, TRUE), Link(3, FALSE), Link(4, FALSE)>>, <<>>),
   c |-> Asks("aria2", <<>>, <<7, 8>>),
   d |-> Asks("tgfiles", <<>>, <<>>),
   e |-> Asks("transfer", <<>>, <<9>>),
   f |-> Asks("ytdlp", <<>>, <<7>>),
   g |-> Asks("parseditem", <<>>, <<>>),
   h |-> Asks("directlinks", <<>>, <<>>)]

MCAlbum == <<1, 1, 0, 0, 1>>
MCSees == [bot |-> {2, 3, 4, 5}, user |-> {1, 2, 3, 5}]

(* Secrets in two tables and behind an array of tables; a table, or keys of the form, missing. *)
Head1 == [kind |-> "table", name |-> "telegram"]
Secret(v) == [kind |-> "key", key |-> "token", value |-> [text |-> v]]
Plain(k) == [kind |-> "key", key |-> k, value |-> "old"]
Blocks == [kind |-> "array"]
MCOriginals ==
  {<<Secret("old1"), Head1, Secret("old2")>>,
   <<Head1, Secret("old1"), Blocks, Secret("old2"), Plain("level")>>,
   <<Head1, [Head1 EXCEPT !.name = "log"], Plain("level"), Plain("app_id")>>,
   <<Plain("lang"), Blocks, Plain("app_id"), Head1, Secret("old1")>>}

On(p) == part = p

(* A part that does not run stays in one of its initial states. *)
MCInit ==
  /\ part \in Parts
  /\ Init /\ RequestInit /\ ConfigInit /\ LoginInit
  /\ ~On("requests") => up = {} /\ ~storages
  /\ ~On("config") => ~mounted /\ Plain("lang") \in {disk[i] : i \in DOMAIN disk}
  /\ ~On("login") => ~enabled

(* Bound: the bot's button cancels only while one worker at most is in its loop. *)
Bounded == (\A c \in Callers \ HttpCallers : kpc[c] = "idle") \/ Cardinality({w \in Workers : wpc[w] # "idle"}) <= 1

MCNext ==
  \/ On("runner") /\ Next /\ Bounded' /\ UNCHANGED <<part, requestVars, fileVars, loginVars>>
  \/ On("requests") /\ ApiNext /\ UNCHANGED <<part, vars, fileVars, loginVars>>
  \/ On("config") /\ ConfigNext /\ UNCHANGED <<part, vars, requestVars, loginVars>>
  \/ On("login") /\ LoginNext /\ UNCHANGED <<part, vars, requestVars, fileVars>>

MCSpec == MCInit /\ [][MCNext]_<<part, vars, requestVars, fileVars, loginVars>>
=============================================================================
