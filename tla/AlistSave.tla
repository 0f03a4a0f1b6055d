------------------------------- MODULE AlistSave -------------------------------
(* The Alist storage (storage/alist): all saves share one token, which the server stops honouring *)
(* at some time. A rejected request logs in again, the calls merged and not repeated within a     *)
(* window, and is sent once more if its reader can be rewound; a ticker logs in as well. The      *)
(* probes of a name or a directory never log in: an error reads "does not exist".                 *)
EXTENDS Naturals, FiniteSets

CONSTANTS
  AlistSavers, \* the tasks that save
  Ticker,      \* the goroutine of refreshToken
  MaxLapses,   \* bound: the times the server stops honouring the token
  Nobody

ASSUME AlistSaveAssumption == Ticker \notin AlistSavers

TokenCallers == AlistSavers \union {Ticker}

VARIABLES
  account,   \* the storage has a user and a password, and not just a token
  seekable,  \* the savers whose reader can be rewound
  honoured,  \* the server accepts the token
  recent,    \* the last login is within the window; Init's does not count
  flight,    \* who runs the merged login, who waits for it, and how far it is
  caller,    \* per caller, where it is
  retried,   \* the savers whose mkdir has logged in before
  taken,     \* the name is taken on the server
  made,      \* the directory exists on the server
  lapses, logins,  \* the lapses; the logins of the present window
  lapsed     \* the savers for which it lapsed after they asked, or within the window they were told of
tokenVars == <<honoured, recent, flight, lapses, logins, lapsed>>
serverVars == <<taken, made>>
alistConsts == <<account, seekable>>
alistVars == <<alistConsts, tokenVars, serverVars, caller, retried>>

NoFlight == [leader |-> Nobody, waiting |-> {}, stage |-> "none"]

\* Init has logged in and then forgotten when.
AlistInit ==
  /\ account \in BOOLEAN /\ seekable \in SUBSET AlistSavers
  /\ honoured = TRUE /\ recent = FALSE /\ flight = NoFlight
  /\ caller = [c \in TokenCallers |-> IF c = Ticker THEN (IF account THEN "idle" ELSE "off") ELSE "probe"]
  /\ retried = {} /\ taken \in BOOLEAN /\ made \in BOOLEAN /\ (taken => made)
  /\ lapses = 0 /\ logins = 0 /\ lapsed = {}

MoveTo(c, place) == caller' = [caller EXCEPT ![c] = place]

(* ---- getToken: the callers that asked, and where each goes on ---- *)
Asking == {c \in TokenCallers : caller[c] \in {"tick", "mkdirToken", "putToken"}}
Waiting == {c \in TokenCallers : caller[c] \in {"mkdirWait", "putWait", "tickWait"}}
WaitAt(c) == CASE caller[c] = "tick" -> "tickWait" [] caller[c] = "mkdirToken" -> "mkdirWait" [] OTHER -> "putWait"
AfterToken(c) ==
  CASE caller[c] \in {"tick", "tickWait"} -> "idle"
    [] caller[c] \in {"mkdirToken", "mkdirWait"} -> "dirAgain"
    [] OTHER -> IF c \in seekable THEN "putAgain" ELSE "notReplayed"
AfterError(c) == IF c = Ticker THEN "idle" ELSE "noToken"

Tick ==
  /\ caller[Ticker] = "idle" /\ MoveTo(Ticker, "tick")
  /\ UNCHANGED <<alistConsts, tokenVars, serverVars, retried>>

Lapsed(callers) == lapsed' = lapsed \union (callers \ {Ticker})

FreshEnough(c) ==
  /\ c \in Asking /\ recent
  /\ MoveTo(c, AfterToken(c)) /\ Lapsed(IF honoured THEN {} ELSE {c})
  /\ UNCHANGED <<alistConsts, honoured, recent, flight, lapses, logins, serverVars, retried>>

\* Not recent when looked at: join the call in flight, or start one.
Join(c) ==
  /\ c \in Asking /\ ~recent
  /\ MoveTo(c, WaitAt(c))
  /\ UNCHANGED <<alistConsts, tokenVars, serverVars, retried>>

Do(c) ==
  /\ c \in Waiting /\ c # flight.leader /\ c \notin flight.waiting
  /\ flight' = IF flight = NoFlight THEN [leader |-> c, waiting |-> {}, stage |-> "look"]
               ELSE [flight EXCEPT !.waiting = @ \union {c}]
  /\ UNCHANGED <<alistConsts, honoured, recent, lapses, logins, lapsed, serverVars, caller, retried>>

Aboard == flight.waiting \union {flight.leader}
Finish(failed) ==
  /\ caller' = [c \in TokenCallers |-> IF c \notin Aboard THEN caller[c]
                             ELSE IF failed THEN AfterError(c) ELSE AfterToken(c)]
  /\ flight' = NoFlight

FlightGoesOn ==
  /\ flight.stage = "look" /\ flight' = [flight EXCEPT !.stage = "login"]
  /\ UNCHANGED <<alistConsts, honoured, recent, lapses, logins, lapsed, caller, serverVars, retried>>

\* The look inside the merged call: another flight may have ended since the first look.
FlightLooks ==
  /\ flight.stage = "look"
  /\ \/ recent /\ Finish(FALSE) /\ Lapsed(IF honoured THEN {} ELSE Aboard)
     \/ ~recent /\ flight' = [flight EXCEPT !.stage = "login"] /\ UNCHANGED <<caller, lapsed>>
  /\ UNCHANGED <<alistConsts, honoured, recent, lapses, logins, serverVars, retried>>

Login ==
  /\ flight.stage = "login"
  /\ honoured' = TRUE /\ recent' = TRUE /\ logins' = logins + 1
  /\ Finish(FALSE)
  /\ UNCHANGED <<alistConsts, lapses, lapsed, serverVars, retried>>

LoginFails ==
  /\ flight.stage = "login" /\ Finish(TRUE)
  /\ UNCHANGED <<alistConsts, honoured, recent, lapses, logins, lapsed, serverVars, retried>>

(* ---- the server and the clock ---- *)
AskedFor == {"mkdirToken", "mkdirWait", "dirAgain", "putToken", "putWait", "putAgain"}

Lapse ==
  /\ honoured /\ lapses < MaxLapses
  /\ honoured' = FALSE /\ lapses' = lapses + 1
  /\ Lapsed({s \in AlistSavers : caller[s] \in AskedFor \/ (caller[s] = "mkdir" /\ s \in retried)})
  /\ UNCHANGED <<alistConsts, recent, flight, logins, serverVars, caller, retried>>

WindowPasses ==
  /\ recent /\ recent' = FALSE /\ logins' = 0
  /\ UNCHANGED <<alistConsts, honoured, flight, lapses, lapsed, serverVars, caller, retried>>

(* ---- Save: the name, the directory, the file ---- *)
Probe(s) ==
  /\ caller[s] = "probe"
  /\ \/ honoured /\ taken /\ MoveTo(s, "otherName")
     \/ ~(honoured /\ taken) /\ MoveTo(s, "dir")
  /\ UNCHANGED <<alistConsts, tokenVars, serverVars, retried>>

ProbeDir(s) ==
  /\ caller[s] \in {"dir", "dirAgain"}
  /\ MoveTo(s, IF honoured /\ made THEN "put" ELSE "mkdir")
  /\ UNCHANGED <<alistConsts, tokenVars, serverVars, retried>>

\* The first rejection asks for a token, the second fails. A directory made since is no error.
Mkdir(s) ==
  /\ caller[s] = "mkdir"
  /\ \/ /\ honoured /\ made' = TRUE /\ MoveTo(s, IF made THEN "dirLate" ELSE "put") /\ UNCHANGED retried
     \/ /\ ~honoured /\ UNCHANGED made
        /\ \/ account /\ s \notin retried /\ retried' = retried \union {s} /\ MoveTo(s, "mkdirToken")
           \/ (~account \/ s \in retried) /\ MoveTo(s, "rejected") /\ UNCHANGED retried
  /\ UNCHANGED <<alistConsts, tokenVars, taken>>

DirLate(s) ==
  /\ caller[s] = "dirLate" /\ MoveTo(s, IF honoured THEN "put" ELSE "dirUnseen")
  /\ UNCHANGED <<alistConsts, tokenVars, serverVars, retried>>

Store == taken' = TRUE /\ UNCHANGED made

Put(s) ==
  /\ caller[s] = "put"
  /\ \/ honoured /\ Store /\ MoveTo(s, "saved")
     \/ ~honoured /\ UNCHANGED serverVars /\ MoveTo(s, IF account THEN "putToken" ELSE "rejected")
  /\ lapsed' = lapsed \ {s}
  /\ UNCHANGED <<alistConsts, honoured, recent, flight, lapses, logins, retried>>

PutAgain(s) ==
  /\ caller[s] = "putAgain"
  /\ \/ honoured /\ Store /\ MoveTo(s, "saved")
     \/ ~honoured /\ UNCHANGED serverVars /\ MoveTo(s, "rejected")
  /\ UNCHANGED <<alistConsts, tokenVars, retried>>

\* A request that gets no answer, of a save or of a probe, ends the save or counts as "no".
RequestFails(s) ==
  /\ caller[s] \in {"mkdir", "put", "putAgain"} /\ MoveTo(s, "failed")
  /\ UNCHANGED <<alistConsts, tokenVars, serverVars, retried>>

SaverNext(s) ==
  Probe(s) \/ ProbeDir(s) \/ Mkdir(s) \/ DirLate(s) \/ Put(s) \/ PutAgain(s) \/ RequestFails(s)

AlistNext ==
  \/ \E s \in AlistSavers : SaverNext(s)
  \/ \E c \in TokenCallers : FreshEnough(c) \/ Join(c) \/ Do(c)
  \/ Tick \/ FlightLooks \/ Login \/ LoginFails \/ Lapse \/ WindowPasses

AlistSpec == AlistInit /\ [][AlistNext]_alistVars

-----------------------------------------------------------------------------
(* A login is not repeated within the window, though callers look at the time of the last one    *)
(* before they join a call that may have ended meanwhile (token.go:28-45).                       *)
LoginsApart == logins <= 1

(* A save of a storage with an account is turned away for its token only if the token lapsed     *)
(* again after the save had asked for one, or within the window of the last login, in which no   *)
(* other is made (alist.go:131-155, 230-262).                                                    *)
RejectedOnlyAgain == \A s \in AlistSavers : caller[s] = "rejected" => ~account \/ s \in lapsed

(* What the merged login promises, to the server and to those who wait for it.                   *)
TokenInv == LoginsApart /\ RejectedOnlyAgain
=============================================================================
