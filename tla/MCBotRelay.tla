------------------------------ MODULE MCBotRelay -------------------------------
(* The two models of the bot relay, of which Init chooses one: the scans of a route, with two  *)
(* messages of one link and of two, or the conversations with two target bots.                 *)
EXTENDS RelayScan, RelayTalk, TLC

VARIABLE part

MCLinks == <<1, 2>>
MCSymmetry == Permutations(Routes) \union Permutations(Puts)

MCInit ==
  /\ part \in {"scan", "talk"}
  /\ Init /\ TalkInit
  /\ part = "talk" => posted = [r \in Routes |-> 0]
MCNext ==
  \/ part = "scan" /\ Next /\ UNCHANGED <<talkVars, part>>
  \/ part = "talk" /\ TalkNext /\ UNCHANGED <<vars, part>>
MCSpec == MCInit /\ [][MCNext]_<<vars, talkVars, part>>
=============================================================================
