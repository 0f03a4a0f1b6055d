---------------------------- MODULE SavingProofs ----------------------------
(***************************************************************************)
(* What the bot does with a save beside its task: the buttons and what     *)
(* they stand for, the settings of a user, two saves of one name in a      *)
(* storage, the merged login of Alist, and the message of a batch.         *)
(***************************************************************************)
EXTENDS SaveFlow, UserSettings, StorageSave, AlistSave, BatchMessage,
        FiniteSetTheorems, WellFoundedInduction, TLAPS

----------------------------------------------------------------------------
(* The buttons of a save (SaveFlow). *)
(* The plan of a request that is no transfer, when rules are switched on or off. *)
MatchedIf(on, f) == on /\ ApplyRule[f] # [stor |-> "", dir |-> ""]
AlbumDirIf(on, f) == MatchedIf(on, f) /\ ApplyRule[f].dir = NewForAlbum
InAlbumIf(on, fs, g) == {i \in DOMAIN fs : AlbumDirIf(on, fs[i]) /\ Group[fs[i]] = g}
DroppedIf(on, fs, f) == AlbumDirIf(on, f) /\ (Group[f] = NoGroup \/ Cardinality(InAlbumIf(on, fs, Group[f])) <= 1)

SinglePlaceIf(on, f, s, d) ==
  IF ~MatchedIf(on, f) THEN Place(s, d, f)
  ELSE Place(RuleStorage(f, s), IF ApplyRule[f].dir = "" THEN d ELSE InDir(ApplyRule[f].dir), f)
BatchPlaceIf(on, fs, f, s, d) ==
  CASE ~MatchedIf(on, f) -> Place(s, d, f)
    [] AlbumDirIf(on, f) -> LET first == fs[Min(InAlbumIf(on, fs, Group[f]))]
                            IN Place(RuleStorage(first, s), Append(d, first), f)
    [] OTHER -> Place(RuleStorage(f, s), InDir(ApplyRule[f].dir), f)
PlanIf(on, msg, batch, s, d) ==
  LET fs == Request[msg].files
  IN IF batch THEN {BatchPlaceIf(on, fs, f, s, d) : f \in {f \in ToSet(fs) : ~DroppedIf(on, fs, f)}}
     ELSE {SinglePlaceIf(on, fs[1], s, d)}

LEMMA PlanUnderRules ==
  ASSUME NEW add, NEW d, Request[add.msg].kind # "transfer"
  PROVE  Plan(add, d) = PlanIf(user.apply, add.msg, add.batch, add.stor, d)
  BY Zenon DEF Plan, PlanIf, SinglePlace, SinglePlaceIf, BatchPlace, BatchPlaceIf, Dropped, DroppedIf, InAlbum,
         InAlbumIf, AlbumDir, AlbumDirIf, Matched, MatchedIf

(* A place that the rules gave is kept by them. *)
LEMMA SinglePlaceStays ==
  ASSUME NEW on, NEW f, NEW s, NEW d, NEW p, p = SinglePlaceIf(on, f, s, d)
  PROVE  SinglePlaceIf(on, f, p.stor, p.dir) = p
  BY DEF SinglePlaceIf, RuleStorage, Place

(* Without rules every file goes where the buttons say. *)
LEMMA PlanWithoutRules ==
  ASSUME NEW on, ~on, NEW msg, NEW batch, NEW s, NEW d, NEW p \in PlanIf(on, msg, batch, s, d)
  PROVE  p = Place(s, d, p.file)
  <1>1. \A f : ~MatchedIf(on, f)
    BY DEF MatchedIf
  <1>2. PICK f : p = Place(s, d, f)
    <2>1. CASE batch
      <3>1. PICK f : p = BatchPlaceIf(on, Request[msg].files, f, s, d)
        BY <2>1, Zenon DEF PlanIf
      <3> QED  BY <1>1, <3>1, Zenon DEF BatchPlaceIf, AlbumDirIf
    <2>2. CASE ~batch
      <3>1. p = SinglePlaceIf(on, Request[msg].files[1], s, d)
        BY <2>2, Zenon DEF PlanIf
      <3> QED  BY <1>1, <3>1, Zenon DEF SinglePlaceIf
    <2> QED  BY <2>1, <2>2
  <1> QED  BY <1>2 DEF Place

(* Only one file is saved as such: several, or a range, are a batch. *)
Fitting(add) ==
  /\ add.msg \in Messages
  /\ IF add.batch THEN Request[add.msg].kind = "range" \/ Len(Request[add.msg].files) > 1
     ELSE Len(Request[add.msg].files) = 1

LEMMA FittingStays ==
  ASSUME NEW old, NEW add, Fitting(old), add.msg = old.msg, add.batch = old.batch
  PROVE  Fitting(add)
  <1>1. PICK b : b = old.batch
    BY Zenon
  <1>2. add.batch = b
    BY <1>1, Zenon
  <1>3. IF b THEN Request[add.msg].kind = "range" \/ Len(Request[add.msg].files) > 1
        ELSE Len(Request[add.msg].files) = 1
    BY <1>1, Zenon DEF Fitting
  <1>4. add.msg \in Messages
    BY Zenon DEF Fitting
  <1> QED  BY <1>2, <1>3, <1>4, Zenon DEF Fitting

LEMMA SomeFile == ASSUME NEW m \in Messages  PROVE Len(Request[m].files) \in Nat /\ Len(Request[m].files) >= 1
                                                   /\ DOMAIN Request[m].files = 1 .. Len(Request[m].files)
  BY RequestAssumption DEF Messages

LEMMA OneOrMore == ASSUME NEW m \in Messages  PROVE Len(Request[m].files) > 1 \/ Len(Request[m].files) = 1
  <1>1. \A n \in Nat : n >= 1 => n > 1 \/ n = 1
    OBVIOUS
  <1> QED  BY <1>1, SomeFile, Zenon

(* What a button stands for, and the directory d that it settles on: without rules it is the *)
(* place of its own trail; what a prompt listed is in the plan the answer makes under the    *)
(* rules of the prompt.                                                                      *)
Shape(add) ==
  /\ add = [msg |-> add.msg, stor |-> add.stor, dirSet |-> add.dirSet, dirID |-> add.dirID, dir |-> add.dir,
            answer |-> add.answer, batch |-> add.batch, trail |-> add.trail]
  /\ add.trail = [stor |-> add.trail.stor, dir |-> add.trail.dir, prompt |-> add.trail.prompt,
                  apply |-> add.trail.apply]
Honest(add, d) ==
  /\ add.answer \in {"", "rename", "overwrite", "skip"}
  /\ add.answer = "" => add.trail.prompt = {} /\ ~add.trail.apply /\ add.stor = add.trail.stor
  /\ add.answer # "" => /\ Request[add.msg].kind # "transfer"
                        /\ add.trail.prompt \subseteq PlanIf(add.trail.apply, add.msg, add.batch, add.stor, d)
  /\ add.stor \in {add.trail.stor} \union {q.stor : q \in add.trail.prompt}
  /\ ~add.trail.apply => add.stor = add.trail.stor /\ d = add.trail.dir
  /\ ~add.dirSet => add.answer = "" /\ add.dir = <<>>
  /\ Fitting(add)

Settles(add) == IF add.dirID # NoDir THEN InDir(DirRow[add.dirID].path) ELSE add.dir
Button(add) == Shape(add) /\ Honest(add, Settles(add))

(* What a task keeps to. *)
Kept(t) ==
  LET trail == t.add.trail
      answer == t.add.answer
  IN /\ \A p \in t.places : Request[t.add.msg].kind = "transfer" \/ ~t.apply
                              => p.stor \in {trail.stor} \union {q.stor : q \in trail.prompt}
     /\ \A p \in t.places : (Request[t.add.msg].kind = "transfer" \/ (~t.apply /\ ~trail.apply))
                              => p = Place(trail.stor, trail.dir, p.file)
     /\ t.overwrite => "overwrite" = (IF answer = "" THEN t.setting ELSE answer)
     /\ answer = "overwrite" /\ t.apply = trail.apply => trail.prompt \subseteq t.places
     /\ answer = "skip" => t.places \intersect trail.prompt = {}

ButtonsHonest == DOMAIN shown = Messages /\ \A m \in Messages : \A add \in shown[m] : Button(add)
HandlersHonest ==
  /\ DOMAIN handler = Slots
  /\ \A s \in Slots : /\ handler[s].pc = "pressed" => Button(handler[s].add)
                      /\ handler[s].pc = "create" => Shape(handler[s].add) /\ Honest(handler[s].add, handler[s].dir)
                      /\ handler[s].pc = "add" => Kept(handler[s].task)
FlowInv == ButtonsHonest /\ HandlersHonest /\ ChoicesKept

(* What a prompt listed was there when it was made, and files are only added. *)
Listed(add) == add.trail.prompt \subseteq stored
PromptsTaken ==
  /\ \A m \in Messages : \A add \in shown[m] : Listed(add)
  /\ \A s \in Slots : handler[s].pc \in {"pressed", "create"} => Listed(handler[s].add)

LEMMA FlowStart == FlowInit => FlowInv
  BY DEF FlowInit, FlowInv, ButtonsHonest, HandlersHonest, ChoicesKept, Free

(* A handler is done, and what the message shows is honest. *)
LEMMA DoneKeeps ==
  ASSUME FlowInv, NEW m, NEW s, NEW buttons, \A add \in buttons : Button(add),
         shown' = shown \/ shown' = [shown EXCEPT ![m] = buttons],
         handler' = [handler EXCEPT ![s] = [pc |-> "done"]]
  PROVE  ButtonsHonest' /\ HandlersHonest'
  <1>1. ButtonsHonest'
    <2>1. \A n \in Messages : \A add \in shown'[n] : Button(add)
      BY DEF FlowInv, ButtonsHonest
    <2> QED  BY <2>1 DEF FlowInv, ButtonsHonest
  <1>2. HandlersHonest'
    BY DEF FlowInv, HandlersHonest
  <1> QED  BY <1>1, <1>2

LEMMA EmptyKeeps ==
  ASSUME FlowInv, NEW m, NEW s, shown' = shown \/ shown' = [shown EXCEPT ![m] = {}],
         handler' = [handler EXCEPT ![s] = [pc |-> "done"]]
  PROVE  ButtonsHonest' /\ HandlersHonest'
  <1>1. PICK none : none = {}
    BY Zenon
  <1>2. \A add \in none : Button(add)
    BY <1>1
  <1> QED  BY <1>1, <1>2, DoneKeeps

LEMMA ChoicesUnchanged == ASSUME ChoicesKept, UNCHANGED tasks  PROVE ChoicesKept'
  BY Zenon DEF ChoicesKept

(* ---- messages that arrive ---- *)
LEMMA StorageButtonsHonest == ASSUME NEW m \in Messages, NEW add \in StorageButtons(m)  PROVE Button(add)
  <1>1. PICK s \in Usable : add = [msg |-> m, stor |-> s, dirSet |-> FALSE, dirID |-> NoDir, dir |-> <<>>, answer |-> "",
           batch |-> Len(Request[m].files) > 1, trail |-> [stor |-> s, dir |-> <<>>, prompt |-> {}, apply |-> FALSE]]
    BY Zenon DEF StorageButtons
  <1>2. Shape(add)
    BY <1>1 DEF Shape
  <1>3. Settles(add) = <<>>
    BY <1>1 DEF Settles
  <1>5. Fitting(add)
    <2>1. PICK many : many = (Len(Request[m].files) > 1)
      BY Zenon
    <2>2. add.msg = m /\ add.batch = many
      BY <1>1, <2>1
    <2>3. Len(Request[m].files) > 1 \/ Len(Request[m].files) = 1
      BY OneOrMore, Zenon
    <2> QED  BY <2>1, <2>2, <2>3, Zenon DEF Fitting
  <1>4. Honest(add, <<>>)
    BY <1>1, <1>5, Zenon DEF Honest
  <1> QED  BY <1>2, <1>3, <1>4 DEF Button

LEMMA OffersKeeps == ASSUME FlowInv, NEW m \in Messages, OffersStorages(m) \/ Refuse(m)  PROVE FlowInv'
  <1>1. PICK buttons : /\ buttons \in {{}, StorageButtons(m)} /\ shown' = [shown EXCEPT ![m] = buttons]
                       /\ handler' = [handler EXCEPT ![FirstFree] = [pc |-> "done"]] /\ UNCHANGED tasks
    BY Zenon DEF OffersStorages, Refuse, Say, Finished
  <1>2. \A add \in buttons : Button(add)
    BY <1>1, StorageButtonsHonest
  <1>3. ButtonsHonest' /\ HandlersHonest'
    BY <1>1, <1>2, DoneKeeps
  <1> QED  BY <1>1, <1>3, ChoicesUnchanged DEF FlowInv

LEMMA SilentKeeps == ASSUME FlowInv, NEW m \in Messages, SaveSilently(m)  PROVE FlowInv'
  <1> DEFINE d == IF user.defDir = NoDir \/ Request[m].kind = "range" THEN <<>> ELSE InDir(DirRow[user.defDir].path)
             many == Request[m].kind = "range" \/ Len(Request[m].files) > 1
  <1>1. PICK add, dd : /\ dd = d
                       /\ add = [msg |-> m, stor |-> user.defStor, dirSet |-> FALSE, dirID |-> NoDir, dir |-> <<>>,
                                 answer |-> "", batch |-> many,
                                 trail |-> [stor |-> user.defStor, dir |-> dd, prompt |-> {}, apply |-> FALSE]]
    BY Zenon
  <1> HIDE DEF d, many
  <1>2. handler' = [handler EXCEPT ![FirstFree] = [pc |-> "create", dir |-> dd, add |-> add]]
        /\ shown' = [shown EXCEPT ![m] = {}] /\ UNCHANGED tasks
    BY <1>1, Zenon DEF SaveSilently, Say, d, many
  <1>3. Shape(add)
    BY <1>1 DEF Shape
  <1>7. Fitting(add)
    <2>1. PICK full : full = many
      BY Zenon
    <2>2. add.msg = m /\ add.batch = full
      BY <1>1, <2>1
    <2>3. full => Request[m].kind = "range" \/ Len(Request[m].files) > 1
      BY <2>1, Zenon DEF many
    <2>4. Len(Request[m].files) > 1 \/ Len(Request[m].files) = 1
      BY OneOrMore, Zenon
    <2> QED  BY <2>1, <2>2, <2>3, <2>4, Zenon DEF Fitting, many
  <1>4. Honest(add, dd)
    BY <1>1, <1>7, Zenon DEF Honest
  <1>5. ButtonsHonest'
    BY <1>2 DEF FlowInv, ButtonsHonest
  <1>6. HandlersHonest'
    BY <1>2, <1>3, <1>4 DEF FlowInv, HandlersHonest
  <1> QED  BY <1>2, <1>5, <1>6, ChoicesUnchanged DEF FlowInv

(* ---- buttons that are pressed ---- *)
LEMMA PressKeeps == ASSUME FlowInv, NEW m \in Messages, Press(m)  PROVE FlowInv'
  <1>1. PICK add \in shown[m] : handler' = [handler EXCEPT ![FirstFree] = [pc |-> "pressed", add |-> add]]
    BY DEF Press
  <1>2. Button(add)
    BY <1>1 DEF FlowInv, ButtonsHonest
  <1>3. UNCHANGED <<shown, tasks>>
    BY DEF Press
  <1>4. HandlersHonest'
    BY <1>1, <1>2 DEF FlowInv, HandlersHonest
  <1> QED  BY <1>3, <1>4, ChoicesUnchanged DEF FlowInv, ButtonsHonest

LEMMA DirButtonsHonest ==
  ASSUME NEW old, Button(old), AsksForDir(old), NEW add \in DirButtons(old)
  PROVE  Button(add) /\ add.trail.prompt = {}
  <1>1. PICK i, d : /\ d = (IF i = NoDir THEN <<>> ELSE InDir(DirRow[i].path))
                    /\ add = [old EXCEPT !.dirID = i, !.dirSet = TRUE, !.trail.dir = d]
    BY Zenon DEF DirButtons
  <1>2. PICK a : a = [old EXCEPT !.dirID = i]
    BY Zenon
  <1>3. PICK b : b = [a EXCEPT !.dirSet = TRUE]
    BY Zenon
  <1>4. PICK t : t = old.trail
    BY Zenon
  <1>5. PICK trail : trail = [t EXCEPT !.dir = d]
    BY Zenon
  <1>6. a = [msg |-> old.msg, stor |-> old.stor, dirSet |-> old.dirSet, dirID |-> i, dir |-> old.dir,
             answer |-> old.answer, batch |-> old.batch, trail |-> t]
    BY <1>2, <1>4 DEF Button, Shape
  <1>7. b = [msg |-> old.msg, stor |-> old.stor, dirSet |-> TRUE, dirID |-> i, dir |-> old.dir,
             answer |-> old.answer, batch |-> old.batch, trail |-> t]
    BY <1>3, <1>6
  <1>8. trail = [stor |-> t.stor, dir |-> d, prompt |-> t.prompt, apply |-> t.apply]
    BY <1>4, <1>5 DEF Button, Shape
  <1>9. add = [b EXCEPT !.trail = [b.trail EXCEPT !.dir = d]]
    BY <1>1, <1>2, <1>3, Zenon
  <1>10. b.trail = t
    BY <1>7
  <1>11. add = [b EXCEPT !.trail = trail]
    BY <1>5, <1>9, <1>10, Zenon
  <1>12. add = [msg |-> old.msg, stor |-> old.stor, dirSet |-> TRUE, dirID |-> i, dir |-> old.dir,
                answer |-> old.answer, batch |-> old.batch, trail |-> trail]
    BY <1>7, <1>11
  <1>13. Shape(add)
    BY <1>8, <1>12 DEF Shape
  <1>14. old.answer = "" /\ old.dir = <<>>
    BY Zenon DEF Button, Honest, AsksForDir
  <1>15. t.prompt = {} /\ ~t.apply /\ old.stor = t.stor
    BY <1>4, <1>14, Zenon DEF Button, Honest
  <1>16. Settles(add) = d
    BY <1>1, <1>12, <1>14 DEF Settles
  <1>17. /\ add.answer = "" /\ add.trail.prompt = {} /\ add.stor = add.trail.stor /\ add.dirSet
         /\ add.trail.apply = t.apply /\ d = add.trail.dir
    BY <1>8, <1>12, <1>14, <1>15
  <1>18. Fitting(add)
    <2>1. Fitting(old)
      BY Zenon DEF Button, Honest
    <2>2. add.msg = old.msg /\ add.batch = old.batch
      BY <1>12
    <2> QED  BY <2>1, <2>2, FittingStays
  <1>19. Honest(add, d)
    BY <1>15, <1>17, <1>18, Zenon DEF Honest
  <1> QED  BY <1>13, <1>16, <1>17, <1>19 DEF Button

LEMMA AskForDirKeeps == ASSUME FlowInv, NEW s \in Slots, AskForDir(s)  PROVE FlowInv'
  <1>1. PICK add : add = handler[s].add
    BY Zenon
  <1>2. /\ handler[s].pc = "pressed" /\ AsksForDir(add) /\ shown' = [shown EXCEPT ![add.msg] = DirButtons(add)]
        /\ handler' = [handler EXCEPT ![s] = [pc |-> "done"]] /\ UNCHANGED tasks
    BY <1>1, Zenon DEF AskForDir, Say, Finished
  <1>3. Button(add)
    BY <1>1, <1>2 DEF FlowInv, HandlersHonest
  <1>4. \A new \in DirButtons(add) : Button(new)
    BY <1>2, <1>3, DirButtonsHonest
  <1>5. ButtonsHonest' /\ HandlersHonest'
    BY <1>2, <1>4, DoneKeeps
  <1> QED  BY <1>2, <1>5, ChoicesUnchanged DEF FlowInv

LEMMA SettleDirKeeps == ASSUME FlowInv, NEW s \in Slots, SettleDir(s)  PROVE FlowInv'
  <1>1. PICK add, d : add = handler[s].add /\ d = Settles(add)
    BY Zenon
  <1>2. /\ handler[s].pc = "pressed" /\ handler' = [handler EXCEPT ![s] = [pc |-> "create", add |-> add, dir |-> d]]
        /\ UNCHANGED <<shown, tasks>>
    BY <1>1, Zenon DEF SettleDir, Settles
  <1>3. Shape(add) /\ Honest(add, d)
    BY <1>1, <1>2 DEF FlowInv, HandlersHonest, Button
  <1>4. HandlersHonest'
    BY <1>2, <1>3 DEF FlowInv, HandlersHonest
  <1> QED  BY <1>2, <1>4, ChoicesUnchanged DEF FlowInv, ButtonsHonest

(* ---- the creation of the task ---- *)
LEMMA AnswerButtonsHonest ==
  ASSUME NEW s, Shape(handler[s].add), Honest(handler[s].add, handler[s].dir),
         Strategy(handler[s].add) = "ask", Taken(s) # {}, NEW add \in AnswerButtons(s)
  PROVE  Button(add) /\ add.trail.prompt = Taken(s)
  <1>1. PICK old, d, p, on, found :
             old = handler[s].add /\ d = handler[s].dir /\ p = (CHOOSE q \in Taken(s) : TRUE) /\ on = user.apply
             /\ found = Taken(s)
    BY Zenon
  <1>2. PICK base : base = IF old.batch THEN [stor |-> old.stor, dir |-> d] ELSE [stor |-> p.stor, dir |-> p.dir]
    BY Zenon
  <1>3. PICK a : /\ a \in {"rename", "overwrite", "skip"}
                 /\ add = [old EXCEPT !.stor = base.stor, !.dir = base.dir, !.dirSet = TRUE, !.dirID = NoDir,
                           !.answer = a, !.trail.prompt = found, !.trail.apply = on]
    BY <1>1, <1>2, Zenon DEF AnswerButtons
  <1>4. PICK t, trail, st, di : /\ t = old.trail /\ st = base.stor /\ di = base.dir
                        /\ trail = [stor |-> t.stor, dir |-> t.dir, prompt |-> found, apply |-> on]
    BY Zenon
  <1>5. add = [msg |-> old.msg, stor |-> st, dirSet |-> TRUE, dirID |-> NoDir, dir |-> di,
               answer |-> a, batch |-> old.batch, trail |-> trail]
    <2>1. PICK o1 : o1 = [old EXCEPT !.stor = st]
      BY Zenon
    <2>2. PICK o2 : o2 = [o1 EXCEPT !.dir = di]
      BY Zenon
    <2>3. PICK o3 : o3 = [o2 EXCEPT !.dirSet = TRUE]
      BY Zenon
    <2>4. PICK o4 : o4 = [o3 EXCEPT !.dirID = NoDir]
      BY Zenon
    <2>5. PICK o5 : o5 = [o4 EXCEPT !.answer = a]
      BY Zenon
    <2>6. PICK t1 : t1 = [t EXCEPT !.prompt = found]
      BY Zenon
    <2>7. PICK o6 : o6 = [o5 EXCEPT !.trail = t1]
      BY Zenon
    <2>8. o1 = [msg |-> old.msg, stor |-> st, dirSet |-> old.dirSet, dirID |-> old.dirID, dir |-> old.dir,
                answer |-> old.answer, batch |-> old.batch, trail |-> t]
      BY <1>1, <1>4, <2>1 DEF Shape
    <2>9. o2 = [msg |-> old.msg, stor |-> st, dirSet |-> old.dirSet, dirID |-> old.dirID, dir |-> di,
                answer |-> old.answer, batch |-> old.batch, trail |-> t]
      BY <2>2, <2>8
    <2>10. o3 = [msg |-> old.msg, stor |-> st, dirSet |-> TRUE, dirID |-> old.dirID, dir |-> di,
                 answer |-> old.answer, batch |-> old.batch, trail |-> t]
      BY <2>3, <2>9
    <2>11. o4 = [msg |-> old.msg, stor |-> st, dirSet |-> TRUE, dirID |-> NoDir, dir |-> di,
                 answer |-> old.answer, batch |-> old.batch, trail |-> t]
      BY <2>4, <2>10
    <2>12. o5 = [msg |-> old.msg, stor |-> st, dirSet |-> TRUE, dirID |-> NoDir, dir |-> di,
                 answer |-> a, batch |-> old.batch, trail |-> t]
      BY <2>5, <2>11
    <2>13. t1 = [stor |-> t.stor, dir |-> t.dir, prompt |-> found, apply |-> t.apply]
      BY <1>1, <1>4, <2>6 DEF Shape
    <2>14. o6 = [msg |-> old.msg, stor |-> st, dirSet |-> TRUE, dirID |-> NoDir, dir |-> di,
                 answer |-> a, batch |-> old.batch, trail |-> t1]
      BY <2>7, <2>12
    <2>15. o6.trail = t1 /\ o5.trail = t
      BY <2>12, <2>14
    <2>16. trail = [t1 EXCEPT !.apply = on]
      BY <1>4, <2>13
    <2>17. [o5 EXCEPT !.trail.prompt = found] = o6
      BY <2>6, <2>7, <2>15, Zenon
    <2>18. add = [[o5 EXCEPT !.trail.prompt = found] EXCEPT !.trail.apply = on]
      BY <1>3, <1>4, <2>1, <2>2, <2>3, <2>4, <2>5, Zenon
    <2>19. add = [o6 EXCEPT !.trail = trail]
      BY <2>15, <2>16, <2>17, <2>18, Zenon
    <2> QED  BY <2>14, <2>19
  <1>6. Shape(add) /\ Settles(add) = di
    BY <1>4, <1>5 DEF Shape, Settles
  <1>7. old.answer = "" /\ Request[old.msg].kind # "transfer"
    <2>1. old.answer = ""
      BY <1>1, Zenon DEF Honest, Strategy, Strategies
    <2>2. Request[old.msg].kind # "transfer"
      BY <1>1, Zenon DEF Taken, IsTransfer
    <2> QED  BY <2>1, <2>2
  <1>8. t.prompt = {} /\ ~t.apply /\ old.stor = t.stor /\ d = t.dir
    BY <1>1, <1>4, <1>7, Zenon DEF Honest
  <1>9. found \subseteq PlanIf(on, old.msg, old.batch, old.stor, d) /\ p \in found
    <2>1. found \subseteq PlanOf(s)
      BY <1>1 DEF Taken
    <2>2. PlanOf(s) = PlanIf(on, old.msg, old.batch, old.stor, d)
      BY <1>1, <1>7, PlanUnderRules DEF PlanOf
    <2> QED  BY <1>1, <2>1, <2>2
  <1>10. st \in {t.stor} \union {q.stor : q \in found} /\ (~on => st = t.stor /\ di = t.dir)
    <2>1. CASE old.batch
      BY <1>2, <1>4, <1>8, <2>1
    <2>2. CASE ~old.batch
      <3>1. st = p.stor /\ di = p.dir
        BY <1>2, <1>4, <2>2
      <3>2. ASSUME ~on  PROVE p = Place(old.stor, d, p.file)
        BY <1>9, <3>2, PlanWithoutRules
      <3> QED  BY <1>8, <1>9, <3>1, <3>2 DEF Place
    <2> QED  BY <2>1, <2>2
  <1>11. found \subseteq PlanIf(on, old.msg, old.batch, st, di)
    <2>1. CASE old.batch
      BY <1>2, <1>4, <1>9, <2>1
    <2>2. CASE ~old.batch
      <3>1. st = p.stor /\ di = p.dir
        BY <1>2, <1>4, <2>2
      <3>2. PICK f : f = Request[old.msg].files[1]
        BY Zenon
      <3>3. \A x, y : PlanIf(on, old.msg, old.batch, x, y) = {SinglePlaceIf(on, f, x, y)}
        BY <2>2, <3>2, Zenon DEF PlanIf
      <3>4. p = SinglePlaceIf(on, f, old.stor, d) /\ found \subseteq {p}
        BY <1>9, <3>3
      <3>5. SinglePlaceIf(on, f, st, di) = p
        BY <3>1, <3>4, SinglePlaceStays
      <3> QED  BY <3>3, <3>4, <3>5
    <2> QED  BY <2>1, <2>2
  <1>12. /\ add.answer = a /\ add.msg = old.msg /\ add.batch = old.batch /\ add.stor = st /\ add.dirSet
         /\ add.trail.prompt = found /\ add.trail.apply = on /\ add.trail.stor = t.stor /\ add.trail.dir = t.dir
    BY <1>4, <1>5
  <1>13. a \in {"", "rename", "overwrite", "skip"} /\ a # ""
    BY <1>3
  <1>14. Fitting(add)
    <2>1. Fitting(old)
      BY <1>1, Zenon DEF Honest
    <2> QED  BY <1>12, <2>1, FittingStays
  <1>15. Honest(add, di)
    BY <1>7, <1>10, <1>11, <1>12, <1>13, <1>14, Zenon DEF Honest
  <1> QED  BY <1>1, <1>6, <1>12, <1>15 DEF Button

LEMMA AnswersKeep ==
  ASSUME FlowInv, NEW s \in Slots, MakeFails(s) \/ AskAboutTaken(s) \/ SkipAll(s)
  PROVE  FlowInv'
  <1>1. Creating(s) /\ handler' = [handler EXCEPT ![s] = [pc |-> "done"]] /\ UNCHANGED tasks
    BY Zenon DEF MakeFails, AskAboutTaken, SkipAll, Finished
  <1>2. PICK m, buttons : /\ shown' = [shown EXCEPT ![m] = buttons]
                          /\ buttons = {} \/ (buttons = AnswerButtons(s) /\ AskAboutTaken(s))
    BY Zenon DEF MakeFails, AskAboutTaken, SkipAll, Say
  <1>3. Shape(handler[s].add) /\ Honest(handler[s].add, handler[s].dir)
    BY <1>1 DEF FlowInv, HandlersHonest, Creating
  <1>4. \A add \in buttons : Button(add)
    BY <1>2, <1>3, AnswerButtonsHonest DEF AskAboutTaken
  <1>5. ButtonsHonest' /\ HandlersHonest'
    BY <1>1, <1>2, <1>4, DoneKeeps
  <1> QED  BY <1>1, <1>5, ChoicesUnchanged DEF FlowInv

LEMMA MakeTaskKeeps == ASSUME FlowInv, PromptsTaken, NEW s \in Slots, MakeTask(s)  PROVE FlowInv'
  <1>1. PICK add, d, plan, found, on, over :
          /\ add = handler[s].add /\ d = handler[s].dir /\ plan = PlanOf(s) /\ found = Taken(s) /\ on = user.apply
          /\ over = (~IsTransfer(s) /\ Strategy(handler[s].add) = "overwrite")
    BY Zenon
  <1>2. PICK t, v : /\ v = Verdict(s, "added")
                    /\ t = [add |-> add, places |-> plan \ found, apply |-> on, overwrite |-> over,
                            setting |-> user.strategy]
    BY Zenon
  <1>3. Creating(s) /\ handler' = [handler EXCEPT ![s] = [pc |-> "add", verdict |-> v, task |-> t]]
        /\ UNCHANGED <<shown, tasks>>
    BY <1>1, <1>2, Zenon DEF MakeTask
  <1>4. Honest(add, d)
    BY <1>1, <1>3 DEF FlowInv, HandlersHonest, Creating
  <1>5. /\ t.add = add /\ t.places = plan \ found /\ t.apply = on /\ t.overwrite = over
        /\ t.setting = user.strategy
    BY <1>2
  <1>6. \A p \in plan : (Request[add.msg].kind = "transfer" \/ ~on) => p = Place(add.stor, d, p.file)
    <2>1. CASE Request[add.msg].kind = "transfer"
      <3>1. plan = {Place(add.stor, d, f) : f \in FilesOf(add.msg) \ gone}
        BY <1>1, <2>1, Zenon DEF PlanOf, Plan
      <3> QED  BY <3>1 DEF Place
    <2>2. CASE Request[add.msg].kind # "transfer"
      <3>1. plan = PlanIf(on, add.msg, add.batch, add.stor, d)
        BY <1>1, <2>2, PlanUnderRules DEF PlanOf
      <3> QED  BY <2>2, <3>1, PlanWithoutRules
    <2> QED  BY <2>1, <2>2
  <1>7. Request[add.msg].kind = "transfer" => ~add.trail.apply
    BY <1>4, Zenon DEF Honest
  <1>8. add.answer \in {"", "rename", "overwrite", "skip"}
    BY <1>4 DEF Honest
  <1>9. Kept(t)
    <2>1. \A p \in plan \ found : Request[add.msg].kind = "transfer" \/ ~on
                  => p.stor \in {add.trail.stor} \union {q.stor : q \in add.trail.prompt}
      <3>1. add.stor \in {add.trail.stor} \union {q.stor : q \in add.trail.prompt}
        BY <1>4, Zenon DEF Honest
      <3>2. \A p \in plan : (Request[add.msg].kind = "transfer" \/ ~on) => p.stor = add.stor
        BY <1>6 DEF Place
      <3> QED  BY <3>1, <3>2
    <2>2. \A p \in plan \ found : (Request[add.msg].kind = "transfer" \/ (~on /\ ~add.trail.apply))
                  => p = Place(add.trail.stor, add.trail.dir, p.file)
      <3>1. ~add.trail.apply => add.stor = add.trail.stor /\ d = add.trail.dir
        BY <1>4, Zenon DEF Honest
      <3> QED  BY <1>6, <1>7, <3>1
    <2>3. over => "overwrite" = (IF add.answer = "" THEN user.strategy ELSE add.answer)
      <3>1. over => Strategy(add) = "overwrite"
        BY <1>1, Zenon
      <3> QED  BY <1>8, <3>1 DEF Strategy, Strategies
    <2>4. add.answer = "overwrite" /\ on = add.trail.apply => add.trail.prompt \subseteq plan \ found
      <3>1. SUFFICES ASSUME add.answer = "overwrite", on = add.trail.apply
                     PROVE  add.trail.prompt \subseteq plan \ found
        BY Zenon
      <3>2. Strategy(add) = "overwrite"
        BY <3>1 DEF Strategy, Strategies
      <3>3. found = {}
        BY <1>1, <3>2 DEF Taken
      <3>4. /\ Request[add.msg].kind # "transfer"
            /\ add.trail.prompt \subseteq PlanIf(add.trail.apply, add.msg, add.batch, add.stor, d)
        BY <1>4, <3>1 DEF Honest
      <3>5. plan = PlanIf(on, add.msg, add.batch, add.stor, d)
        BY <1>1, <3>4, PlanUnderRules DEF PlanOf
      <3> QED  BY <3>1, <3>3, <3>4, <3>5
    <2>5. add.answer = "skip" => (plan \ found) \intersect add.trail.prompt = {}
      <3>1. SUFFICES ASSUME add.answer = "skip"  PROVE (plan \ found) \intersect add.trail.prompt = {}
        BY Zenon
      <3>2. Strategy(add) = "skip"
        BY <3>1 DEF Strategy, Strategies
      <3>3. ~IsTransfer(s)
        BY <1>1, <1>4, <3>1 DEF Honest, IsTransfer
      <3>4. found = plan \intersect stored
        BY <1>1, <3>2, <3>3 DEF Taken
      <3>5. add.trail.prompt \subseteq stored
        BY <1>1, <1>3 DEF PromptsTaken, Listed, Creating
      <3> QED  BY <3>4, <3>5
    <2> QED  BY <1>5, <2>1, <2>2, <2>3, <2>4, <2>5, Zenon DEF Kept
  <1>10. HandlersHonest'
    BY <1>3, <1>9 DEF FlowInv, HandlersHonest
  <1> QED  BY <1>3, <1>10, ChoicesUnchanged DEF FlowInv, ButtonsHonest

LEMMA AddTaskKeeps == ASSUME FlowInv, NEW s \in Slots, AddTask(s) \/ AddFails(s)  PROVE FlowInv'
  <1>1. PICK t, m : t = handler[s].task /\ m = t.add.msg
    BY Zenon
  <1>2. /\ handler[s].pc = "add" /\ handler' = [handler EXCEPT ![s] = [pc |-> "done"]]
        /\ shown' = [shown EXCEPT ![m] = {}] /\ (tasks' = tasks \union {t} \/ tasks' = tasks)
    BY <1>1, Zenon DEF AddTask, AddFails, Finished, Say
  <1>3. Kept(t)
    BY <1>1, <1>2 DEF FlowInv, HandlersHonest
  <1>4. ChoicesKept'
    BY <1>2, <1>3, Zenon DEF FlowInv, ChoicesKept, Kept
  <1>5. ButtonsHonest' /\ HandlersHonest'
    BY <1>2, EmptyKeeps
  <1> QED  BY <1>4, <1>5 DEF FlowInv

(* What a prompt lists is in the database of places for good. *)
LEMMA StoredGrows == [FlowNext]_flowVars => stored \subseteq stored'
  BY DEF FlowNext, flowVars, AskForFile, AskForRange, AskForTransfer, OffersStorages, Refuse, SaveSilently, Press,
         Expire, Handle, Alert, AskForDir, SettleDir, MakeFails, AskAboutTaken, SkipAll, MakeTask, AddTask, AddFails,
         ChangeSettings

(* A step shows buttons that list what is there, and hands on those it has. *)
LEMMA ListedStay ==
  ASSUME FlowInv, PromptsTaken, stored \subseteq stored',
         NEW m, NEW buttons, \A add \in buttons : Listed(add), shown' = shown \/ shown' = [shown EXCEPT ![m] = buttons],
         NEW s, NEW new, new.pc \in {"pressed", "create"} => Listed(new.add),
         handler' = handler \/ handler' = [handler EXCEPT ![s] = new]
  PROVE  PromptsTaken'
  <1>1. \A n \in Messages : \A add \in shown'[n] : Listed(add)
    BY DEF FlowInv, ButtonsHonest, PromptsTaken
  <1>2. \A r \in Slots : handler'[r].pc \in {"pressed", "create"} => Listed(handler'[r].add)
    BY DEF FlowInv, HandlersHonest, PromptsTaken
  <1>3. \A n \in Messages : \A add \in shown'[n] : add.trail.prompt \subseteq stored'
    BY <1>1 DEF Listed
  <1>4. \A r \in Slots : handler'[r].pc \in {"pressed", "create"} => handler'[r].add.trail.prompt \subseteq stored'
    BY <1>2 DEF Listed
  <1> QED  BY <1>3, <1>4, Zenon DEF PromptsTaken, Listed

(* A step that shows no new buttons. *)
LEMMA ListedStayQuiet ==
  ASSUME FlowInv, PromptsTaken, stored \subseteq stored', NEW m, shown' = shown \/ shown' = [shown EXCEPT ![m] = {}],
         NEW s, NEW new, new.pc \in {"pressed", "create"} => Listed(new.add),
         handler' = handler \/ handler' = [handler EXCEPT ![s] = new]
  PROVE  PromptsTaken'
  <1>1. PICK none : none = {}
    BY Zenon
  <1>2. (\A add \in none : Listed(add)) /\ (shown' = shown \/ shown' = [shown EXCEPT ![m] = none])
    BY <1>1
  <1> QED  BY <1>2, ListedStay

LEMMA PromptsKeep == ASSUME FlowInv, PromptsTaken, [FlowNext]_flowVars  PROVE PromptsTaken'
  <1>0. stored \subseteq stored'
    BY StoredGrows
  <1>1. PICK over : over = [pc |-> "done"]
    BY Zenon
  <1>2. over.pc \in {"pressed", "create"} => Listed(over.add)
    BY <1>1
  <1>3. ASSUME NEW m \in Messages, OffersStorages(m) \/ Refuse(m)  PROVE PromptsTaken'
    <2>1. PICK buttons : /\ buttons \in {{}, StorageButtons(m)} /\ shown' = [shown EXCEPT ![m] = buttons]
                         /\ handler' = [handler EXCEPT ![FirstFree] = over]
      BY <1>1, <1>3, Zenon DEF OffersStorages, Refuse, Say, Finished
    <2>2. \A add \in buttons : Listed(add)
      <3>1. ASSUME NEW add \in StorageButtons(m)  PROVE add.trail.prompt = {}
        <4>1. PICK s, b : add = [msg |-> m, stor |-> s, dirSet |-> FALSE, dirID |-> NoDir, dir |-> <<>>, answer |-> "",
                 batch |-> b, trail |-> [stor |-> s, dir |-> <<>>, prompt |-> {}, apply |-> FALSE]]
          BY <3>1, Zenon DEF StorageButtons
        <4> QED  BY <4>1
      <3> QED  BY <2>1, <3>1 DEF Listed
    <2> QED  BY <1>0, <1>2, <2>1, <2>2, ListedStay
  <1>4. ASSUME NEW m \in Messages, SaveSilently(m)  PROVE PromptsTaken'
    <2>1. PICK new : /\ handler' = [handler EXCEPT ![FirstFree] = new] /\ new.add.trail.prompt = {}
                     /\ shown' = [shown EXCEPT ![m] = {}]
      <3>1. PICK d, b : handler' = [handler EXCEPT ![FirstFree] =
               [pc |-> "create", dir |-> d,
                add |-> [msg |-> m, stor |-> user.defStor, dirSet |-> FALSE, dirID |-> NoDir, dir |-> <<>>,
                         answer |-> "", batch |-> b,
                         trail |-> [stor |-> user.defStor, dir |-> d, prompt |-> {}, apply |-> FALSE]]]]
        BY <1>4, Zenon DEF SaveSilently
      <3> QED  BY <1>4, <3>1 DEF SaveSilently, Say
    <2>2. Listed(new.add)
      BY <2>1 DEF Listed
    <2> QED  BY <1>0, <2>1, <2>2, ListedStayQuiet
  <1>5. ASSUME NEW m \in Messages, Press(m)  PROVE PromptsTaken'
    <2>1. PICK add, new : /\ add \in shown[m] /\ new = [pc |-> "pressed", add |-> add] /\ UNCHANGED shown
                          /\ handler' = [handler EXCEPT ![FirstFree] = new]
      BY <1>5, Zenon DEF Press
    <2>2. Listed(new.add)
      BY <2>1 DEF PromptsTaken
    <2> QED  BY <1>0, <2>1, <2>2, ListedStayQuiet
  <1>6. ASSUME NEW s \in Slots, Handle(s)  PROVE PromptsTaken'
    <2>1. PICK old, m : old = handler[s].add /\ m = old.msg
      BY Zenon
    <2>2. CASE Alert(s) \/ MakeFails(s) \/ SkipAll(s) \/ AddTask(s) \/ AddFails(s)
      <3>1. PICK n : (shown' = shown \/ shown' = [shown EXCEPT ![n] = {}]) /\ handler' = [handler EXCEPT ![s] = over]
        BY <1>1, <2>2, Zenon DEF Alert, MakeFails, SkipAll, AddTask, AddFails, Say, Finished
      <3> QED  BY <1>0, <1>2, <3>1, ListedStayQuiet
    <2>3. CASE AskForDir(s)
      <3>1. /\ handler[s].pc = "pressed" /\ AsksForDir(old) /\ shown' = [shown EXCEPT ![m] = DirButtons(old)]
            /\ handler' = [handler EXCEPT ![s] = over]
        BY <1>1, <2>1, <2>3, Zenon DEF AskForDir, Say, Finished
      <3>2. Button(old)
        BY <2>1, <3>1 DEF FlowInv, HandlersHonest
      <3>3. \A b \in DirButtons(old) : Listed(b)
        BY <3>1, <3>2, DirButtonsHonest DEF Listed
      <3> QED  BY <1>0, <1>2, <3>1, <3>3, ListedStay
    <2>4. CASE SettleDir(s)
      <3>1. PICK d, new : /\ new = [pc |-> "create", add |-> old, dir |-> d] /\ UNCHANGED shown
                          /\ handler' = [handler EXCEPT ![s] = new] /\ handler[s].pc = "pressed"
        BY <2>1, <2>4, Zenon DEF SettleDir
      <3>2. Listed(new.add)
        BY <2>1, <3>1 DEF PromptsTaken
      <3> QED  BY <1>0, <3>1, <3>2, ListedStayQuiet
    <2>5. CASE AskAboutTaken(s)
      <3>1. /\ Creating(s) /\ shown' = [shown EXCEPT ![m] = AnswerButtons(s)] /\ handler' = [handler EXCEPT ![s] = over]
            /\ Strategy(old) = "ask" /\ Taken(s) # {}
        BY <1>1, <2>1, <2>5, Zenon DEF AskAboutTaken, Say, Finished
      <3>2. Shape(old) /\ Honest(old, handler[s].dir)
        BY <2>1, <3>1 DEF FlowInv, HandlersHonest, Creating
      <3>3. \A b \in AnswerButtons(s) : b.trail.prompt = Taken(s)
        BY <2>1, <3>1, <3>2, AnswerButtonsHonest
      <3>4. Taken(s) \subseteq stored
        BY DEF Taken
      <3>5. \A b \in AnswerButtons(s) : Listed(b)
        BY <3>3, <3>4 DEF Listed
      <3> QED  BY <1>0, <1>2, <3>1, <3>5, ListedStay
    <2>6. CASE MakeTask(s)
      <3>1. PICK t, v, new : /\ new = [pc |-> "add", verdict |-> v, task |-> t] /\ UNCHANGED shown
                             /\ handler' = [handler EXCEPT ![s] = new]
        BY <2>6, Zenon DEF MakeTask
      <3>2. new.pc \in {"pressed", "create"} => Listed(new.add)
        BY <3>1
      <3> QED  BY <1>0, <3>1, <3>2, ListedStayQuiet
    <2> QED  BY <1>6, <2>2, <2>3, <2>4, <2>5, <2>6, Zenon DEF Handle
  <1>7. CASE ChangeSettings \/ (\E m \in Messages : Expire(m)) \/ UNCHANGED flowVars
    <2>1. UNCHANGED <<shown, handler>>
      BY <1>7, Zenon DEF ChangeSettings, Expire, flowVars
    <2> QED  BY <1>0, <1>2, <2>1, ListedStayQuiet
  <1> QED  BY <1>3, <1>4, <1>5, <1>6, <1>7, Zenon DEF FlowNext, AskForFile, AskForRange, AskForTransfer

LEMMA FlowKeeps == ASSUME FlowInv, PromptsTaken, [FlowNext]_flowVars  PROVE FlowInv'
  <1>1. CASE \E m \in Messages : AskForFile(m) \/ AskForRange(m) \/ AskForTransfer(m) \/ Refuse(m) \/ SaveSilently(m)
    BY <1>1, OffersKeeps, SilentKeeps DEF AskForFile, AskForRange, AskForTransfer
  <1>2. CASE \E m \in Messages : Press(m)
    BY <1>2, PressKeeps
  <1>3. CASE \E s \in Slots : Handle(s)
    <2>1. PICK s \in Slots : Handle(s)
      BY <1>3
    <2>2. CASE Alert(s)
      <3>1. handler' = [handler EXCEPT ![s] = [pc |-> "done"]] /\ UNCHANGED <<shown, tasks>>
        BY <2>2 DEF Alert, Finished
      <3>2. ButtonsHonest' /\ HandlersHonest'
        BY <3>1, EmptyKeeps
      <3> QED  BY <3>1, <3>2, ChoicesUnchanged DEF FlowInv
    <2> QED
      BY <2>1, <2>2, AskForDirKeeps, SettleDirKeeps, AnswersKeep, MakeTaskKeeps, AddTaskKeeps DEF Handle
  <1>4. CASE ChangeSettings \/ (\E m \in Messages : Expire(m)) \/ UNCHANGED flowVars
    <2>1. UNCHANGED <<shown, handler, tasks>>
      BY <1>4, Zenon DEF ChangeSettings, Expire, flowVars
    <2> QED  BY <2>1, ChoicesUnchanged DEF FlowInv, ButtonsHonest, HandlersHonest
  <1> QED  BY <1>1, <1>2, <1>3, <1>4 DEF FlowNext

(* Whatever buttons are pressed twice, answered late or after the settings changed: a task puts *)
(* every file that no rule moves where the buttons of its own chain said, replaces files only   *)
(* when the user asked for it, and an answer to a prompt acts on what the prompt listed         *)
(* (client/bot/handlers/add_task.go:25-92, handlers/utils/shortcut/tftask.go:125-299).             *)
THEOREM ChoicesHonoured == FlowSpec => []ChoicesKept
  <1>1. FlowInit => FlowInv /\ PromptsTaken
    BY FlowStart DEF FlowInit, PromptsTaken, Free
  <1>2. FlowInv /\ PromptsTaken /\ [FlowNext]_flowVars => FlowInv' /\ PromptsTaken'
    BY FlowKeeps, PromptsKeep
  <1>3. FlowInv => ChoicesKept
    BY DEF FlowInv
  <1> QED  BY <1>1, <1>2, <1>3, PTL DEF FlowSpec

(* ---- the files that an answer accounts for ---- *)
LeftOut(m, on) ==
  FilesOf(m) \intersect (IF Request[m].kind = "transfer" THEN gone ELSE {f \in FilesOf(m) : on /\ LeftAlone(m, f)})
Accounts(m, v) ==
  FilesOf(m) = {p.file : p \in v.saved} \union v.skipped \union LeftOut(m, v.apply)

LEMMA PlaceNamesFile ==
  /\ \A fs, f, s, d : BatchPlace(fs, f, s, d).file = f
  /\ \A f, s, d : SinglePlace(f, s, d).file = f
  <1>1. \A s, d, f : Place(s, d, f).file = f
    BY DEF Place
  <1>2. ASSUME NEW fs, NEW f, NEW s, NEW d  PROVE BatchPlace(fs, f, s, d).file = f
    <2>1. PICK first : first = fs[Min(InAlbum(fs, Group[f]))]
      BY Zenon
    <2>2. CASE ~Matched(f)
      <3>1. ~AlbumDir(f)
        BY <2>2, Zenon DEF AlbumDir
      <3> QED  BY <1>1, <2>2, Zenon DEF BatchPlace, AlbumDir
    <2>3. CASE Matched(f) /\ AlbumDir(f)
      <3>1. BatchPlace(fs, f, s, d) = Place(RuleStorage(first, s), Append(d, first), f)
        BY <2>1, <2>3, Zenon DEF BatchPlace
      <3> QED  BY <1>1, <3>1, Zenon
    <2>4. CASE Matched(f) /\ ~AlbumDir(f)
      BY <1>1, <2>4, Zenon DEF BatchPlace
    <2> QED  BY <2>2, <2>3, <2>4
  <1>3. \A f, s, d : SinglePlace(f, s, d).file = f
    BY <1>1, Zenon DEF SinglePlace
  <1> QED  BY <1>2, <1>3

(* The files of a batch that have no place are those a rule leaves alone in their album. *)
LEMMA DroppedAlone ==
  ASSUME NEW m \in Messages, Request[m].kind = "range" \/ Len(Request[m].files) > 1, NEW f
  PROVE  Dropped(Request[m].files, f) <=> user.apply /\ LeftAlone(m, f)
  <1>1. \A g : AlbumDir(g) <=> user.apply /\ ApplyRule[g].dir = NewForAlbum
    <2>1. ASSUME NEW r, r = [stor |-> "", dir |-> ""]  PROVE r.dir # NewForAlbum
      BY <2>1 DEF NewForAlbum
    <2> QED  BY <2>1, Zenon DEF AlbumDir, Matched
  <1>2. CASE ~user.apply
    BY <1>1, <1>2, Zenon DEF Dropped
  <1>3. CASE user.apply
    <2>1. PICK fs : fs = Request[m].files
      BY Zenon
    <2>2. \A i : AlbumDir(fs[i]) <=> ApplyRule[fs[i]].dir = NewForAlbum
      BY <1>1, <1>3
    <2>3. InAlbum(fs, Group[f]) = Together(fs, f)
      BY <2>2, Zenon DEF InAlbum, Together
    <2> QED  BY <1>1, <1>3, <2>1, <2>3, Zenon DEF Dropped, LeftAlone
  <1> QED  BY <1>2, <1>3

(* A plan names every file of its message but those that are left out. *)
LEMMA PlanNames ==
  ASSUME NEW add, Fitting(add), NEW d
  PROVE  FilesOf(add.msg) = {p.file : p \in Plan(add, d)} \union LeftOut(add.msg, user.apply)
  <1>1. PICK m, s, fs, every, plan :
           m = add.msg /\ s = add.stor /\ fs = Request[m].files /\ every = FilesOf(m) /\ plan = Plan(add, d)
    BY Zenon
  <1>2. m \in Messages
    BY <1>1, Zenon DEF Fitting
  <1>3. CASE Request[m].kind = "transfer"
    <2>1. plan = {Place(s, d, f) : f \in every \ gone}
      BY <1>1, <1>3, Zenon DEF Plan
    <2>2. {p.file : p \in plan} = every \ gone
      <3>1. \A f : Place(s, d, f).file = f
        BY DEF Place
      <3> QED  BY <2>1, <3>1
    <2>3. LeftOut(m, user.apply) = every \intersect gone
      BY <1>1, <1>3, Zenon DEF LeftOut
    <2> QED  BY <1>1, <2>2, <2>3
  <1>4. CASE Request[m].kind # "transfer" /\ add.batch
    <2>1. Request[m].kind = "range" \/ Len(fs) > 1
      BY <1>1, <1>4, Zenon DEF Fitting
    <2>2. plan = {BatchPlace(fs, f, s, d) : f \in {f \in every : ~Dropped(fs, f)}}
      BY <1>1, <1>4, Zenon DEF Plan, FilesOf
    <2>3. {p.file : p \in plan} = {f \in every : ~Dropped(fs, f)}
      BY <2>2, PlaceNamesFile
    <2>4. LeftOut(m, user.apply) = every \intersect {f \in every : user.apply /\ LeftAlone(m, f)}
      BY <1>1, <1>4, Zenon DEF LeftOut
    <2>5. \A f : Dropped(fs, f) <=> user.apply /\ LeftAlone(m, f)
      BY <1>1, <1>2, <2>1, DroppedAlone, Zenon
    <2>6. LeftOut(m, user.apply) = {f \in every : Dropped(fs, f)}
      BY <2>4, <2>5, Zenon
    <2>7. every = {p.file : p \in plan} \union LeftOut(m, user.apply)
      BY <2>3, <2>6
    <2> QED  BY <1>1, <2>7
  <1>5. CASE Request[m].kind # "transfer" /\ ~add.batch
    <2>1. Len(fs) = 1
      BY <1>1, <1>5, Zenon DEF Fitting
    <2>2. DOMAIN fs = {1}
      BY <1>1, <1>2, <2>1, SomeFile
    <2>3. every = {fs[1]}
      BY <1>1, <2>2 DEF FilesOf, ToSet
    <2>4. plan = {SinglePlace(fs[1], s, d)}
      BY <1>1, <1>5, Zenon DEF Plan
    <2>5. {p.file : p \in plan} = {fs[1]}
      BY <2>4, PlaceNamesFile
    <2>6. PICK left : left = LeftOut(m, user.apply)
      BY Zenon
    <2>7. left \subseteq every
      <3>1. left \subseteq FilesOf(m)
        BY <2>6, Zenon DEF LeftOut
      <3> QED  BY <1>1, <3>1
    <2>8. every = {p.file : p \in plan} \union left
      BY <2>3, <2>5, <2>7
    <2> QED  BY <1>1, <2>6, <2>8, Zenon
  <1> QED  BY <1>3, <1>4, <1>5

(* So does the verdict that a handler will give. *)
VerdictsHold ==
  \A s \in Slots : handler[s].pc = "add" =>
    /\ handler[s].task.add.msg \in Messages
    /\ Accounts(handler[s].task.add.msg, handler[s].verdict)

AccountInv == FlowInv /\ PromptsTaken /\ VerdictsHold /\ DOMAIN said = Messages /\ FilesAccounted

LEMMA AccountsAre == FilesAccounted <=> \A m \in Messages : said[m].what \in {"added", "skipped"} => Accounts(m, said[m])
  BY Zenon DEF FilesAccounted, Accounts, LeftOut

(* A verdict accounts for every file. *)
LEMMA VerdictAccounts ==
  ASSUME FlowInv, NEW s \in Slots, Creating(s), NEW what
  PROVE  Accounts(handler[s].add.msg, Verdict(s, what)) /\ handler[s].add.msg \in Messages
  <1>1. PICK add, d : add = handler[s].add /\ d = handler[s].dir
    BY Zenon
  <1>2. Fitting(add)
    BY <1>1, Zenon DEF FlowInv, HandlersHonest, Honest, Creating
  <1>3. PICK m, plan, had, v : m = add.msg /\ plan = PlanOf(s) /\ had = Taken(s) /\ v = Verdict(s, what)
    BY Zenon
  <1>4. FilesOf(m) = {p.file : p \in plan} \union LeftOut(m, user.apply)
    BY <1>1, <1>2, <1>3, PlanNames, Zenon DEF PlanOf
  <1>5. had \subseteq plan
    BY <1>3 DEF Taken
  <1>6. v = [what |-> what, saved |-> plan \ had, skipped |-> {p.file : p \in had}, apply |-> user.apply]
    BY <1>3, Zenon DEF Verdict
  <1>7. PICK on : on = user.apply
    BY Zenon
  <1>8. v.saved = plan \ had /\ v.skipped = {p.file : p \in had} /\ v.apply = on
    BY <1>6, <1>7
  <1>9. {p.file : p \in v.saved} \union v.skipped = {p.file : p \in plan}
    BY <1>5, <1>8
  <1>10. Accounts(m, v)
    BY <1>4, <1>7, <1>8, <1>9, Zenon DEF Accounts
  <1> QED  BY <1>1, <1>2, <1>3, <1>10, Zenon DEF Fitting

(* What was accounted for stays so: files only leave the source of a transfer. *)
LEMMA AccountStays ==
  ASSUME NEW m, NEW v, Accounts(m, v), gone \subseteq gone'
  PROVE  Accounts(m, v)'
  <1>1. PICK every, names, skips, on :
           every = FilesOf(m) /\ names = {p.file : p \in v.saved} /\ skips = v.skipped /\ on = v.apply
    BY Zenon
  <1>2. LeftOut(m, on) \subseteq LeftOut(m, on)'
    BY DEF LeftOut
  <1>3. every = names \union skips \union LeftOut(m, on)
    BY <1>1, Zenon DEF Accounts
  <1>4. LeftOut(m, on)' \subseteq every
    BY <1>1, Zenon DEF LeftOut
  <1>5. every = names \union skips \union LeftOut(m, on)'
    BY <1>2, <1>3, <1>4
  <1> QED  BY <1>1, <1>5, Zenon DEF Accounts

LEMMA AccountsStay ==
  ASSUME AccountInv, gone \subseteq gone', DOMAIN said' = Messages,
         \A m \in Messages : \/ said'[m] = said[m]
                             \/ said'[m].what \in {"added", "skipped"} => Accounts(m, said'[m]) /\ UNCHANGED gone
  PROVE  FilesAccounted'
  <1>1. SUFFICES ASSUME NEW m \in Messages, NEW v, v = said'[m], v.what \in {"added", "skipped"}
                 PROVE  Accounts(m, v)'
    BY Zenon DEF FilesAccounted, Accounts, LeftOut
  <1>2. Accounts(m, v)
    <2>1. CASE said'[m] = said[m]
      BY <1>1, <2>1, AccountsAre, Zenon DEF AccountInv
    <2>2. CASE said'[m] # said[m]
      BY <1>1, <2>2
    <2> QED  BY <2>1, <2>2
  <1> QED  BY <1>2, AccountStays

(* An answer that is not final says nothing of the files. *)
LEMMA SaysKeeps ==
  ASSUME AccountInv, NEW m \in Messages, NEW what, UNCHANGED gone, said' = [said EXCEPT ![m] = what],
         what.what \in {"added", "skipped"} => Accounts(m, what)
  PROVE  DOMAIN said' = Messages /\ FilesAccounted'
  <1>1. /\ DOMAIN said' = Messages /\ said'[m] = what
        /\ \A n \in Messages \ {m} : said'[n] = said[n]
    BY DEF AccountInv
  <1>2. \A n \in Messages : \/ said'[n] = said[n]
                            \/ said'[n].what \in {"added", "skipped"} => Accounts(n, said'[n]) /\ UNCHANGED gone
    BY <1>1
  <1>3. gone \subseteq gone'
    OBVIOUS
  <1>4. FilesAccounted'
    BY <1>1, <1>2, <1>3, AccountsStay, Zenon
  <1> QED  BY <1>1, <1>4

LEMMA SilenceKeeps ==
  ASSUME AccountInv, UNCHANGED said, gone \subseteq gone'
  PROVE  DOMAIN said' = Messages /\ FilesAccounted'
  <1>1. DOMAIN said' = Messages /\ \A m \in Messages : said'[m] = said[m]
    BY DEF AccountInv
  <1> QED  BY <1>1, AccountsStay, Zenon

LEMMA HandleAccounts ==
  ASSUME AccountInv, NEW s \in Slots, Handle(s)
  PROVE  DOMAIN said' = Messages /\ FilesAccounted'
  <1>1. PICK m : m = handler[s].add.msg
    BY Zenon
  <1>2. UNCHANGED gone
    BY DEF Handle, Alert, AskForDir, SettleDir, MakeFails, AskAboutTaken, SkipAll, MakeTask, AddTask, AddFails
  <1>3. CASE Alert(s) \/ SettleDir(s) \/ MakeTask(s)
    <2>1. UNCHANGED said
      BY <1>3, Zenon DEF Alert, SettleDir, MakeTask
    <2>2. gone \subseteq gone'
      BY <1>2
    <2> QED  BY <2>1, <2>2, SilenceKeeps
  <1>4. handler[s].pc \in {"pressed", "create"} => m \in Messages
    BY <1>1, Zenon DEF AccountInv, FlowInv, HandlersHonest, Button, Honest, Fitting
  <1>5. CASE AskForDir(s) \/ MakeFails(s) \/ AskAboutTaken(s)
    <2>1. PICK w \in {"dirs", "failed", "conflict"} : said' = [said EXCEPT ![m] = [what |-> w]]
      BY <1>1, <1>5, Zenon DEF AskForDir, MakeFails, AskAboutTaken, Say
    <2>2. m \in Messages
      BY <1>4, <1>5, Zenon DEF AskForDir, MakeFails, AskAboutTaken, Creating
    <2>3. [what |-> w].what \notin {"added", "skipped"}
      BY <2>1
    <2> QED  BY <1>2, <2>1, <2>2, <2>3, SaysKeeps
  <1>6. CASE SkipAll(s)
    <2>1. Creating(s) /\ said' = [said EXCEPT ![m] = Verdict(s, "skipped")]
      BY <1>1, <1>6, Zenon DEF SkipAll, Say
    <2>2. Accounts(m, Verdict(s, "skipped")) /\ m \in Messages
      BY <1>1, <2>1, VerdictAccounts, Zenon DEF AccountInv
    <2> QED  BY <1>2, <2>1, <2>2, SaysKeeps
  <1>7. CASE AddTask(s) \/ AddFails(s)
    <2>1. PICK n, v : n = handler[s].task.add.msg /\ v = handler[s].verdict
      BY Zenon
    <2>2. n \in Messages /\ Accounts(n, v)
      BY <1>7, <2>1, Zenon DEF AccountInv, VerdictsHold, AddTask, AddFails
    <2>3. CASE AddTask(s)
      <3>1. said' = [said EXCEPT ![n] = v]
        BY <2>1, <2>3, Zenon DEF AddTask, Say
      <3> QED  BY <1>2, <2>2, <3>1, SaysKeeps
    <2>4. CASE AddFails(s)
      <3>1. PICK failed : failed = [what |-> "failed"]
        BY Zenon
      <3>2. said' = [said EXCEPT ![n] = failed]
        BY <2>1, <2>4, <3>1, Zenon DEF AddFails, Say
      <3>3. failed.what \notin {"added", "skipped"}
        BY <3>1
      <3> QED  BY <1>2, <2>2, <3>2, <3>3, SaysKeeps
    <2> QED  BY <1>7, <2>3, <2>4
  <1> QED  BY <1>3, <1>5, <1>6, <1>7, Zenon DEF Handle

LEMMA VerdictsKept ==
  ASSUME AccountInv, gone \subseteq gone', NEW s, NEW new,
         handler' = handler \/ handler' = [handler EXCEPT ![s] = new],
         new.pc = "add" => new.task.add.msg \in Messages /\ Accounts(new.task.add.msg, new.verdict)
  PROVE  VerdictsHold'
  <1>1. SUFFICES ASSUME NEW r \in Slots, NEW h, h = handler'[r], h.pc = "add"
                 PROVE  h.task.add.msg \in Messages /\ Accounts(h.task.add.msg, h.verdict)'
    BY Zenon DEF VerdictsHold, Accounts
  <1>2. h = handler[r] \/ h = new
    BY <1>1 DEF AccountInv, FlowInv, HandlersHonest
  <1>3. PICK m, v : m = h.task.add.msg /\ v = h.verdict
    BY Zenon
  <1>4. m \in Messages /\ Accounts(m, v)
    BY <1>1, <1>2, <1>3, Zenon DEF AccountInv, VerdictsHold
  <1>5. Accounts(m, v)'
    BY <1>4, AccountStays
  <1> QED  BY <1>3, <1>4, <1>5, Zenon DEF Accounts

LEMMA VerdictsStay == ASSUME AccountInv, [FlowNext]_flowVars  PROVE VerdictsHold'
  <1>1. gone \subseteq gone'
    BY DEF FlowNext, flowVars, AskForFile, AskForRange, AskForTransfer, OffersStorages, Refuse, SaveSilently, Press,
           Expire, Handle, Alert, AskForDir, SettleDir, MakeFails, AskAboutTaken, SkipAll, MakeTask, AddTask, AddFails,
           ChangeSettings
  <1>2. ASSUME NEW s \in Slots, MakeTask(s)  PROVE VerdictsHold'
    <2>1. PICK t, v, new : /\ new = [pc |-> "add", verdict |-> v, task |-> t] /\ v = Verdict(s, "added")
                           /\ t.add.msg = handler[s].add.msg /\ handler' = [handler EXCEPT ![s] = new]
      <3>1. PICK v, t : /\ v = Verdict(s, "added")
                        /\ t = [add |-> handler[s].add, places |-> PlanOf(s) \ Taken(s), apply |-> user.apply,
                                overwrite |-> ~IsTransfer(s) /\ Strategy(handler[s].add) = "overwrite",
                                setting |-> user.strategy]
        BY Zenon
      <3>2. handler' = [handler EXCEPT ![s] = [pc |-> "add", verdict |-> v, task |-> t]]
        BY <1>2, <3>1, Zenon DEF MakeTask
      <3>3. t.add = handler[s].add
        BY <3>1
      <3> QED  BY <3>1, <3>2, <3>3, Zenon
    <2>2. Creating(s)
      BY <1>2, Zenon DEF MakeTask
    <2>3. t.add.msg \in Messages /\ Accounts(t.add.msg, v)
      BY <2>1, <2>2, VerdictAccounts, Zenon DEF AccountInv
    <2>4. new.task = t /\ new.verdict = v
      BY <2>1
    <2>5. new.task.add.msg \in Messages /\ Accounts(new.task.add.msg, new.verdict)
      BY <2>3, <2>4, Zenon
    <2> QED  BY <1>1, <2>1, <2>5, VerdictsKept
  <1>3. ASSUME NEW s, NEW new, new.pc # "add", handler' = handler \/ handler' = [handler EXCEPT ![s] = new]
        PROVE  VerdictsHold'
    BY <1>1, <1>3, VerdictsKept
  <1>4. CASE \E m \in Messages : AskForFile(m) \/ AskForRange(m) \/ AskForTransfer(m) \/ Refuse(m) \/ SaveSilently(m) \/ Press(m)
    <2>1. PICK d, a, new : /\ new \in {[pc |-> "done"], [pc |-> "create", dir |-> d, add |-> a], [pc |-> "pressed", add |-> a]}
                           /\ handler' = [handler EXCEPT ![FirstFree] = new]
      <3>1. PICK m \in Messages : OffersStorages(m) \/ Refuse(m) \/ SaveSilently(m) \/ Press(m)
        BY <1>4, Zenon DEF AskForFile, AskForRange, AskForTransfer
      <3>2. CASE OffersStorages(m) \/ Refuse(m)
        BY <3>2 DEF OffersStorages, Refuse, Finished
      <3>3. CASE SaveSilently(m)
        <4>1. PICK d, a : handler' = [handler EXCEPT ![FirstFree] = [pc |-> "create", dir |-> d, add |-> a]]
          BY <3>3, Zenon DEF SaveSilently
        <4> QED  BY <4>1
      <3>4. CASE Press(m)
        BY <3>4 DEF Press
      <3> QED  BY <3>1, <3>2, <3>3, <3>4
    <2>2. new.pc # "add"
      BY <2>1
    <2> QED  BY <1>3, <2>1, <2>2
  <1>5. ASSUME NEW s \in Slots, Handle(s), ~MakeTask(s)  PROVE VerdictsHold'
    <2>1. PICK d, a, new : /\ new \in {[pc |-> "done"], [pc |-> "create", add |-> a, dir |-> d]}
                           /\ handler' = [handler EXCEPT ![s] = new]
      <3>1. CASE SettleDir(s)
        <4>1. PICK d, a : handler' = [handler EXCEPT ![s] = [pc |-> "create", add |-> a, dir |-> d]]
          BY <3>1, Zenon DEF SettleDir
        <4> QED  BY <4>1
      <3>2. CASE ~SettleDir(s)
        <4>1. handler' = [handler EXCEPT ![s] = [pc |-> "done"]]
          BY <1>5, <3>2, Zenon DEF Handle, Alert, AskForDir, MakeFails, AskAboutTaken, SkipAll, AddTask, AddFails, Finished
        <4> QED  BY <4>1
      <3> QED  BY <3>1, <3>2
    <2>2. new.pc # "add"
      BY <2>1
    <2> QED  BY <1>3, <2>1, <2>2
  <1>6. CASE ChangeSettings \/ (\E m \in Messages : Expire(m)) \/ UNCHANGED flowVars
    <2>1. handler' = handler
      BY <1>6, Zenon DEF ChangeSettings, Expire, flowVars
    <2>2. PICK new : new = [pc |-> "done"]
      BY Zenon
    <2>3. new.pc # "add"
      BY <2>2
    <2> QED  BY <1>3, <2>1, <2>3
  <1> QED  BY <1>2, <1>4, <1>5, <1>6, Zenon DEF FlowNext

(* Whatever the rules, the album a file belongs to and the prompts that were answered: when the *)
(* answer to a request is final, every file is in its task or named as skipped, but for those a *)
(* NEW-FOR-ALBUM rule leaves alone in their album, and those that left a transfer's source      *)
(* (handlers/utils/shortcut/tftask.go:125-299).                                                 *)
THEOREM EveryFileAccounted == FlowSpec => []FilesAccounted
  <1>1. FlowInit => AccountInv
    <2>1. ASSUME FlowInit  PROVE AccountInv
      <3>1. PromptsTaken /\ VerdictsHold
        BY <2>1 DEF FlowInit, PromptsTaken, VerdictsHold, Free
      <3> QED  BY <2>1, <3>1, FlowStart DEF FlowInit, AccountInv, FilesAccounted
    <2> QED  BY <2>1
  <1>2. ASSUME AccountInv, [FlowNext]_flowVars  PROVE AccountInv'
    <2>1. FlowInv' /\ PromptsTaken' /\ VerdictsHold'
      BY <1>2, FlowKeeps, PromptsKeep, VerdictsStay DEF AccountInv
    <2>2. DOMAIN said' = Messages /\ FilesAccounted'
      <3>1. CASE \E m \in Messages : AskForFile(m) \/ AskForRange(m) \/ AskForTransfer(m) \/ Refuse(m) \/ SaveSilently(m)
        <4>1. PICK m \in Messages, w \in {"storages", "failed", "working"} :
                 said' = [said EXCEPT ![m] = [what |-> w]] /\ UNCHANGED gone
          BY <3>1, Zenon DEF AskForFile, AskForRange, AskForTransfer, OffersStorages, Refuse, SaveSilently, Say
        <4>2. [what |-> w].what \notin {"added", "skipped"}
          BY <4>1
        <4> QED  BY <1>2, <4>1, <4>2, SaysKeeps
      <3>2. CASE \E s \in Slots : Handle(s)
        BY <1>2, <3>2, HandleAccounts
      <3>3. CASE ChangeSettings \/ (\E m \in Messages : Press(m) \/ Expire(m)) \/ UNCHANGED flowVars
        <4>1. UNCHANGED said
          BY <3>3, Zenon DEF ChangeSettings, Press, Expire, flowVars
        <4>2. gone \subseteq gone'
          BY <3>3 DEF ChangeSettings, Press, Expire, flowVars
        <4> QED  BY <1>2, <4>1, <4>2, SilenceKeeps
      <3> QED  BY <1>2, <3>1, <3>2, <3>3 DEF FlowNext
    <2> QED  BY <2>1, <2>2 DEF AccountInv
  <1>3. AccountInv => FilesAccounted
    BY DEF AccountInv
  <1> QED  BY <1>1, <1>2, <1>3, PTL DEF FlowSpec

----------------------------------------------------------------------------
(* The settings of a user (UserSettings). *)
Snaps == {h \in Handlers : command[h].pc \in {"read", "save"}}
Users == {row} \union {command[h].row : h \in Snaps}
AllRows == rows \union UNION {command[h].rows : h \in Snaps}

Shaped ==
  /\ DOMAIN command = Handlers
  /\ \A h \in Snaps : command[h] = [pc |-> command[h].pc, cmd |-> command[h].cmd, row |-> command[h].row,
                                    rows |-> command[h].rows]
  /\ told = [row |-> told.row, rows |-> told.rows] /\ told.row = [f \in Fields |-> told.row[f]]
  /\ stale = [fields |-> stale.fields, rows |-> stale.rows]
  /\ nextId \in Nat \ {0}

(* Users and directories, those of the database and those a handler has read: *)
(* a directory that is somebody's default is one of the default storage.      *)
UserOK(R, n) == R = [f \in Fields |-> R[f]] /\ R.defDir \in Nat /\ R.defDir < n
Fits(R, rs) == \A d \in rs : d.table = "dirs" /\ R.defDir = d.id => R.defStor = d.value

DirsFit ==
  /\ \A r \in AllRows : r.id \in Nat /\ 0 < r.id /\ r.id < nextId
  /\ \A d, e \in AllRows : d.table = "dirs" /\ e.table = "dirs" /\ d.id = e.id => d.value = e.value
  /\ \A R \in Users : UserOK(R, nextId) /\ (kept \/ Fits(R, AllRows))

(* A chat that is watched twice is so because of a save of something read before. *)
DoublesStale == Doubles(rows) \subseteq stale.rows

UserInv == Shaped /\ AnswersHold /\ DirsFit /\ DoublesStale

LEMMA LeastNatural == ASSUME NEW S \in SUBSET Nat, S # {}  PROVE \E m \in S : \A n \in S : m <= n
  <1>1. PICK m \in S : \A n \in S : <<n, m>> \notin OpToRel(<, Nat)
    BY NatLessThanWellFounded, WFMin, Zenon
  <1>2. \A n \in S : ~(n < m)
    <2>1. \A n \in Nat, k \in Nat : n < k => <<n, k>> \in OpToRel(<, Nat)
      BY Zenon DEF OpToRel
    <2> QED  BY <1>1, <2>1
  <1> QED  BY <1>2

LEMMA SettingsStart == SettingsInit => UserInv
  <1> SUFFICES ASSUME SettingsInit  PROVE UserInv
    OBVIOUS
  <1>1. PICK s \in Storages \union {NoStorage} :
          row = [silent |-> FALSE, defStor |-> s, defDir |-> 0, apply |-> FALSE,
                 conflict |-> "", fname |-> "", tmpl |-> ""]
    BY DEF SettingsInit
  <1>2. /\ rows = {} /\ nextId = 1 /\ command = [h \in Handlers |-> [pc |-> "idle"]]
        /\ told = [row |-> row, rows |-> {}] /\ stale = [fields |-> {}, rows |-> {}] /\ ~kept
    BY DEF SettingsInit, Idle
  <1>3. Snaps = {} /\ Users = {row} /\ AllRows = {}
    BY <1>2 DEF Snaps, Users, AllRows
  <1>4. row = [f \in Fields |-> row[f]] /\ row.defDir = 0
    BY <1>1 DEF Fields
  <1>5. Shaped
    BY <1>2, <1>3, <1>4 DEF Shaped
  <1>6. AnswersHold /\ DoublesStale
    BY <1>2 DEF AnswersHold, DoublesStale, Doubles
  <1>7. DirsFit
    BY <1>2, <1>3, <1>4 DEF DirsFit, UserOK, Fits
  <1> QED  BY <1>5, <1>6, <1>7 DEF UserInv

(* ---- the directories and the users that name them ---- *)
LEMMA UsersChange ==
  ASSUME DirsFit, AllRows' \subseteq AllRows, UNCHANGED nextId, kept => kept',
         \A R \in Users' : UserOK(R, nextId) /\ (kept' \/ Fits(R, AllRows))
  PROVE  DirsFit'
  BY DEF DirsFit, Fits

LEMMA RowsGrow ==
  ASSUME Shaped, DirsFit, NEW new, new.id = nextId, AllRows' \subseteq AllRows \union {new}, Users' \subseteq Users,
         nextId' = nextId + 1, UNCHANGED kept
  PROVE  DirsFit'
  <1>1. \A r \in AllRows' : r.id \in Nat /\ 0 < r.id /\ r.id < nextId'
    BY DEF DirsFit, Shaped
  <1>2. \A d, e \in AllRows' : d.table = "dirs" /\ e.table = "dirs" /\ d.id = e.id => d.value = e.value
    BY DEF DirsFit, Shaped
  <1>3. ASSUME NEW R \in Users'  PROVE UserOK(R, nextId') /\ (kept' \/ Fits(R, AllRows'))
    <2>1. UserOK(R, nextId) /\ (kept \/ Fits(R, AllRows))
      BY <1>3 DEF DirsFit
    <2> QED  BY <2>1 DEF UserOK, Fits, Shaped
  <1> QED  BY <1>1, <1>2, <1>3 DEF DirsFit

(* What the handlers hold after one of them is done. *)
LEMMA HandlerDone ==
  ASSUME Shaped, NEW h \in Handlers, command' = [command EXCEPT ![h] = [pc |-> "done"]]
  PROVE  /\ Snaps' = Snaps \ {h}
         /\ \A g \in Snaps' : command'[g] = command[g]
         /\ DOMAIN command' = Handlers
  BY DEF Shaped, Snaps

LEMMA HandlerDoneRows ==
  ASSUME Shaped, NEW h \in Handlers, command' = [command EXCEPT ![h] = [pc |-> "done"]]
  PROVE  /\ UNION {command'[g].rows : g \in Snaps'} \subseteq UNION {command[g].rows : g \in Snaps}
         /\ {command'[g].row : g \in Snaps'} \subseteq {command[g].row : g \in Snaps}
  BY HandlerDone

LEMMA SnapRows ==
  ASSUME NEW h \in Snaps
  PROVE  command[h].rows \subseteq AllRows /\ command[h].row \in Users /\ row \in Users /\ rows \subseteq AllRows
  BY DEF AllRows, Users

LEMMA ReadKeeps == ASSUME UserInv, NEW h \in Handlers, Read(h)  PROVE UserInv'
  <1>1. PICK c \in Commands : command' = [command EXCEPT ![h] = [pc |-> "read", cmd |-> c, row |-> row, rows |-> rows]]
    BY DEF Read
  <1>2. UNCHANGED <<row, rows, nextId, told, stale, kept>>
    BY DEF Read
  <1>3. Shaped
    BY DEF UserInv
  <1>4. /\ Snaps' = Snaps \union {h} /\ DOMAIN command' = Handlers
        /\ command'[h] = [pc |-> "read", cmd |-> c, row |-> row, rows |-> rows]
        /\ \A g \in Snaps' \ {h} : command'[g] = command[g] /\ g \in Snaps
    BY <1>1, <1>3 DEF Shaped, Snaps
  <1>5. Users' \subseteq Users /\ AllRows' \subseteq AllRows
    BY <1>2, <1>4 DEF Users, AllRows
  <1>6. Shaped'
    BY <1>2, <1>3, <1>4 DEF Shaped
  <1>7. DirsFit'
    BY <1>2, <1>5, UsersChange DEF UserInv, DirsFit
  <1>8. AnswersHold' /\ DoublesStale'
    BY <1>2 DEF UserInv, AnswersHold, DoublesStale, Doubles
  <1> QED  BY <1>6, <1>7, <1>8 DEF UserInv

LEMMA AnswerKeeps == ASSUME UserInv, NEW h \in Handlers, Answer(h)  PROVE UserInv'
  <1>1. command' = [command EXCEPT ![h] = [pc |-> "done"]] /\ UNCHANGED <<row, rows, nextId, told, stale, kept>>
    BY DEF Answer
  <1>2. Shaped /\ DirsFit
    BY DEF UserInv
  <1>3. Users' \subseteq Users /\ AllRows' \subseteq AllRows
    BY <1>1, <1>2, HandlerDoneRows DEF Users, AllRows
  <1>4. Shaped'
    BY <1>1, <1>2, HandlerDone DEF Shaped
  <1>5. DirsFit'
    BY <1>1, <1>2, <1>3, UsersChange DEF DirsFit
  <1>6. AnswersHold' /\ DoublesStale'
    BY <1>1 DEF UserInv, AnswersHold, DoublesStale, Doubles
  <1> QED  BY <1>4, <1>5, <1>6 DEF UserInv

(* What a handler decides to save: the directory it sets is one of the storage *)
(* it sets, unless it changes the storage alone.                               *)
LEMMA ChangedFits ==
  ASSUME UserInv, NEW h \in Snaps, ~AnswersOnly(h), command[h].cmd.name \in Saving,
         kept' = (kept \/ (command[h].cmd.name = "default" /\ ~DirChosen(h) /\ command[h].row.defDir # 0))
  PROVE  UserOK(Changed(h), nextId) /\ (kept' \/ Fits(Changed(h), AllRows))
  <1> DEFINE c == command[h].cmd
             snap == command[h].row
  <1>1. UserOK(snap, nextId) /\ (kept \/ Fits(snap, AllRows))
    BY SnapRows DEF UserInv, DirsFit
  <1>2. CASE c.name # "default"
    <2>1. /\ Changed(h) = [f \in Fields |-> Changed(h)[f]]
          /\ Changed(h).defDir = snap.defDir /\ Changed(h).defStor = snap.defStor
      BY <1>1, <1>2 DEF Changed, Saving, UserOK, Fields
    <2> QED  BY <1>1, <2>1 DEF UserOK, Fits
  <1>3. CASE c.name = "default" /\ ~DirChosen(h)
    <2>1. Changed(h) = [snap EXCEPT !.defStor = c.value]
      BY <1>3 DEF Changed
    <2>2. Changed(h) = [f \in Fields |-> Changed(h)[f]] /\ Changed(h).defDir = snap.defDir
      BY <1>1, <2>1 DEF UserOK, Fields
    <2>3. kept' \/ snap.defDir = 0
      BY <1>3
    <2>4. \A d \in AllRows : d.id # 0
      BY DEF UserInv, DirsFit
    <2> QED  BY <1>1, <2>2, <2>3, <2>4 DEF UserOK, Fits
  <1>4. CASE c.name = "default" /\ DirChosen(h)
    <2>1. Changed(h) = [snap EXCEPT !.defStor = c.value, !.defDir = c.dir]
      BY <1>4 DEF Changed
    <2>2. Changed(h) = [f \in Fields |-> Changed(h)[f]] /\ Changed(h).defDir = c.dir /\ Changed(h).defStor = c.value
      BY <1>1, <2>1 DEF UserOK, Fields
    <2>3. DirRowOf(h) # {}
      BY <1>4 DEF AnswersOnly
    <2>4. PICK r \in rows : r.table = "dirs" /\ r.value = c.value /\ r.id = c.dir
      BY <2>3 DEF DirRowOf, DirsOf, Of
    <2>5. r \in AllRows
      BY DEF AllRows
    <2>6. c.dir \in Nat /\ c.dir < nextId
      BY <2>4, <2>5 DEF UserInv, DirsFit
    <2>7. \A d \in AllRows : d.table = "dirs" /\ c.dir = d.id => c.value = d.value
      BY <2>4, <2>5 DEF UserInv, DirsFit
    <2> QED  BY <2>2, <2>6, <2>7 DEF UserOK, Fits
  <1> QED  BY <1>2, <1>3, <1>4

LEMMA DecideKeeps == ASSUME UserInv, NEW h \in Handlers, Decide(h)  PROVE UserInv'
  <1> DEFINE saves == command[h].cmd.name \in Saving
  <1>1. /\ command[h].pc = "read" /\ ~AnswersOnly(h) /\ UNCHANGED <<row, rows, nextId, told, stale>>
        /\ kept' = (kept \/ (command[h].cmd.name = "default" /\ ~DirChosen(h) /\ command[h].row.defDir # 0))
    BY DEF Decide
  <1>2. Shaped /\ DirsFit /\ h \in Snaps
    BY <1>1 DEF UserInv, Snaps
  <1>3. /\ Snaps' = Snaps /\ DOMAIN command' = Handlers
        /\ \A g \in Handlers \ {h} : command'[g] = command[g]
        /\ command'[h] = [pc |-> "save", cmd |-> IF saves THEN [name |-> "save", own |-> Own(h)] ELSE command[h].cmd,
                          row |-> IF saves THEN Changed(h) ELSE command[h].row, rows |-> command[h].rows]
    <2>1. command' = [command EXCEPT ![h] = [command[h] EXCEPT
             !.pc = "save", !.row = IF saves THEN Changed(h) ELSE command[h].row,
             !.cmd = IF saves THEN [name |-> "save", own |-> Own(h)] ELSE command[h].cmd]]
      BY <1>2 DEF Decide, Shaped
    <2> HIDE DEF saves
    <2>2. [command[h] EXCEPT !.pc = "save", !.row = IF saves THEN Changed(h) ELSE command[h].row,
             !.cmd = IF saves THEN [name |-> "save", own |-> Own(h)] ELSE command[h].cmd]
          = [pc |-> "save", cmd |-> IF saves THEN [name |-> "save", own |-> Own(h)] ELSE command[h].cmd,
             row |-> IF saves THEN Changed(h) ELSE command[h].row, rows |-> command[h].rows]
      <3>1. command[h] = [pc |-> command[h].pc, cmd |-> command[h].cmd, row |-> command[h].row,
                          rows |-> command[h].rows]
        BY <1>2 DEF Shaped
      <3>2. PICK snap : snap = command[h]
        BY Zenon
      <3>3. PICK new : new = IF saves THEN Changed(h) ELSE command[h].row
        BY Zenon
      <3>4. PICK cmd : cmd = IF saves THEN [name |-> "save", own |-> Own(h)] ELSE command[h].cmd
        BY Zenon
      <3>5. snap = [pc |-> snap.pc, cmd |-> snap.cmd, row |-> snap.row, rows |-> snap.rows]
        BY <3>1, <3>2, Zenon
      <3>6. [snap EXCEPT !.pc = "save", !.row = new, !.cmd = cmd]
              = [pc |-> "save", cmd |-> cmd, row |-> new, rows |-> snap.rows]
        <4>1. PICK a : a = [snap EXCEPT !.pc = "save"]
          BY Zenon
        <4>2. a = [pc |-> "save", cmd |-> snap.cmd, row |-> snap.row, rows |-> snap.rows]
          BY <3>5, <4>1
        <4>3. PICK b : b = [a EXCEPT !.row = new]
          BY Zenon
        <4>4. b = [pc |-> "save", cmd |-> snap.cmd, row |-> new, rows |-> snap.rows]
          BY <4>2, <4>3
        <4>5. [b EXCEPT !.cmd = cmd] = [pc |-> "save", cmd |-> cmd, row |-> new, rows |-> snap.rows]
          BY <4>4
        <4> QED  BY <4>1, <4>3, <4>5, Zenon
      <3> QED  BY <3>2, <3>3, <3>4, <3>6, Zenon
    <2>3. DOMAIN command' = Handlers /\ (\A g \in Handlers \ {h} : command'[g] = command[g])
          /\ command'[h].pc = "save"
      BY <1>2, <2>1, <2>2 DEF Shaped
    <2>4. Snaps' = Snaps
      BY <1>1, <2>3 DEF Snaps
    <2> QED  BY <1>2, <2>1, <2>2, <2>3, <2>4 DEF Shaped
  <1>4. AllRows' = AllRows
    BY <1>1, <1>2, <1>3 DEF AllRows, Snaps
  <1>5. kept => kept'
    BY <1>1
  <1>6. ASSUME NEW R \in Users'  PROVE UserOK(R, nextId) /\ (kept' \/ Fits(R, AllRows))
    <2>1. CASE R \in Users
      BY <1>5, <2>1 DEF UserInv, DirsFit
    <2>2. CASE R \notin Users
      <3>1. R = command'[h].row
        BY <1>1, <1>3, <2>2 DEF Users, Snaps
      <3>2. saves /\ R = Changed(h)
        BY <1>2, <1>3, <3>1, <2>2, SnapRows
      <3> QED  BY <1>1, <1>2, <3>2, ChangedFits
    <2> QED  BY <2>1, <2>2
  <1>7. DirsFit'
    BY <1>1, <1>2, <1>4, <1>5, <1>6, UsersChange
  <1>8. Shaped'
    <2>1. \A g \in Snaps' : command'[g] = [pc |-> command'[g].pc, cmd |-> command'[g].cmd, row |-> command'[g].row,
                                           rows |-> command'[g].rows]
      <3> HIDE DEF saves
      <3> QED  BY <1>2, <1>3 DEF Shaped, Snaps
    <2> QED  BY <1>1, <1>2, <1>3, <2>1 DEF Shaped
  <1>9. AnswersHold' /\ DoublesStale'
    BY <1>1 DEF UserInv, AnswersHold, DoublesStale, Doubles
  <1> QED  BY <1>7, <1>8, <1>9 DEF UserInv

LEMMA UpdateKeeps == ASSUME UserInv, NEW h \in Handlers, UpdateUser(h)  PROVE UserInv'
  <1> DEFINE own == command[h].cmd.own
             new == command[h].row
  <1>1. /\ command[h].pc = "save" /\ command' = [command EXCEPT ![h] = [pc |-> "done"]]
        /\ row' = new /\ rows' = rows \union command[h].rows /\ UNCHANGED <<nextId, kept>>
        /\ told' = [told EXCEPT !.row = [f \in Fields |-> IF f \in own THEN new[f] ELSE told.row[f]]]
        /\ stale' = [fields |-> (stale.fields \ own) \union {f \in Fields \ own : row[f] # new[f]},
                     rows |-> stale.rows \union Back(h) \union Doubles(rows')]
    BY DEF UpdateUser
  <1>2. Shaped /\ DirsFit /\ h \in Snaps
    BY <1>1 DEF UserInv, Snaps
  <1>3. /\ told'.row = [f \in Fields |-> IF f \in own THEN new[f] ELSE told.row[f]] /\ told'.rows = told.rows
        /\ told' = [row |-> told'.row, rows |-> told'.rows]
    BY <1>1, <1>2 DEF Shaped
  <1>4. Users' \subseteq Users /\ AllRows' \subseteq AllRows
    BY <1>1, <1>2, HandlerDoneRows, SnapRows DEF Users, AllRows
  <1>5. DirsFit'
    BY <1>1, <1>2, <1>4, UsersChange DEF DirsFit
  <1>6. Shaped'
    BY <1>1, <1>2, <1>3, HandlerDone DEF Shaped
  <1>7. \A f \in Fields \ stale'.fields : row'[f] = told'.row[f]
    BY <1>1, <1>3 DEF UserInv, AnswersHold
  <1>8. \A r \in (rows' \union told'.rows) \ stale'.rows : r \in rows' <=> r \in told'.rows
    BY <1>1, <1>3 DEF UserInv, AnswersHold, Back
  <1>9. DoublesStale'
    BY <1>1 DEF DoublesStale, Doubles
  <1> QED  BY <1>5, <1>6, <1>7, <1>8, <1>9 DEF UserInv, AnswersHold

LEMMA SwitchKeeps == ASSUME UserInv, NEW h \in Handlers, SwitchRules(h)  PROVE UserInv'
  <1>1. PICK on : /\ row' = [row EXCEPT !.apply = on] /\ told' = [told EXCEPT !.row.apply = on]
                  /\ stale' = [stale EXCEPT !.fields = @ \ {"apply"}]
                  /\ command' = [command EXCEPT ![h] = [pc |-> "done"]] /\ UNCHANGED <<rows, nextId, kept>>
    BY Zenon DEF SwitchRules
  <1>2. Shaped /\ DirsFit
    BY DEF UserInv
  <1>3. UserOK(row, nextId) /\ (kept \/ Fits(row, AllRows))
    BY <1>2 DEF DirsFit, Users
  <1>4. /\ row' = [f \in Fields |-> IF f = "apply" THEN on ELSE row[f]]
        /\ row'.defDir = row.defDir /\ row'.defStor = row.defStor
    BY <1>1, <1>3 DEF UserOK, Fields
  <1>5. /\ told'.row = [f \in Fields |-> IF f = "apply" THEN on ELSE told.row[f]] /\ told'.rows = told.rows
        /\ told' = [row |-> told'.row, rows |-> told'.rows]
    BY <1>1, <1>2 DEF Shaped, Fields
  <1>6. /\ stale'.fields = stale.fields \ {"apply"} /\ stale'.rows = stale.rows
        /\ stale' = [fields |-> stale'.fields, rows |-> stale'.rows]
    BY <1>1, <1>2 DEF Shaped
  <1>7. AllRows' \subseteq AllRows /\ Users' \subseteq Users \union {row'}
    BY <1>1, <1>2, HandlerDoneRows DEF AllRows, Users
  <1>8. DirsFit'
    <2>1. UserOK(row', nextId) /\ (kept' \/ Fits(row', AllRows))
      BY <1>1, <1>3, <1>4 DEF UserOK, Fits
    <2> QED  BY <1>1, <1>2, <1>7, <2>1, UsersChange DEF DirsFit
  <1>9. Shaped'
    <2>1. told'.row = [f \in Fields |-> told'.row[f]] /\ nextId' \in Nat \ {0}
      BY <1>1, <1>2, <1>5 DEF Shaped
    <2>2. /\ Snaps' = Snaps \ {h} /\ DOMAIN command' = Handlers
          /\ \A g \in Snaps' : command'[g] = command[g]
      BY <1>1, <1>2, HandlerDone
    <2>3. \A g \in Snaps' : command'[g] = [pc |-> command'[g].pc, cmd |-> command'[g].cmd, row |-> command'[g].row,
                                           rows |-> command'[g].rows]
      BY <1>2, <2>2 DEF Shaped
    <2> QED  BY <1>5, <1>6, <2>1, <2>2, <2>3 DEF Shaped
  <1>10. AnswersHold'
    <2>1. \A f \in Fields \ stale'.fields : row'[f] = told'.row[f]
      BY <1>4, <1>5, <1>6 DEF UserInv, AnswersHold
    <2>2. UNCHANGED rows /\ told'.rows = told.rows /\ stale'.rows = stale.rows
      BY <1>1, <1>5, <1>6
    <2>3. \A r \in (rows' \union told'.rows) \ stale'.rows : r \in rows' <=> r \in told'.rows
      BY <2>2 DEF UserInv, AnswersHold
    <2> QED  BY <2>1, <2>3 DEF AnswersHold
  <1>11. DoublesStale'
    BY <1>1, <1>6 DEF UserInv, DoublesStale, Doubles
  <1> QED  BY <1>8, <1>9, <1>10, <1>11 DEF UserInv

(* A row that an answer has told of is added to the rows and to what was told. *)
LEMMA WatchKeeps == ASSUME UserInv, NEW h \in Handlers, WatchChat(h)  PROVE UserInv'
  <1>1. PICK new, back : /\ new.table = "chats" /\ new.id = nextId /\ back = {r \in Back(h) : r.table = "chats"}
                         /\ command[h].pc = "save" /\ nextId' = nextId + 1
                         /\ rows' = rows \union {new} \union back
                         /\ told' = [told EXCEPT !.rows = @ \union {new}]
                         /\ stale' = [stale EXCEPT !.rows = @ \union back \union Doubles(rows')]
                         /\ command' = [command EXCEPT ![h] = [pc |-> "done"]] /\ UNCHANGED <<row, kept>>
    <2>1. PICK new : new = Row("chats", nextId, command[h].cmd.value)
      BY Zenon
    <2>2. PICK back : back = {r \in Back(h) : r.table = "chats"}
      BY Zenon
    <2>3. /\ command[h].pc = "save" /\ nextId' = nextId + 1
          /\ rows' = rows \union {new} \union back
          /\ told' = [told EXCEPT !.rows = @ \union {new}]
          /\ stale' = [stale EXCEPT !.rows = @ \union back \union Doubles(rows')]
          /\ command' = [command EXCEPT ![h] = [pc |-> "done"]] /\ UNCHANGED <<row, kept>>
      BY <2>1, <2>2, Zenon DEF WatchChat
    <2>4. new.table = "chats" /\ new.id = nextId
      BY <2>1 DEF Row
    <2> QED  BY <2>2, <2>3, <2>4, Zenon
  <1>2. Shaped /\ DirsFit /\ h \in Snaps
    BY <1>1 DEF UserInv, Snaps
  <1>3. back \subseteq AllRows /\ rows \subseteq AllRows
    BY <1>1, <1>2, SnapRows DEF Back
  <1>4. told'.rows = told.rows \union {new} /\ told'.row = told.row /\ told' = [row |-> told'.row, rows |-> told'.rows]
    BY <1>1, <1>2 DEF Shaped
  <1>5. /\ stale'.rows = stale.rows \union back \union Doubles(rows') /\ stale'.fields = stale.fields
        /\ stale' = [fields |-> stale'.fields, rows |-> stale'.rows]
    BY <1>1, <1>2 DEF Shaped
  <1>6. AllRows' \subseteq AllRows \union {new} /\ Users' \subseteq Users
    BY <1>1, <1>2, <1>3, HandlerDoneRows DEF AllRows, Users
  <1>7. DirsFit'
    BY <1>1, <1>2, <1>6, RowsGrow
  <1>8. Shaped'
    <2>1. nextId' \in Nat \ {0}
      BY <1>1, <1>2 DEF Shaped
    <2>2. told'.row = [f \in Fields |-> told'.row[f]]
      BY <1>2, <1>4 DEF Shaped
    <2>3. /\ Snaps' = Snaps \ {h} /\ DOMAIN command' = Handlers
          /\ \A g \in Snaps' : command'[g] = command[g]
      BY <1>1, <1>2, HandlerDone
    <2>4. \A g \in Snaps' : command'[g] = [pc |-> command'[g].pc, cmd |-> command'[g].cmd, row |-> command'[g].row,
                                           rows |-> command'[g].rows]
      BY <1>2, <2>3 DEF Shaped
    <2> QED  BY <1>4, <1>5, <2>1, <2>2, <2>3, <2>4 DEF Shaped
  <1>9. AnswersHold'
    BY <1>1, <1>4, <1>5 DEF UserInv, AnswersHold, Back
  <1>10. DoublesStale'
    BY <1>5 DEF DoublesStale, Doubles
  <1> QED  BY <1>7, <1>8, <1>9, <1>10 DEF UserInv

LEMMA AddKeeps == ASSUME UserInv, AddRow  PROVE UserInv'
  <1>1. PICK new : /\ new.table # "chats" /\ new.id = nextId /\ nextId' = nextId + 1
                   /\ rows' = rows \union {new} /\ told' = [told EXCEPT !.rows = @ \union {new}]
                   /\ UNCHANGED <<row, command, stale, kept>>
    <2>1. PICK new \in {Row("dirs", nextId, s) : s \in Storages} \union {Row("rules", nextId, NoStorage)} :
            rows' = rows \union {new} /\ told' = [told EXCEPT !.rows = @ \union {new}]
      BY Zenon DEF AddRow
    <2>2. new.table # "chats" /\ new.id = nextId
      BY <2>1 DEF Row
    <2>3. nextId' = nextId + 1 /\ UNCHANGED <<row, command, stale, kept>>
      BY Zenon DEF AddRow
    <2> QED  BY <2>1, <2>2, <2>3, Zenon
  <1>2. Shaped /\ DirsFit
    BY DEF UserInv
  <1>3. told'.rows = told.rows \union {new} /\ told'.row = told.row /\ told' = [row |-> told'.row, rows |-> told'.rows]
    BY <1>1, <1>2 DEF Shaped
  <1>4. AllRows' \subseteq AllRows \union {new} /\ Users' \subseteq Users
    BY <1>1 DEF AllRows, Users, Snaps
  <1>5. DirsFit'
    BY <1>1, <1>2, <1>4, RowsGrow
  <1>6. Shaped'
    BY <1>1, <1>2, <1>3 DEF Shaped, Snaps
  <1>7. AnswersHold' /\ DoublesStale'
    BY <1>1, <1>3 DEF UserInv, AnswersHold, DoublesStale, Doubles
  <1> QED  BY <1>5, <1>6, <1>7 DEF UserInv

LEMMA DeleteKeeps == ASSUME UserInv, DeleteRow  PROVE UserInv'
  <1>1. PICK r : /\ r.table # "chats" /\ rows' = rows \ {r} /\ told' = [told EXCEPT !.rows = @ \ {r}]
                 /\ stale' = [stale EXCEPT !.rows = @ \ {r}] /\ UNCHANGED <<row, nextId, command, kept>>
    BY DEF DeleteRow, Of
  <1>2. Shaped /\ DirsFit
    BY DEF UserInv
  <1>3. told'.rows = told.rows \ {r} /\ told'.row = told.row /\ told' = [row |-> told'.row, rows |-> told'.rows]
    BY <1>1, <1>2 DEF Shaped
  <1>4. /\ stale'.rows = stale.rows \ {r} /\ stale'.fields = stale.fields
        /\ stale' = [fields |-> stale'.fields, rows |-> stale'.rows]
    BY <1>1, <1>2 DEF Shaped
  <1>5. AllRows' \subseteq AllRows /\ Users' \subseteq Users
    BY <1>1 DEF AllRows, Users, Snaps
  <1>6. DirsFit'
    BY <1>1, <1>2, <1>5, UsersChange DEF DirsFit
  <1>7. Shaped'
    BY <1>1, <1>2, <1>3, <1>4 DEF Shaped, Snaps
  <1>8. AnswersHold' /\ DoublesStale'
    BY <1>1, <1>3, <1>4 DEF UserInv, AnswersHold, DoublesStale, Doubles
  <1> QED  BY <1>6, <1>7, <1>8 DEF UserInv

LEMMA FirstWatched ==
  ASSUME UserInv, NEW c \in Chats, Watched(c) # {}
  PROVE  \E first \in Watched(c) : \A q \in Watched(c) : first.id <= q.id
  <1>1. \A q \in Watched(c) : q.id \in Nat
    BY DEF Watched, Of, UserInv, DirsFit, AllRows
  <1> DEFINE ids == {q.id : q \in Watched(c)}
  <1>2. ids \in SUBSET Nat /\ ids # {}
    BY <1>1
  <1>3. PICK m \in ids : \A n \in ids : m <= n
    BY <1>2, LeastNatural
  <1> QED  BY <1>3

(* Unwatching deletes the first row of the chat; another one is a double. *)
LEMMA UnwatchKeeps == ASSUME UserInv, UnwatchChat  PROVE UserInv'
  <1>1. PICK c \in Chats :
          /\ Watched(c) # {}
          /\ rows' = rows \ {CHOOSE r \in Watched(c) : \A q \in Watched(c) : r.id <= q.id}
          /\ told' = [told EXCEPT !.rows = {r \in @ : ~(r.table = "chats" /\ r.value = c)}]
    BY DEF UnwatchChat
  <1>2. UNCHANGED <<row, nextId, command, stale, kept>>
    BY DEF UnwatchChat
  <1>3. PICK first \in Watched(c) : rows' = rows \ {first}
    BY <1>1, FirstWatched
  <1>4. Shaped /\ DirsFit
    BY DEF UserInv
  <1>5. /\ told'.rows = {r \in told.rows : ~(r.table = "chats" /\ r.value = c)} /\ told'.row = told.row
        /\ told' = [row |-> told'.row, rows |-> told'.rows]
    BY <1>1, <1>4 DEF Shaped
  <1>6. AllRows' \subseteq AllRows /\ Users' \subseteq Users
    BY <1>2, <1>3 DEF AllRows, Users, Snaps
  <1>7. DirsFit'
    BY <1>2, <1>4, <1>6, UsersChange DEF DirsFit
  <1>8. Shaped'
    BY <1>2, <1>4, <1>5 DEF Shaped, Snaps
  <1>9. \A r \in Watched(c) \ {first} : r \in stale.rows
    <2>1. \A r \in Watched(c) \ {first} : r \in Doubles(rows)
      BY DEF Watched, Of, Doubles
    <2> QED  BY <2>1 DEF UserInv, DoublesStale
  <1>10. AnswersHold'
    <2>1. \A r \in rows : r.table = "chats" /\ r.value = c => r \in Watched(c)
      BY DEF Watched, Of
    <2>2. first \in rows /\ first.table = "chats" /\ first.value = c
      BY DEF Watched, Of
    <2>3. ASSUME NEW r \in (rows' \union told'.rows) \ stale'.rows  PROVE r \in rows' <=> r \in told'.rows
      BY <1>2, <1>3, <1>5, <1>9, <2>1, <2>2 DEF UserInv, AnswersHold
    <2> QED  BY <1>2, <1>5, <2>3 DEF UserInv, AnswersHold
  <1>11. DoublesStale'
    BY <1>2, <1>3 DEF UserInv, DoublesStale, Doubles
  <1> QED  BY <1>7, <1>8, <1>10, <1>11 DEF UserInv

LEMMA SettingsStep == UserInv /\ [SettingsNext]_settingVars => UserInv'
  <1> SUFFICES ASSUME UserInv, [SettingsNext]_settingVars  PROVE UserInv'
    OBVIOUS
  <1>1. ASSUME NEW h \in Handlers,
               Read(h) \/ Answer(h) \/ Decide(h) \/ UpdateUser(h) \/ SwitchRules(h) \/ WatchChat(h)
        PROVE  UserInv'
    BY <1>1, ReadKeeps, AnswerKeeps, DecideKeeps, UpdateKeeps, SwitchKeeps, WatchKeeps
  <1>2. CASE AddRow \/ DeleteRow \/ UnwatchChat
    BY <1>2, AddKeeps, DeleteKeeps, UnwatchKeeps
  <1>3. CASE UNCHANGED settingVars
    <2>1. UNCHANGED <<row, rows, nextId, command, told, stale, kept>>
      BY <1>3 DEF settingVars
    <2>2. Shaped' /\ AnswersHold' /\ DoublesStale'
      BY <2>1 DEF UserInv, Shaped, Snaps, AnswersHold, DoublesStale, Doubles
    <2>3. AllRows' = AllRows /\ Users' = Users
      BY <2>1 DEF AllRows, Users, Snaps
    <2>4. DirsFit'
      BY <2>1, <2>3 DEF UserInv, DirsFit
    <2> QED  BY <2>2, <2>4 DEF UserInv
  <1> QED  BY <1>1, <1>2, <1>3 DEF SettingsNext

(* Whatever commands run at once: what the bot has answered holds in the        *)
(* database but for what a save of something read earlier has undone since, and *)
(* the default directory fits the default storage (database/user.go:32-37).     *)
THEOREM AnswersTrue == SettingsSpec => []SettingsInv
  <1>1. UserInv => SettingsInv
    <2> SUFFICES ASSUME UserInv  PROVE SettingsInv
      OBVIOUS
    <2>1. kept \/ Fits(row, AllRows)
      BY DEF UserInv, DirsFit, Users
    <2>2. \A r \in rows : r \in AllRows
      BY DEF AllRows
    <2>3. DefaultDirFits
      BY <2>1, <2>2 DEF DefaultDirFits, DirsOf, Of, Fits
    <2> QED  BY <2>3 DEF UserInv, SettingsInv
  <1> QED  BY SettingsStart, SettingsStep, <1>1, PTL DEF SettingsSpec

----------------------------------------------------------------------------
(* Saving to a storage that finds the name itself (StorageSave). *)
ProbeDone == {"mkdirs", "dir", "mkcol", "create", "put", "write", "saved"}

SaveTypes ==
  /\ files \in [Names -> Contents \union {NoFile}]
  /\ before \subseteq 0..Attempts
  /\ at \in [Savers -> {"idle", "failed", "probe"} \union ProbeDone]
  /\ cand \in [Savers -> Names]
  /\ written \in [Savers -> 0..Chunks]
  /\ touched \in [Names -> SUBSET Savers]

(* What was there is there, and who writes to it may replace it or was misled. *)
BeforeGuarded ==
  /\ \A n \in before : files[n] # NoFile
  /\ \A s \in Savers : at[s] \in ProbeDone /\ cand[s] \in before => s \in overwrite \union misled

(* A saver that has written to its name alone finds there what it has written; *)
(* the names it probes are the numbered ones.                                  *)
Alone(s) == touched[cand[s]] = {s}
WritesKnown(s) ==
  /\ at[s] \in {"probe", "mkdirs", "dir", "mkcol", "create", "put"} => written[s] = 0
  /\ at[s] = "probe" => cand[s] \in 0..Attempts
  /\ at[s] \in {"write", "saved"} => s \in touched[cand[s]]
  /\ at[s] = "write" => files[cand[s]] \in Contents
  /\ at[s] = "write" /\ Alone(s) => files[cand[s]] = [k \in 1..written[s] |-> s]
  /\ at[s] = "saved" /\ Alone(s) => files[cand[s]] = Whole(s)

SavesInv == SaveTypes /\ BeforeGuarded /\ BeforeStays /\ \A s \in Savers : WritesKnown(s)

LEMMA NamesOfSavers ==
  /\ 0 \in Names /\ Savers \subseteq Names /\ \A s \in Savers : s \notin 0..Attempts
  /\ \A s \in Savers : \A k \in 0..Chunks : [j \in 1..k |-> s] \in Contents
  /\ Whole(Owner) \in Contents
  BY StorageSaveAssumption DEF StorageSaveAssumption, Names, Contents, Whole

LEMMA SavesStart == SaveInit => SavesInv
  <1> SUFFICES ASSUME SaveInit  PROVE SavesInv
    OBVIOUS
  <1> USE StorageSaveAssumption DEF StorageSaveAssumption
  <1>1. /\ before \subseteq 0..Attempts
        /\ files = [n \in Names |-> IF n \in before THEN Whole(Owner) ELSE NoFile]
        /\ at = [s \in Savers |-> "idle"] /\ cand = [s \in Savers |-> 0]
        /\ written = [s \in Savers |-> 0] /\ touched = [n \in Names |-> {}]
    BY DEF SaveInit
  <1>2. before \subseteq Names
    BY <1>1 DEF Names
  <1>3. \A n \in before : files[n] = Whole(Owner)
    BY <1>1, <1>2
  <1>4. SaveTypes
    BY <1>1, NamesOfSavers DEF SaveTypes
  <1>5. BeforeGuarded
    BY <1>1, <1>3, NamesOfSavers DEF BeforeGuarded, ProbeDone
  <1>6. BeforeStays /\ \A s \in Savers : WritesKnown(s)
    BY <1>1, <1>3 DEF BeforeStays, WritesKnown
  <1> QED  BY <1>4, <1>5, <1>6 DEF SavesInv

FirstChunks(s, count) == [k \in 1..count |-> s]
Named(s, name) == cand' = [cand EXCEPT ![s] = name]
Counted(s, count) == written' = [written EXCEPT ![s] = count]
Filled(s, content) == files' = [files EXCEPT ![cand[s]] = content]

(* A step of s that writes nothing and leaves its name as it is, or probes again. *)
LEMMA SaverMoves ==
  ASSUME SavesInv, NEW s \in Savers, NEW place, NEW name \in Names, NEW count \in 0..Chunks,
         UNCHANGED <<saveConsts, files, touched>>, misled \subseteq misled',
         Goto(s, place), Named(s, name), Counted(s, count),
         place \in {"failed", "probe"} \union (ProbeDone \ {"write", "saved"}),
         place \in {"probe"} \union (ProbeDone \ {"write", "saved"}) => count = 0,
         place = "probe" => name \in 0..Attempts,
         place \in ProbeDone => name \notin before \/ s \in overwrite \union misled'
  PROVE  SavesInv'
  <1> USE DEF Goto, Named, Counted
  <1>1. SaveTypes'
    BY DEF SavesInv, SaveTypes, saveConsts, ProbeDone
  <1>2. BeforeGuarded'
    BY DEF SavesInv, SaveTypes, BeforeGuarded, saveConsts
  <1>3. BeforeStays'
    BY DEF SavesInv, BeforeStays, saveConsts, Whole
  <1>4. ASSUME NEW r \in Savers  PROVE WritesKnown(r)'
    <2>1. CASE r = s
      BY <2>1 DEF SavesInv, SaveTypes, WritesKnown, ProbeDone
    <2>2. CASE r # s
      <3>1. at'[r] = at[r] /\ cand'[r] = cand[r] /\ written'[r] = written[r]
        BY <2>2 DEF SavesInv, SaveTypes
      <3>2. WritesKnown(r)
        BY DEF SavesInv
      <3> QED  BY <3>1, <3>2 DEF WritesKnown, Alone, Whole
    <2> QED  BY <2>1, <2>2
  <1> QED  BY <1>1, <1>2, <1>3, <1>4 DEF SavesInv

(* A step of s that writes to its name. *)
LEMMA SaverWrites ==
  ASSUME SavesInv, NEW s \in Savers, NEW place \in {"failed", "write", "saved"}, NEW content \in Contents,
         NEW count \in 0..Chunks,
         UNCHANGED <<saveConsts, cand, misled>>, at[s] \in ProbeDone,
         Goto(s, place), Filled(s, content), Touch(s), Counted(s, count),
         place = "write" /\ touched[cand[s]] \subseteq {s} => content = FirstChunks(s, count),
         place = "saved" => content = Whole(s)
  PROVE  SavesInv'
  <1> USE DEF Goto, Filled, Touch, Counted
  <1>t. /\ cand[s] \in Names /\ at \in [Savers -> {"idle", "failed", "probe"} \union ProbeDone]
        /\ DOMAIN touched = Names /\ NoFile \notin Contents
    BY StorageSaveAssumption DEF StorageSaveAssumption, SavesInv, SaveTypes
  <1>1. SaveTypes'
    BY <1>t DEF SavesInv, SaveTypes, saveConsts, ProbeDone
  <1>2. BeforeGuarded'
    BY <1>t DEF SavesInv, SaveTypes, BeforeGuarded, saveConsts, ProbeDone
  <1>3. BeforeStays'
    <2> SUFFICES ASSUME NEW n \in before
                 PROVE  files'[n] = Whole(Owner) \/ (touched'[n] \intersect (overwrite \union misled) # {})
      BY DEF BeforeStays, saveConsts, Whole
    <2>0. n \in Names
      BY DEF SavesInv, SaveTypes, Names
    <2>1. CASE n = cand[s]
      BY <2>1, <2>0, <1>t DEF SavesInv, BeforeGuarded
    <2>2. CASE n # cand[s]
      BY <2>0, <2>2, <1>t DEF SavesInv, SaveTypes, BeforeStays
    <2> QED  BY <2>1, <2>2
  <1>4. ASSUME NEW r \in Savers  PROVE WritesKnown(r)'
    <2>0. cand[r] \in Names /\ WritesKnown(r)
      BY DEF SavesInv, SaveTypes
    <2>1. CASE r = s
      <3>1. at'[r] = place /\ written'[r] = count /\ files'[cand[r]] = content /\ touched'[cand[r]] = touched[cand[r]] \union {s}
        BY <2>1, <1>t DEF SavesInv, SaveTypes
      <3>2. Alone(r)' => touched[cand[s]] \subseteq {s}
        BY <2>1, <3>1 DEF Alone
      <3> QED  BY <2>1, <3>1, <3>2 DEF WritesKnown, Whole, FirstChunks
    <2>2. CASE r # s
      <3>1. at'[r] = at[r] /\ written'[r] = written[r]
        BY <2>2 DEF SavesInv, SaveTypes
      <3>2. CASE cand[r] = cand[s]
        <4>1. touched'[cand[r]] = touched[cand[r]] \union {s}
          BY <3>2, <1>t
        <4>2. ~Alone(r)'
          BY <4>1, <2>2 DEF Alone
        <4> QED  BY <3>1, <4>1, <4>2, <2>0 DEF WritesKnown
      <3>3. CASE cand[r] # cand[s]
        <4>1. files'[cand[r]] = files[cand[r]] /\ touched'[cand[r]] = touched[cand[r]]
          BY <3>3, <2>0, <1>t DEF SavesInv, SaveTypes
        <4> QED  BY <3>1, <4>1, <2>0 DEF WritesKnown, Alone, Whole
      <3> QED  BY <3>2, <3>3
    <2> QED  BY <2>1, <2>2
  <1> QED  BY <1>1, <1>2, <1>3, <1>4 DEF SavesInv

LEMMA WritesNext ==
  ASSUME NEW s \in Savers, NEW k \in 0..(Chunks - 1), NEW content \in Contents
  PROVE  /\ WriteAt(content, k + 1, s) \in Contents
         /\ content = [j \in 1..k |-> s] => WriteAt(content, k + 1, s) = [j \in 1..(k + 1) |-> s]
  <1> USE StorageSaveAssumption DEF StorageSaveAssumption
  <1>1. PICK m \in 0..Chunks : content \in [1..m -> Savers \union {Owner, NoFile}]
    BY DEF Contents
  <1>2. Len(content) = m /\ DOMAIN content = 1..m
    BY <1>1
  <1> DEFINE top == IF k + 1 > m THEN k + 1 ELSE m
  <1>3. top \in 0..Chunks
    OBVIOUS
  <1>4. WriteAt(content, k + 1, s) \in [1..top -> Savers \union {Owner, NoFile}]
    BY <1>1, <1>2 DEF WriteAt
  <1>5. WriteAt(content, k + 1, s) \in Contents
    BY <1>3, <1>4 DEF Contents
  <1>6. ASSUME content = [j \in 1..k |-> s]
        PROVE  WriteAt(content, k + 1, s) = [j \in 1..(k + 1) |-> s]
    <2>1. DOMAIN content = 1..k
      BY <1>6
    <2>2. m = k
      BY <2>1, <1>2
    <2> QED  BY <1>6, <1>2, <2>1, <2>2 DEF WriteAt
  <1> QED  BY <1>5, <1>6

LEMMA SavesStep == SavesInv /\ [SaveNext]_saveVars => SavesInv'
  <1> SUFFICES ASSUME SavesInv, [SaveNext]_saveVars  PROVE SavesInv'
    OBVIOUS
  <1> USE StorageSaveAssumption DEF StorageSaveAssumption
  <1>t. /\ at \in [Savers -> {"idle", "failed", "probe"} \union ProbeDone]
        /\ cand \in [Savers -> Names] /\ written \in [Savers -> 0..Chunks]
        /\ \A s \in Savers : cand[s] \in before => cand[s] \in 0..Attempts
    BY DEF SavesInv, SaveTypes
  <1>a. AfterName \in {"mkdirs", "dir", "put"}
    BY DEF AfterName
  <1>w. \A s \in Savers : WritesKnown(s)
    BY DEF SavesInv
  <1>g. BeforeGuarded
    BY DEF SavesInv
  (* The steps between the probe and the first write. *)
  <1>m. ASSUME NEW s \in Savers, NEW place \in {"failed"} \union (ProbeDone \ {"write", "saved"}),
               UNCHANGED <<saveConsts, files, cand, written, misled, touched>>,
               Goto(s, place), at[s] \in ProbeDone,
               place = "failed" \/ at[s] \notin {"write", "saved"}
        PROVE  SavesInv'
    <2>1. PICK n \in Names, k \in 0..Chunks : n = cand[s] /\ k = written[s]
      BY <1>t
    <2>4. Named(s, n) /\ Counted(s, k)
      BY <1>m, <1>t, <2>1 DEF Named, Counted
    <2>2. place # "failed" => k = 0
      BY <1>m, <1>w, <2>1 DEF WritesKnown, ProbeDone
    <2>3. n \notin before \/ s \in overwrite \union misled'
      BY <1>m, <1>g, <2>1 DEF BeforeGuarded
    <2>5. /\ place # "probe" /\ place \in {"failed", "probe"} \union (ProbeDone \ {"write", "saved"})
          /\ place \in {"probe"} \union (ProbeDone \ {"write", "saved"}) => place # "failed"
      BY DEF ProbeDone
    <2>6. UNCHANGED <<saveConsts, files, touched>> /\ misled \subseteq misled' /\ Goto(s, place)
      BY <1>m
    <2> QED  BY <2>2, <2>3, <2>4, <2>5, <2>6, SaverMoves
  <1>1. ASSUME NEW s \in Savers, Begin(s)  PROVE SavesInv'
    <2>1. PICK place \in {"probe"} \union (ProbeDone \ {"write", "saved"}) :
            place = IF s \in overwrite THEN AfterName ELSE "probe"
      BY <1>a DEF ProbeDone
    <2>2. place \in ProbeDone => s \in overwrite
      BY <2>1 DEF ProbeDone
    <2>3. /\ UNCHANGED <<saveConsts, files, touched, misled>> /\ Goto(s, place)
          /\ Named(s, 0) /\ Counted(s, 0)
      BY <1>1, <2>1 DEF Begin, Named, Counted
    <2>4. 0 \in Names /\ 0 \in 0..Attempts
      BY NamesOfSavers
    <2> QED  BY <2>1, <2>2, <2>3, <2>4, SaverMoves
  <1>2. ASSUME NEW s \in Savers, NameTaken(s)  PROVE SavesInv'
    <2>0. at[s] = "probe" /\ cand[s] \in 0..Attempts
      BY <1>2, <1>w DEF NameTaken, WritesKnown
    <2>6. NextName(s) \in Names
      BY <2>0, NamesOfSavers DEF NextName, Names
    <2>7. (IF cand[s] < Attempts THEN "probe" ELSE AfterName) \in {"probe"} \union (ProbeDone \ {"write", "saved"})
      BY <1>a DEF ProbeDone
    <2>1. PICK name \in Names, place \in {"probe"} \union (ProbeDone \ {"write", "saved"}) :
            name = NextName(s) /\ place = IF cand[s] < Attempts THEN "probe" ELSE AfterName
      BY <2>6, <2>7
    <2>2. place = "probe" => name \in 0..Attempts
      BY <2>0, <2>1, <1>a DEF NextName
    <2>3. place \in ProbeDone => name \notin before
      BY <2>1, NamesOfSavers DEF NextName, ProbeDone, SavesInv, SaveTypes
    <2>4. UNCHANGED <<saveConsts, files, touched, misled, written>> /\ Goto(s, place) /\ Named(s, name)
      BY <1>2, <2>1 DEF NameTaken, Named
    <2>5. Counted(s, 0)
      BY <2>0, <2>4, <1>t, <1>w DEF WritesKnown, Counted
    <2> QED  BY <2>0, <2>1, <2>2, <2>3, <2>4, <2>5, SaverMoves
  <1>3. ASSUME NEW s \in Savers, NameFree(s)  PROVE SavesInv'
    <2>0. PICK name \in Names, place \in ProbeDone \ {"write", "saved"} : name = cand[s] /\ place = AfterName
      BY <1>t, <1>a DEF ProbeDone
    <2>1. /\ UNCHANGED <<saveConsts, files, touched, cand, written>> /\ at[s] = "probe"
          /\ Goto(s, place)
          /\ misled' = IF files[cand[s]] = NoFile THEN misled ELSE misled \union {s}
      BY <1>3, <2>0 DEF NameFree
    <2>2. name \notin before \/ s \in misled'
      BY <2>0, <2>1, <1>g DEF BeforeGuarded
    <2>3. Counted(s, 0) /\ Named(s, name) /\ misled \subseteq misled'
      BY <2>0, <2>1, <1>t, <1>w DEF WritesKnown, Counted, Named
    <2>4. place # "probe"
      BY DEF ProbeDone
    <2> QED  BY <2>0, <2>1, <2>2, <2>3, <2>4, SaverMoves
  <1>4. ASSUME NEW s \in Savers, Fail(s) \/ PutRefused(s)  PROVE SavesInv'
    BY <1>4, <1>m DEF Fail, PutRefused, ProbeDone
  <1>5. ASSUME NEW s \in Savers, MkdirAll(s) \/ DirProbe(s) \/ MkCol(s)  PROVE SavesInv'
    <2>1. PICK place \in {"create", "put", "mkcol", "failed"} : Goto(s, place)
      BY <1>5 DEF MkdirAll, DirProbe, MkCol
    <2> QED  BY <1>5, <1>m, <2>1 DEF MkdirAll, DirProbe, MkCol, ProbeDone
  <1>6. ASSUME NEW s \in Savers, Create(s)  PROVE SavesInv'
    <2>0. <<>> \in Contents /\ <<>> = [k \in 1..0 |-> s]
      BY DEF Contents
    <2>1. PICK content \in Contents : content = <<>> /\ content = FirstChunks(s, 0)
      BY <2>0 DEF FirstChunks
    <2>2. Counted(s, 0) /\ at[s] \in ProbeDone
      BY <1>6, <1>t, <1>w DEF Create, WritesKnown, ProbeDone, Counted
    <2>3. Touch(s) /\ Filled(s, content) /\ Goto(s, "write") /\ UNCHANGED <<saveConsts, cand, misled>>
      BY <1>6, <2>1 DEF Create, Filled
    <2> QED  BY <2>1, <2>2, <2>3, SaverWrites
  <1>7. ASSUME NEW s \in Savers, Write(s)  PROVE SavesInv'
    <2>1. /\ at[s] = "write" /\ written[s] < Chunks /\ cand[s] \in Names /\ written[s] \in 0..(Chunks - 1)
          /\ s \in touched[cand[s]]
      <3>1. at[s] = "write" /\ written[s] < Chunks
        BY <1>7 DEF Write
      <3>2. s \in touched[cand[s]]
        BY <3>1, <1>w DEF WritesKnown
      <3> QED  BY <1>t, <3>1, <3>2
    <2>2. files[cand[s]] \in Contents
      BY <2>1, <1>w DEF WritesKnown
    <2>3. PICK k \in 0..(Chunks - 1), content \in Contents :
            k = written[s] /\ content = WriteAt(files[cand[s]], written[s] + 1, s)
      BY <2>1, <2>2, WritesNext
    <2>4. touched[cand[s]] \subseteq {s} => content = FirstChunks(s, k + 1)
      <3>1. CASE touched[cand[s]] \subseteq {s}
        <4>1. Alone(s)
          BY <3>1, <2>1 DEF Alone
        <4>2. files[cand[s]] = [j \in 1..k |-> s]
          BY <2>3,  <4>1, <2>1, <1>w DEF WritesKnown
        <4> QED  BY <4>2, <2>2, <2>3, WritesNext DEF FirstChunks
      <3> QED  BY <3>1
    <2>5. UNCHANGED <<saveConsts, cand, misled>> /\ k + 1 \in 0..Chunks
      BY <1>7, <2>3 DEF Write
    <2>7. touched' = touched /\ at' = at
      BY <1>7 DEF Write
    <2>8. Goto(s, "write")
      BY <2>1, <2>7, <1>t DEF Goto
    <2>9. Touch(s)
      BY <2>1, <2>7 DEF Touch, SavesInv, SaveTypes
    <2>10. Counted(s, k + 1) /\ Filled(s, content)
      BY <1>7, <2>3 DEF Write, Counted, Filled
    <2>6. at[s] \in ProbeDone
      BY <2>1 DEF ProbeDone
    <2> QED  BY <2>3, <2>4, <2>5, <2>6, <2>8, <2>9, <2>10, SaverWrites
  <1>8. ASSUME NEW s \in Savers, Copied(s)  PROVE SavesInv'
    <2>1. /\ at[s] = "write" /\ written[s] = Chunks /\ at' = [at EXCEPT ![s] = "saved"]
          /\ UNCHANGED <<saveConsts, files, dir, cand, tries, written, misled, touched>>
      BY <1>8 DEF Copied, Goto
    <2>2. SaveTypes'
      BY <2>1 DEF SavesInv, SaveTypes, saveConsts, ProbeDone
    <2>3. BeforeGuarded'
      BY <2>1, <1>t, <1>g DEF BeforeGuarded, saveConsts, ProbeDone
    <2>4. BeforeStays'
      BY <2>1 DEF SavesInv, BeforeStays, saveConsts, Whole
    <2>5. ASSUME NEW r \in Savers  PROVE WritesKnown(r)'
      BY <2>1, <1>t, <1>w DEF WritesKnown, Alone, Whole
    <2> QED  BY <2>2, <2>3, <2>4, <2>5 DEF SavesInv
  <1>9. ASSUME NEW s \in Savers, S3Put(s) \/ MinioPut(s) \/ WebdavWrite(s) \/ RcloneSave(s)  PROVE SavesInv'
    <2>1. PICK chunks \in 0..Chunks, outcome \in {"saved", "failed"} :
            Send(s, chunks, outcome) /\ (outcome = "saved" => chunks = Chunks)
      BY <1>9 DEF S3Put, MinioPut, WebdavWrite, RcloneSave
    <2>2. PICK count \in 0..Chunks : count = written[s]
      BY <1>t
    <2>3. Counted(s, count) /\ at[s] \in ProbeDone
      BY <2>1, <2>2, <1>t DEF Send, ProbeDone, Counted
    <2>4. PICK content \in Contents : content = [k \in 1..chunks |-> s]
      BY NamesOfSavers
    <2>5. outcome = "saved" => content = Whole(s)
      BY <2>1, <2>4 DEF Whole
    <2>6. UNCHANGED <<saveConsts, cand, misled>> /\ Goto(s, outcome) /\ Touch(s) /\ Filled(s, content)
      BY <2>1, <2>4 DEF Send, Filled
    <2> QED  BY <2>3, <2>5, <2>6, SaverWrites
  <1>10. CASE UNCHANGED saveVars
    <2>1. UNCHANGED <<kind, before, overwrite, files, at, cand, written, misled, touched>>
      BY <1>10 DEF saveVars
    <2> QED  BY <2>1 DEF SavesInv, SaveTypes, BeforeGuarded, BeforeStays, WritesKnown, Alone, Whole
  <1> QED  BY <1>1, <1>2, <1>3, <1>4, <1>5, <1>6, <1>7, <1>8, <1>9, <1>10 DEF SaveNext

(* Whatever the number of savers, of names and of chunks: no save harms a file  *)
(* that it was not to replace, and one that succeeded is whole, unless another  *)
(* wrote to its name (local.go:53-87, webdav.go:80-87, rclone.go:139-150).      *)
THEOREM SavesAreWhole == SaveSpec => []SaveInv
  <1>1. SavesInv => SaveInv
    <2> SUFFICES ASSUME SavesInv  PROVE SaveInv
      OBVIOUS
    <2>1. BeforeStays /\ \A s \in Savers : WritesKnown(s)
      BY DEF SavesInv
    <2>2. SavedIsWhole
      BY <2>1 DEF SavedIsWhole, WritesKnown, Alone
    <2> QED  BY <2>1, <2>2 DEF SaveInv
  <1> QED  BY SavesStart, SavesStep, <1>1, PTL DEF SaveSpec

----------------------------------------------------------------------------
(* The merged login of Alist (AlistSave). *)
TokenTypes ==
  /\ flight \in [leader : TokenCallers \union {Nobody}, waiting : SUBSET TokenCallers,
                 stage : {"none", "look", "login"}]
  /\ DOMAIN caller = TokenCallers
  /\ logins \in Nat

(* A login is under way only outside of the window, and a window knows one login. *)
OneLogin ==
  /\ flight.stage = "login" => ~recent
  /\ ~recent => logins = 0
  /\ logins <= 1

(* Who goes on with a token that is not honoured any more has been noted. *)
Retrying(s) == caller[s] \in {"dirAgain", "putAgain"} \/ (caller[s] = "mkdir" /\ s \in retried)
Noted(s) ==
  /\ caller[s] \in {"probe", "dir"} => s \notin retried
  /\ Retrying(s) /\ ~honoured => s \in lapsed
  /\ caller[s] = "rejected" => ~account \/ s \in lapsed

AlistInv == TokenTypes /\ OneLogin /\ \A s \in AlistSavers : Noted(s)

LEMMA AlistStarts == AlistInit => AlistInv
  <1> SUFFICES ASSUME AlistInit  PROVE AlistInv
    OBVIOUS
  <1>1. TokenTypes
    BY DEF AlistInit, TokenTypes, NoFlight
  <1>2. OneLogin
    BY DEF AlistInit, OneLogin, NoFlight
  <1>3. ASSUME NEW s \in AlistSavers  PROVE Noted(s)
    <2>1. s # Ticker /\ s \in TokenCallers
      BY AlistSaveAssumption DEF AlistSaveAssumption, TokenCallers
    <2>2. caller[s] = "probe" /\ retried = {}
      BY <2>1 DEF AlistInit
    <2> QED  BY <2>2 DEF Noted, Retrying
  <1> QED  BY <1>1, <1>2, <1>3 DEF AlistInv

(* A caller moves to a place where it needs no note, or has one. *)
LEMMA CallerMoves ==
  ASSUME AlistInv, NEW c \in TokenCallers, NEW place, MoveTo(c, place),
         UNCHANGED <<account, honoured>>,
         \A s \in AlistSavers \ {c} : (s \in retried' <=> s \in retried) /\ (s \in lapsed => s \in lapsed'),
         place \notin {"probe"},
         place = "dir" => c \notin retried',
         place \in {"dirAgain", "putAgain"} /\ ~honoured /\ c \in AlistSavers => c \in lapsed',
         place = "mkdir" /\ c \in retried' /\ ~honoured /\ c \in AlistSavers => c \in lapsed',
         place = "rejected" /\ c \in AlistSavers => ~account \/ c \in lapsed'
  PROVE  DOMAIN caller' = TokenCallers /\ \A s \in AlistSavers : Noted(s)'
  <1>1. DOMAIN caller = TokenCallers
    BY DEF AlistInv, TokenTypes
  <1>2. DOMAIN caller' = TokenCallers
    BY <1>1 DEF MoveTo
  <1>3. ASSUME NEW s \in AlistSavers  PROVE Noted(s)'
    <2>1. CASE s = c
      <3>1. caller'[s] = place
        BY <1>1, <2>1 DEF MoveTo
      <3> QED  BY <3>1, <2>1 DEF Noted, Retrying
    <2>2. CASE s # c
      <3>1. caller'[s] = caller[s]
        BY <1>1, <2>2 DEF MoveTo, TokenCallers
      <3> QED  BY <3>1, <2>2 DEF AlistInv, Noted, Retrying
    <2> QED  BY <2>1, <2>2
  <1> QED  BY <1>2, <1>3

(* A flight ends: all aboard go on, and are noted when the token is not honoured. *)
LEMMA FlightEnds ==
  ASSUME AlistInv, NEW failed \in BOOLEAN, Finish(failed), UNCHANGED <<account, retried>>,
         lapsed \subseteq lapsed', honoured => honoured',
         ~failed /\ ~honoured' => \A s \in AlistSavers : s \in Aboard => s \in lapsed'
  PROVE  DOMAIN caller' = TokenCallers /\ \A s \in AlistSavers : Noted(s)'
  <1>1. DOMAIN caller' = TokenCallers
    BY DEF Finish
  <1>2. ASSUME NEW s \in AlistSavers  PROVE Noted(s)'
    <2>0. s \in TokenCallers
      BY DEF TokenCallers
    <2>1. CASE s \in Aboard
      <3>1. /\ failed => caller'[s] \in {"idle", "noToken"}
            /\ ~failed => caller'[s] \in {"idle", "dirAgain", "putAgain", "notReplayed"}
        BY <2>0, <2>1 DEF Finish, AfterError, AfterToken
      <3> QED  BY <3>1, <2>1 DEF Noted, Retrying
    <2>2. CASE s \notin Aboard
      <3>1. caller'[s] = caller[s]
        BY <2>0, <2>2 DEF Finish
      <3> QED  BY <3>1 DEF AlistInv, Noted, Retrying
    <2> QED  BY <2>1, <2>2
  <1> QED  BY <1>1, <1>2

LEMMA SaverSteps ==
  ASSUME AlistInv, NEW s \in AlistSavers, SaverNext(s)
  PROVE  AlistInv'
  <1>t. s \in TokenCallers /\ s # Ticker
    BY AlistSaveAssumption DEF AlistSaveAssumption, TokenCallers
  <1>n. Noted(s)
    BY DEF AlistInv
  <1>1. UNCHANGED <<account, honoured, recent, flight, logins>>
    BY DEF SaverNext, Probe, ProbeDir, Mkdir, DirLate, Put, PutAgain, RequestFails, alistConsts, tokenVars
  <1>2. DOMAIN caller' = TokenCallers /\ \A r \in AlistSavers : Noted(r)'
    <2>1. CASE Probe(s)
      <3>1. PICK place \in {"otherName", "dir"} : MoveTo(s, place)
        BY <2>1 DEF Probe
      <3>2. s \notin retried /\ UNCHANGED <<retried, lapsed>>
        BY <2>1, <1>n DEF Probe, Noted, tokenVars
      <3> QED  BY <1>1, <1>t, <3>1, <3>2, CallerMoves
    <2>2. CASE ProbeDir(s)
      <3>1. PICK place \in {"put", "mkdir"} : MoveTo(s, place)
        BY <2>2 DEF ProbeDir
      <3>2. UNCHANGED <<retried, lapsed>> /\ caller[s] \in {"dir", "dirAgain"}
        BY <2>2 DEF ProbeDir, tokenVars
      <3>3. place = "mkdir" /\ s \in retried /\ ~honoured => s \in lapsed
        BY <3>2, <1>n DEF Noted, Retrying
      <3> QED  BY <1>1, <1>t, <3>1, <3>2, <3>3, CallerMoves
    <2>3. CASE Mkdir(s)
      <3>1. PICK place \in {"dirLate", "put", "mkdirToken", "rejected"} : MoveTo(s, place)
        BY <2>3 DEF Mkdir
      <3>2. UNCHANGED lapsed /\ retried' \in {retried, retried \union {s}} /\ caller[s] = "mkdir"
        BY <2>3 DEF Mkdir, tokenVars
      <3>3. place = "rejected" => ~account \/ s \in lapsed
        <4>1. SUFFICES ASSUME place = "rejected"  PROVE ~account \/ s \in lapsed
          OBVIOUS
        <4>2. caller'[s] = "rejected"
          BY <3>1, <4>1, <1>t DEF MoveTo, AlistInv, TokenTypes
        <4>3. ~honoured /\ (~account \/ s \in retried)
          BY <2>3, <4>2, <1>t DEF Mkdir, MoveTo, AlistInv, TokenTypes
        <4> QED  BY <4>3, <3>2, <1>n DEF Noted, Retrying
      <3> QED  BY <1>1, <1>t, <3>1, <3>2, <3>3, CallerMoves
    <2>4. CASE DirLate(s)
      <3>1. PICK place \in {"put", "dirUnseen"} : MoveTo(s, place)
        BY <2>4 DEF DirLate
      <3>2. UNCHANGED <<retried, lapsed>>
        BY <2>4 DEF DirLate, tokenVars
      <3> QED  BY <1>1, <1>t, <3>1, <3>2, CallerMoves
    <2>5. CASE Put(s)
      <3>1. PICK place \in {"saved", "putToken", "rejected"} : MoveTo(s, place) /\ (place = "rejected" => ~account)
        BY <2>5 DEF Put
      <3>2. UNCHANGED retried /\ lapsed' = lapsed \ {s}
        BY <2>5 DEF Put
      <3> QED  BY <1>1, <1>t, <3>1, <3>2, CallerMoves
    <2>6. CASE PutAgain(s)
      <3>1. PICK place \in {"saved", "rejected"} : MoveTo(s, place) /\ (place = "rejected" => ~honoured)
        BY <2>6 DEF PutAgain
      <3>2. UNCHANGED <<retried, lapsed>> /\ caller[s] = "putAgain"
        BY <2>6 DEF PutAgain, tokenVars
      <3>3. ~honoured => s \in lapsed
        BY <3>2, <1>n DEF Noted, Retrying
      <3> QED  BY <1>1, <1>t, <3>1, <3>2, <3>3, CallerMoves
    <2>7. CASE RequestFails(s)
      <3>1. UNCHANGED <<retried, lapsed>> /\ MoveTo(s, "failed")
        BY <2>7 DEF RequestFails, tokenVars
      <3> QED  BY <1>1, <1>t, <3>1, CallerMoves
    <2> QED  BY <2>1, <2>2, <2>3, <2>4, <2>5, <2>6, <2>7 DEF SaverNext
  <1> QED  BY <1>1, <1>2 DEF AlistInv, TokenTypes, OneLogin

LEMMA TokenSteps ==
  ASSUME AlistInv, NEW c \in TokenCallers, FreshEnough(c) \/ Join(c) \/ Do(c)
  PROVE  AlistInv'
  <1>1. CASE FreshEnough(c)
    <2>1. PICK place \in {"idle", "dirAgain", "putAgain", "notReplayed"} : MoveTo(c, place)
      BY <1>1 DEF FreshEnough, AfterToken
    <2>2. UNCHANGED <<account, honoured, recent, flight, logins, retried>>
      BY <1>1 DEF FreshEnough, alistConsts
    <2>3. lapsed \subseteq lapsed' /\ (~honoured /\ c \in AlistSavers => c \in lapsed')
      BY <1>1, AlistSaveAssumption DEF FreshEnough, Lapsed, AlistSaveAssumption
    <2>4. DOMAIN caller' = TokenCallers /\ \A s \in AlistSavers : Noted(s)'
      BY <2>1, <2>2, <2>3, CallerMoves
    <2> QED  BY <2>2, <2>4 DEF AlistInv, TokenTypes, OneLogin
  <1>2. CASE Join(c)
    <2>1. PICK place \in {"tickWait", "mkdirWait", "putWait"} : MoveTo(c, place)
      BY <1>2 DEF Join, WaitAt
    <2>2. UNCHANGED <<account, honoured, recent, flight, logins, retried, lapsed>>
      BY <1>2 DEF Join, alistConsts, tokenVars
    <2>3. DOMAIN caller' = TokenCallers /\ \A s \in AlistSavers : Noted(s)'
      BY <2>1, <2>2, CallerMoves
    <2> QED  BY <2>2, <2>3 DEF AlistInv, TokenTypes, OneLogin
  <1>3. CASE Do(c)
    <2>1. UNCHANGED <<account, honoured, recent, logins, retried, lapsed, caller>>
      BY <1>3 DEF Do, alistConsts
    <2>2. TokenTypes' /\ (flight'.stage = "login" => flight.stage = "login")
      <3>1. CASE flight = NoFlight
        BY <1>3, <2>1, <3>1 DEF Do, AlistInv, TokenTypes
      <3>2. CASE flight # NoFlight
        BY <1>3, <2>1, <3>2 DEF Do, AlistInv, TokenTypes
      <3> QED  BY <3>1, <3>2
    <2> QED  BY <2>1, <2>2 DEF AlistInv, OneLogin, Noted, Retrying
  <1> QED  BY <1>1, <1>2, <1>3

LEMMA AlistSteps == AlistInv /\ [AlistNext]_alistVars => AlistInv'
  <1> SUFFICES ASSUME AlistInv, [AlistNext]_alistVars  PROVE AlistInv'
    OBVIOUS
  <1>l. NoFlight \in [leader : TokenCallers \union {Nobody}, waiting : SUBSET TokenCallers,
                      stage : {"none", "look", "login"}] /\ NoFlight.stage = "none"
    BY DEF NoFlight
  <1>1. CASE \E s \in AlistSavers : SaverNext(s)
    BY <1>1, SaverSteps
  <1>2. CASE \E c \in TokenCallers : FreshEnough(c) \/ Join(c) \/ Do(c)
    BY <1>2, TokenSteps
  <1>3. CASE Tick
    <2>1. Ticker \in TokenCallers /\ Ticker \notin AlistSavers
      BY AlistSaveAssumption DEF AlistSaveAssumption, TokenCallers
    <2>2. UNCHANGED <<account, honoured, recent, flight, logins, retried, lapsed>> /\ MoveTo(Ticker, "tick")
      BY <1>3 DEF Tick, alistConsts, tokenVars
    <2>3. DOMAIN caller' = TokenCallers /\ \A s \in AlistSavers : Noted(s)'
      BY <2>1, <2>2, CallerMoves
    <2> QED  BY <2>2, <2>3 DEF AlistInv, TokenTypes, OneLogin
  <1>4. CASE FlightLooks
    <2>1. UNCHANGED <<account, honoured, recent, logins, retried>>
      BY <1>4 DEF FlightLooks, alistConsts
    <2>2. CASE recent /\ Finish(FALSE) /\ Lapsed(IF honoured THEN {} ELSE Aboard)
      <3>1. lapsed \subseteq lapsed' /\ (~honoured => \A s \in AlistSavers : s \in Aboard => s \in lapsed')
        BY <2>2, AlistSaveAssumption DEF Lapsed, AlistSaveAssumption
      <3>2. DOMAIN caller' = TokenCallers /\ \A s \in AlistSavers : Noted(s)'
        BY <2>1, <2>2, <3>1, FlightEnds
      <3>3. flight' = NoFlight
        BY <2>2 DEF Finish
      <3> QED  BY <1>l, <2>1, <3>2, <3>3 DEF AlistInv, TokenTypes, OneLogin
    <2>3. CASE ~recent /\ flight' = [flight EXCEPT !.stage = "login"] /\ UNCHANGED <<caller, lapsed>>
      <3>1. TokenTypes'
        BY <2>1, <2>3 DEF AlistInv, TokenTypes
      <3> QED  BY <2>1, <2>3, <3>1 DEF AlistInv, OneLogin, Noted, Retrying
    <2> QED  BY <1>4, <2>2, <2>3 DEF FlightLooks
  <1>5. CASE Login
    <2>1. /\ flight.stage = "login" /\ honoured' = TRUE /\ recent' = TRUE /\ logins' = logins + 1
          /\ Finish(FALSE) /\ UNCHANGED <<account, lapsed, retried>> /\ flight' = NoFlight
      BY <1>5 DEF Login, Finish, alistConsts
    <2>2. DOMAIN caller' = TokenCallers /\ \A s \in AlistSavers : Noted(s)'
      BY <2>1, FlightEnds
    <2>3. logins = 0
      BY <2>1 DEF AlistInv, OneLogin
    <2> QED  BY <1>l, <2>1, <2>2, <2>3 DEF AlistInv, TokenTypes, OneLogin
  <1>6. CASE LoginFails
    <2>1. /\ Finish(TRUE) /\ UNCHANGED <<account, honoured, recent, logins, lapsed, retried>> /\ flight' = NoFlight
      BY <1>6 DEF LoginFails, Finish, alistConsts
    <2>2. DOMAIN caller' = TokenCallers /\ \A s \in AlistSavers : Noted(s)'
      BY <2>1, FlightEnds
    <2> QED  BY <1>l, <2>1, <2>2 DEF AlistInv, TokenTypes, OneLogin
  <1>7. CASE Lapse
    <2>1. UNCHANGED <<account, recent, flight, logins, caller, retried>>
      BY <1>7 DEF Lapse, alistConsts
    <2>2. lapsed \subseteq lapsed' /\ \A s \in AlistSavers : Retrying(s) => s \in lapsed'
      BY <1>7, AlistSaveAssumption DEF Lapse, Lapsed, AskedFor, Retrying, AlistSaveAssumption
    <2> QED  BY <2>1, <2>2 DEF AlistInv, TokenTypes, OneLogin, Noted, Retrying
  <1>8. CASE WindowPasses
    BY <1>8 DEF WindowPasses, alistConsts, AlistInv, TokenTypes, OneLogin, Noted, Retrying
  <1>9. CASE UNCHANGED alistVars
    BY <1>9 DEF alistVars, alistConsts, tokenVars, AlistInv, TokenTypes, OneLogin, Noted, Retrying
  <1> QED  BY <1>1, <1>2, <1>3, <1>4, <1>5, <1>6, <1>7, <1>8, <1>9 DEF AlistNext

(* However many saves share the token: a login is made once in a window, and a  *)
(* save of an account is turned away only when its new token has lapsed as well *)
(* (token.go:28-45, alist.go:131-155, 230-262).                                 *)
THEOREM TokenShared == AlistSpec => []TokenInv
  <1>1. AlistInv => TokenInv
    BY DEF AlistInv, OneLogin, Noted, TokenInv, LoginsApart, RejectedOnlyAgain
  <1> QED  BY AlistStarts, AlistSteps, <1>1, PTL DEF AlistSpec

----------------------------------------------------------------------------
(* The message of a batch (BatchMessage). *)
Told == {"completed", "waiting", "downloaded", "failed"}

MessageTyped ==
  /\ item \in [Items -> [phase : Phases, bytes : Nat]]
  /\ calls \in [Callers -> {"no", "priority", "throttled"}]
  /\ lock \in Callers \union {Nothing}
  /\ pc \in [Callers -> {"out", "send", "take"}]
  /\ job \in [Callers -> Texts \union {Nothing}]
  /\ slot \in Texts \union {Nothing}
  /\ lastText \in Texts \union {NoText}

(* Only the holder of updateMu is in Submit, with the newest text, and it meets no final edit. *)
HolderSubmits ==
  /\ \A c \in Callers : c # lock => pc[c] = "out"
  /\ lock # Nothing => pc[lock] # "out" /\ job[lock] = lastText /\ lastText \in Texts
  /\ (lock # Nothing \/ ~done) /\ slot # Nothing => ~slot.final
  /\ lastText.final => done

(* Items are stopped when all are settled and none has anything to report. *)
StoppedLast ==
  (\E i \in Items : item[i].phase = "stopped") => Settled /\ \A i \in Items : calls[i] = "no"

QueueInv == MessageTyped /\ HolderSubmits /\ StoppedLast /\ NewestKept

LEMMA TextsKnown ==
  /\ Nothing \notin Callers /\ Nothing \notin Texts /\ Finisher \notin Items
  /\ \A t \in Texts : t # Nothing
  /\ NoText.final = FALSE
  BY BatchMessageAssumption DEF Texts, NoText

(* ---- counting the items ---- *)
LEMMA InPhaseFinite ==
  ASSUME NEW ps  PROVE IsFiniteSet(InPhase(ps)) /\ Cardinality(InPhase(ps)) \in Nat
  <1>1. IsFiniteSet(Items) /\ InPhase(ps) \in SUBSET Items
    BY BatchMessageAssumption, FS_Interval DEF Items, InPhase
  <1> QED  BY <1>1, FS_Subset, FS_CardinalityType

LEMMA FewBefore ==
  ASSUME NEW T \in SUBSET Items, NEW k \in Nat
  PROVE  LET first == {i \in T : Cardinality({j \in T : j < i}) < k}
         IN  IsFiniteSet(first) /\ Cardinality(first) \in Nat /\ Cardinality(first) <= k
  <1> DEFINE Before(i) == {j \in T : j < i}
             first == {i \in T : Cardinality(Before(i)) < k}
             rank == [i \in first |-> Cardinality(Before(i))]
  <1>1. IsFiniteSet(T) /\ \A i \in T : i \in Nat
    <2>1. IsFiniteSet(Items) /\ \A i \in Items : i \in Nat
      BY BatchMessageAssumption, FS_Interval DEF Items
    <2> QED  BY <2>1, FS_Subset
  <1>2. ASSUME NEW i \in T  PROVE IsFiniteSet(Before(i)) /\ Cardinality(Before(i)) \in Nat
    <2>1. Before(i) \in SUBSET T
      OBVIOUS
    <2> QED  BY <1>1, <2>1, FS_Subset, FS_CardinalityType
  <1>3. ASSUME NEW i \in T, NEW j \in T, i < j  PROVE Cardinality(Before(i)) < Cardinality(Before(j))
    <2>1. Before(i) \in SUBSET Before(j) /\ i \in Before(j) /\ i \notin Before(i)
      BY <1>1, <1>3
    <2>2. /\ Cardinality(Before(i)) <= Cardinality(Before(j))
          /\ Cardinality(Before(i)) # Cardinality(Before(j))
      BY <1>2, <2>1, FS_Subset
    <2> QED  BY <1>2, <2>2
  <1>4. rank \in Injection(first, 0..(k-1))
    <2> HIDE DEF Before
    <2>1. rank \in [first -> 0..(k-1)]
      BY <1>2
    <2>2. \A i, j \in first : rank[i] = rank[j] => i = j
      BY <1>1, <1>2, <1>3
    <2> HIDE DEF rank, first
    <2> QED  BY <2>1, <2>2, Zenon DEF Injection, IsInjective
  <1>5. IsFiniteSet(0..(k-1)) /\ Cardinality(0..(k-1)) = k
    BY FS_Interval
  <1> HIDE DEF first, rank
  <1>6. IsFiniteSet(first) /\ Cardinality(first) <= k
    BY <1>4, <1>5, FS_Injection
  <1>7. Cardinality(first) \in Nat
    BY <1>6, FS_CardinalityType
  <1> QED  BY <1>6, <1>7 DEF first

LEMMA DisjointUnion ==
  ASSUME NEW S, NEW T, IsFiniteSet(S), IsFiniteSet(T), S \intersect T = {}
  PROVE  IsFiniteSet(S \union T) /\ Cardinality(S \union T) = Cardinality(S) + Cardinality(T)
  <1>1. Cardinality(S) \in Nat /\ Cardinality(T) \in Nat /\ Cardinality({}) = 0
    BY FS_CardinalityType, FS_EmptySet
  <1>2. Cardinality(S \intersect T) = 0
    BY <1>1
  <1>3. /\ IsFiniteSet(S \union T)
        /\ Cardinality(S \union T) = Cardinality(S) + Cardinality(T) - Cardinality(S \intersect T)
    BY FS_Union, Zenon
  <1> QED  BY <1>1, <1>2, <1>3

LEMMA AllCounted ==
  ASSUME MessageTyped, \A i \in Items : item[i].phase # "stopped"
  PROVE  Cardinality(InPhase({"completed"})) + Cardinality(InPhase({"waiting"}))
           + Cardinality(InPhase({"downloaded"})) + Cardinality(InPhase({"failed"}))
           + Cardinality(InPhase({"transferring"})) + Cardinality(InPhase({"confirming"})) = N
  <1> DEFINE P(p) == InPhase({p})
             c1 == P("completed") \union P("waiting")
             c2 == c1 \union P("downloaded")
             c3 == c2 \union P("failed")
             c4 == c3 \union P("transferring")
             c5 == c4 \union P("confirming")
  <1>1. \A p : IsFiniteSet(P(p)) /\ Cardinality(P(p)) \in Nat
    BY InPhaseFinite
  <1>2. /\ P("completed") \intersect P("waiting") = {}
        /\ c1 \intersect P("downloaded") = {} /\ c2 \intersect P("failed") = {}
        /\ c3 \intersect P("transferring") = {} /\ c4 \intersect P("confirming") = {}
    BY DEF InPhase
  <1>3. c5 = Items
    BY DEF InPhase, MessageTyped, Phases
  <1> HIDE DEF P
  <1>4. IsFiniteSet(c1) /\ Cardinality(c1) = Cardinality(P("completed")) + Cardinality(P("waiting"))
    BY <1>1, <1>2, DisjointUnion
  <1> HIDE DEF c1
  <1>5. IsFiniteSet(c2) /\ Cardinality(c2) = Cardinality(c1) + Cardinality(P("downloaded"))
    BY <1>1, <1>2, <1>4, DisjointUnion
  <1> HIDE DEF c2
  <1>6. IsFiniteSet(c3) /\ Cardinality(c3) = Cardinality(c2) + Cardinality(P("failed"))
    BY <1>1, <1>2, <1>5, DisjointUnion
  <1> HIDE DEF c3
  <1>7. IsFiniteSet(c4) /\ Cardinality(c4) = Cardinality(c3) + Cardinality(P("transferring"))
    BY <1>1, <1>2, <1>6, DisjointUnion
  <1> HIDE DEF c4
  <1>8. Cardinality(c5) = Cardinality(c4) + Cardinality(P("confirming"))
    BY <1>1, <1>2, <1>7, DisjointUnion
  <1> HIDE DEF c5
  <1>9. Cardinality(Items) = N
    BY BatchMessageAssumption, FS_Interval DEF Items
  <1>10. Cardinality(P("completed")) + Cardinality(P("waiting"))
           + Cardinality(P("downloaded")) + Cardinality(P("failed"))
           + Cardinality(P("transferring")) + Cardinality(P("confirming")) = N
    BY <1>1, <1>3, <1>4, <1>5, <1>6, <1>7, <1>8, <1>9
  <1> QED  BY <1>10 DEF P

(* The items of the message and its two summaries are the transfers and the confirmations. *)
LEMMA VisibleCounts ==
  /\ Visible.items \in SUBSET Items /\ Visible.hidden \in Nat /\ Visible.confirming \in Nat
  /\ Cardinality(Visible.items) \in Nat /\ Cardinality(Visible.items) <= ActiveLimit
  /\ Cardinality(Visible.items) + Visible.hidden + Visible.confirming
       = Cardinality(InPhase({"transferring"})) + Cardinality(InPhase({"confirming"}))
  <1> DEFINE transfers == InPhase({"transferring"})
             confirms == InPhase({"confirming"})
             first == {i \in transfers : Cardinality({j \in transfers : j < i}) < ActiveLimit}
             lone == Cardinality(confirms) = 1 /\ Cardinality(first) < ActiveLimit
  <1>1. /\ Visible.items = IF lone THEN first \union confirms ELSE first
        /\ Visible.hidden = Cardinality(transfers) - Cardinality(first)
        /\ Visible.confirming = IF lone THEN 0 ELSE Cardinality(confirms)
    BY Zenon DEF Visible
  <1>2. transfers \in SUBSET Items /\ confirms \in SUBSET Items /\ transfers \intersect confirms = {}
    BY DEF InPhase
  <1>3. /\ IsFiniteSet(transfers) /\ Cardinality(transfers) \in Nat
        /\ IsFiniteSet(confirms) /\ Cardinality(confirms) \in Nat
    BY InPhaseFinite
  <1> HIDE DEF transfers, confirms
  <1>4. IsFiniteSet(first) /\ Cardinality(first) \in Nat /\ Cardinality(first) <= ActiveLimit
    BY <1>2, FewBefore, BatchMessageAssumption, Zenon
  <1>5. first \in SUBSET transfers
    OBVIOUS
  <1> HIDE DEF first
  <1>6. Cardinality(first) <= Cardinality(transfers)
    BY <1>3, <1>5, FS_Subset
  <1>7. Cardinality(first \union confirms) = Cardinality(first) + Cardinality(confirms)
    BY <1>2, <1>3, <1>4, <1>5, DisjointUnion
  <1>8. /\ Visible.items \in SUBSET Items /\ Visible.hidden \in Nat /\ Visible.confirming \in Nat
        /\ Cardinality(Visible.items) \in Nat /\ Cardinality(Visible.items) <= ActiveLimit
        /\ Cardinality(Visible.items) + Visible.hidden + Visible.confirming
             = Cardinality(transfers) + Cardinality(confirms)
    <2>1. CASE lone
      BY <1>1, <1>2, <1>3, <1>4, <1>5, <1>6, <1>7, <2>1, BatchMessageAssumption
    <2>2. CASE ~lone
      BY <1>1, <1>2, <1>3, <1>4, <1>5, <1>6, <2>2, BatchMessageAssumption
    <2> QED  BY <2>1, <2>2
  <1> QED  BY <1>8 DEF transfers, confirms

Covers(t) ==
  /\ t.counts.completed + t.counts.waiting + t.counts.downloaded + t.counts.failed
       + Cardinality(DOMAIN t.lines) + t.hidden + t.confirming = N
  /\ Cardinality(DOMAIN t.lines) <= ActiveLimit

LEMMA CountsTyped ==
  /\ ItemCounts \in Counts
  /\ ItemCounts.completed = Cardinality(InPhase({"completed"}))
  /\ ItemCounts.waiting = Cardinality(InPhase({"waiting"}))
  /\ ItemCounts.downloaded = Cardinality(InPhase({"downloaded"}))
  /\ ItemCounts.failed = Cardinality(InPhase({"failed"}))
  BY InPhaseFinite DEF ItemCounts, Counts

LEMMA ProgressTextCovers ==
  ASSUME MessageTyped, \A i \in Items : item[i].phase # "stopped"
  PROVE  ProgressText \in Texts /\ ~ProgressText.final /\ Covers(ProgressText)
  <1>1. PICK lines : lines = [i \in Visible.items |-> item[i]]
    BY Zenon
  <1>2. ProgressText = [counts |-> ItemCounts, lines |-> lines, hidden |-> Visible.hidden,
                        confirming |-> Visible.confirming, final |-> FALSE]
    BY <1>1, Zenon DEF ProgressText
  <1>3. DOMAIN lines = Visible.items /\ lines \in Lines
    <2>1. lines \in [Visible.items -> [phase : Phases, bytes : Nat]]
      BY <1>1, VisibleCounts DEF MessageTyped
    <2> QED  BY <2>1, VisibleCounts, Zenon DEF Lines
  <1>4. ProgressText \in Texts /\ ~ProgressText.final
    BY <1>2, <1>3, CountsTyped, VisibleCounts DEF Texts
  <1>5. PICK cs, n, hid, conf : cs = ItemCounts /\ n = Cardinality(Visible.items) /\ hid = Visible.hidden
                               /\ conf = Visible.confirming
    BY Zenon
  <1>6. /\ ProgressText.counts = cs /\ Cardinality(DOMAIN ProgressText.lines) = n
        /\ ProgressText.hidden = hid /\ ProgressText.confirming = conf
    BY <1>2, <1>3, <1>5
  <1>7. cs.completed + cs.waiting + cs.downloaded + cs.failed + n + hid + conf = N /\ n <= ActiveLimit
    BY <1>5, VisibleCounts, AllCounted, CountsTyped, InPhaseFinite
  <1> QED  BY <1>4, <1>6, <1>7 DEF Covers

LEMMA DoneTextTyped == DoneText \in Texts /\ DoneText.final
  BY CountsTyped DEF DoneText, Texts

(* ---- the steps ---- *)
LEMMA MessageStart == MessageInit => QueueInv /\ TextCoversItems
  <1> SUFFICES ASSUME MessageInit  PROVE QueueInv /\ TextCoversItems
    OBVIOUS
  <1>1. item \in [Items -> [phase : Phases, bytes : Nat]] /\ \A i \in Items : item[i].phase = "waiting"
    BY DEF MessageInit, Phases
  <1>2. MessageTyped
    BY <1>1 DEF MessageInit, MessageTyped
  <1>3. HolderSubmits
    BY TextsKnown DEF MessageInit, HolderSubmits
  <1>4. StoppedLast
    BY <1>1 DEF StoppedLast
  <1>5. NewestKept /\ TextCoversItems
    BY DEF MessageInit, NewestKept, TextCoversItems
  <1> QED  BY <1>2, <1>3, <1>4, <1>5 DEF QueueInv

(* Nothing but item and calls changes while an item works. *)
LEMMA WorkKeeps ==
  ASSUME QueueInv, TextCoversItems, UNCHANGED <<lock, lately, lastText, done, queueVars>>,
         item' \in [Items -> [phase : Phases, bytes : Nat]],
         calls' \in [Callers -> {"no", "priority", "throttled"}], StoppedLast'
  PROVE  QueueInv' /\ TextCoversItems'
  <1>1. MessageTyped'
    BY DEF QueueInv, MessageTyped, queueVars
  <1>2. HolderSubmits' /\ NewestKept' /\ TextCoversItems'
    BY DEF QueueInv, HolderSubmits, NewestKept, TextCoversItems, queueVars
  <1> QED  BY <1>1, <1>2 DEF QueueInv

LEMMA StopItemsKeeps == ASSUME QueueInv, TextCoversItems, StopItems  PROVE QueueInv' /\ TextCoversItems'
  <1>1. /\ \A i \in Items : calls[i] = "no"
        /\ item' = [i \in Items |-> IF item[i].phase \in {"completed", "failed"} THEN item[i]
                                    ELSE [item[i] EXCEPT !.phase = "stopped"]]
        /\ UNCHANGED <<calls, lock, lately, lastText, done, queueVars>>
    BY DEF StopItems
  <1>2. item' \in [Items -> [phase : Phases, bytes : Nat]] /\ Settled'
    BY <1>1 DEF QueueInv, MessageTyped, Phases, Settled
  <1>3. StoppedLast'
    BY <1>1, <1>2 DEF StoppedLast
  <1> QED  BY <1>1, <1>2, <1>3, WorkKeeps DEF QueueInv, MessageTyped

(* An item that still works has not been stopped, and no other item has. *)
LEMMA NoneStopped ==
  ASSUME QueueInv, NEW i \in Items, calls[i] # "no" \/ item[i].phase \notin {"completed", "failed", "stopped"}
  PROVE  \A j \in Items : item[j].phase # "stopped"
  BY DEF QueueInv, StoppedLast, Settled

LEMMA ChangePhaseKeeps ==
  ASSUME QueueInv, TextCoversItems, NEW i \in Items, ChangePhase(i)  PROVE QueueInv' /\ TextCoversItems'
  <1>1. PICK phase \in NextPhases(item[i].phase) : item' = [item EXCEPT ![i].phase = phase]
    BY DEF ChangePhase
  <1>2. /\ calls' = [calls EXCEPT ![i] = "priority"]
        /\ UNCHANGED <<lock, lately, lastText, done, queueVars>>
    BY DEF ChangePhase
  <1>3. phase \in Phases \ {"stopped"} /\ item[i].phase \notin {"completed", "failed", "stopped"}
    <2>1. item[i].phase \in Phases
      BY DEF QueueInv, MessageTyped
    <2> QED  BY <2>1, <1>1 DEF NextPhases, Phases
  <1>4. /\ item' \in [Items -> [phase : Phases, bytes : Nat]] /\ \A j \in Items : item'[j].phase # "stopped"
        /\ calls' \in [Callers -> {"no", "priority", "throttled"}]
    BY <1>1, <1>2, <1>3, NoneStopped DEF QueueInv, MessageTyped
  <1>5. StoppedLast'
    BY <1>4 DEF StoppedLast
  <1> QED  BY <1>2, <1>4, <1>5, WorkKeeps

LEMMA AddBytesKeeps ==
  ASSUME QueueInv, TextCoversItems, NEW i \in Items, AddBytes(i)  PROVE QueueInv' /\ TextCoversItems'
  <1>1. /\ item' = [item EXCEPT ![i].bytes = @ + 1] /\ calls' = [calls EXCEPT ![i] = "throttled"]
        /\ UNCHANGED <<lock, lately, lastText, done, queueVars>> /\ item[i].phase = "transferring"
    BY DEF AddBytes
  <1>2. /\ item' \in [Items -> [phase : Phases, bytes : Nat]]
        /\ \A j \in Items : item'[j].phase = item[j].phase
        /\ calls' \in [Callers -> {"no", "priority", "throttled"}]
    <2>1. MessageTyped /\ i \in Callers
      BY DEF QueueInv, Callers
    <2>2. item[i] = [phase |-> item[i].phase, bytes |-> item[i].bytes]
          /\ item[i].phase \in Phases /\ item[i].bytes \in Nat
      BY <2>1 DEF MessageTyped
    <2>3. item' = [item EXCEPT ![i] = [phase |-> item[i].phase, bytes |-> item[i].bytes + 1]]
      <3>1. PICK old : old = item[i]
        BY Zenon
      <3>2. item' = [item EXCEPT ![i] = [old EXCEPT !.bytes = old.bytes + 1]]
        BY <1>1, <3>1, Zenon
      <3>3. [old EXCEPT !.bytes = old.bytes + 1] = [phase |-> old.phase, bytes |-> old.bytes + 1]
        BY <2>2, <3>1
      <3> QED  BY <3>1, <3>2, <3>3
    <2>4. item' \in [Items -> [phase : Phases, bytes : Nat]] /\ \A j \in Items : item'[j].phase = item[j].phase
      BY <2>1, <2>2, <2>3 DEF MessageTyped
    <2>5. calls' \in [Callers -> {"no", "priority", "throttled"}]
      BY <1>1, <2>1 DEF MessageTyped
    <2> QED  BY <2>4, <2>5
  <1>3. StoppedLast'
    BY <1>1, <1>2, NoneStopped DEF StoppedLast
  <1> QED  BY <1>1, <1>2, <1>3, WorkKeeps

LEMMA RenderSkippedKeeps ==
  ASSUME QueueInv, TextCoversItems, NEW c \in Items, RenderSkipped(c)  PROVE QueueInv' /\ TextCoversItems'
  <1>1. /\ calls' = [calls EXCEPT ![c] = "no"] /\ UNCHANGED <<item, lock, lately, lastText, done, queueVars>>
    BY DEF RenderSkipped
  <1>2. /\ item' \in [Items -> [phase : Phases, bytes : Nat]]
        /\ calls' \in [Callers -> {"no", "priority", "throttled"}]
    <2>1. c \in Callers
      BY DEF Callers
    <2>2. UNCHANGED item /\ calls' = [calls EXCEPT ![c] = "no"]
      BY <1>1
    <2> QED  BY <2>1, <2>2 DEF QueueInv, MessageTyped
  <1>3. StoppedLast'
    BY <1>1 DEF QueueInv, MessageTyped, StoppedLast, Settled, Callers
  <1> QED  BY <1>1, <1>2, <1>3, WorkKeeps

LEMMA RenderKeeps ==
  ASSUME QueueInv, TextCoversItems, NEW c \in Items, Render(c)  PROVE QueueInv' /\ TextCoversItems'
  <1>1. MessageTyped /\ HolderSubmits /\ StoppedLast
    BY DEF QueueInv
  <1>2. PICK text : text = ProgressText
    BY Zenon
  <1>3. /\ calls[c] # "no" /\ lock = Nothing /\ ~done
        /\ lastText' = text /\ calls' = [calls EXCEPT ![c] = "no"] /\ lock' = c
        /\ pc' = [pc EXCEPT ![c] = "send"] /\ job' = [job EXCEPT ![c] = text]
        /\ UNCHANGED <<item, done, slot, editing>>
    BY <1>2 DEF Render, Skips
  <1>4. \A i \in Items : item[i].phase # "stopped"
    BY <1>3, NoneStopped
  <1>5. text \in Texts /\ ~text.final /\ Covers(text)
    BY <1>1, <1>2, <1>4, ProgressTextCovers
  <1>6. c \in Callers /\ c # Nothing
    BY TextsKnown DEF Callers
  <1>7. MessageTyped'
    BY <1>1, <1>3, <1>5, <1>6 DEF MessageTyped
  <1>8. HolderSubmits'
    <2>1. /\ \A d \in Callers : d # lock' => pc'[d] = "out"
          /\ pc'[lock'] # "out" /\ job'[lock'] = lastText' /\ lastText' \in Texts
      BY <1>1, <1>3, <1>5, <1>6, TextsKnown DEF HolderSubmits, MessageTyped
    <2>2. slot' # Nothing => ~slot'.final
      BY <1>1, <1>3, Zenon DEF HolderSubmits
    <2>3. ~lastText'.final
      BY <1>3, <1>5, Zenon
    <2> QED  BY <2>1, <2>2, <2>3, Zenon DEF HolderSubmits
  <1>9. StoppedLast'
    BY <1>3, <1>4 DEF StoppedLast
  <1>10. NewestKept'
    BY <1>3, <1>6 DEF NewestKept
  <1>11. TextCoversItems'
    BY <1>3, <1>5 DEF TextCoversItems, Covers
  <1> QED  BY <1>7, <1>8, <1>9, <1>10, <1>11 DEF QueueInv

LEMMA OnDoneKeeps == ASSUME QueueInv, TextCoversItems, OnDone  PROVE QueueInv' /\ TextCoversItems'
  <1>1. MessageTyped /\ HolderSubmits /\ StoppedLast
    BY DEF QueueInv
  <1>2. PICK text : text = DoneText
    BY Zenon
  <1>3. /\ lock = Nothing /\ ~done /\ done'
        /\ lastText' = text /\ lock' = Finisher
        /\ pc' = [pc EXCEPT ![Finisher] = "send"] /\ job' = [job EXCEPT ![Finisher] = text]
        /\ UNCHANGED <<item, calls, slot, editing>>
    BY <1>2 DEF OnDone
  <1>4. text \in Texts /\ text.final
    BY <1>2, DoneTextTyped
  <1>5. Finisher \in Callers /\ Finisher # Nothing
    BY TextsKnown DEF Callers
  <1>6. MessageTyped'
    BY <1>1, <1>3, <1>4, <1>5 DEF MessageTyped
  <1>7. HolderSubmits'
    <2>1. /\ \A d \in Callers : d # lock' => pc'[d] = "out"
          /\ pc'[lock'] # "out" /\ job'[lock'] = lastText' /\ lastText' \in Texts
      BY <1>1, <1>3, <1>4, <1>5, TextsKnown DEF HolderSubmits, MessageTyped
    <2>2. slot' # Nothing => ~slot'.final
      BY <1>1, <1>3, Zenon DEF HolderSubmits
    <2> QED  BY <1>3, <2>1, <2>2, Zenon DEF HolderSubmits
  <1>8. StoppedLast'
    BY <1>1, <1>3 DEF StoppedLast, Settled
  <1>9. NewestKept' /\ TextCoversItems'
    BY <1>3, <1>4, <1>5 DEF NewestKept, TextCoversItems
  <1> QED  BY <1>6, <1>7, <1>8, <1>9 DEF QueueInv

LEMMA SubmitKeeps ==
  ASSUME QueueInv, TextCoversItems, NEW c \in Callers, Submit(c)  PROVE QueueInv' /\ TextCoversItems'
  <1>1. MessageTyped /\ HolderSubmits
    BY DEF QueueInv
  <1>2. pc[c] # "out" /\ pc[c] # "put"
    BY <1>1 DEF Submit, SubmitSends, SlotFull, SubmitReplaces, SubmitMeetsFinal, PutBack, MessageTyped
  <1>3. lock = c /\ lock # Nothing /\ job[c] = lastText /\ lastText \in Texts /\ (slot # Nothing => ~slot.final)
    BY <1>1, <1>2, TextsKnown DEF HolderSubmits
  <1>4. UNCHANGED <<item, calls, lately, lastText, done, editing>>
    BY DEF Submit, SubmitSends, SlotFull, SubmitReplaces, SubmitMeetsFinal, PutBack, Leave, progressVars
  <1>5. StoppedLast' /\ TextCoversItems'
    BY <1>4 DEF QueueInv, StoppedLast, Settled, TextCoversItems
  <1>6. CASE SubmitSends(c)
    <2>1. /\ slot' = lastText /\ job' = [job EXCEPT ![c] = Nothing] /\ pc' = [pc EXCEPT ![c] = "out"]
          /\ lock' = Nothing
      BY <1>3, <1>6 DEF SubmitSends, Leave
    <2>2. MessageTyped'
      BY <1>1, <1>3, <1>4, <2>1 DEF MessageTyped
    <2>3. HolderSubmits'
      BY <1>1, <1>3, <1>4, <2>1 DEF HolderSubmits, MessageTyped
    <2>4. NewestKept'
      BY <1>3, <1>4, <2>1, TextsKnown DEF NewestKept
    <2> QED  BY <1>5, <2>2, <2>3, <2>4 DEF QueueInv
  <1>7. CASE SlotFull(c) \/ SubmitReplaces(c)
    <2>1. PICK place \in {"send", "take"} :
            /\ pc' = [pc EXCEPT ![c] = place] /\ (slot' = slot \/ slot' = Nothing) /\ UNCHANGED <<lock, job>>
      BY <1>7 DEF SlotFull, SubmitReplaces, progressVars
    <2>2. MessageTyped'
      BY <1>1, <1>4, <2>1 DEF MessageTyped
    <2>3. HolderSubmits'
      BY <1>1, <1>3, <1>4, <2>1 DEF HolderSubmits, MessageTyped
    <2>4. NewestKept'
      BY <1>3, <2>1 DEF NewestKept
    <2> QED  BY <1>5, <2>2, <2>3, <2>4 DEF QueueInv
  <1>8. ~SubmitMeetsFinal(c) /\ ~PutBack(c)
    BY <1>2, <1>3 DEF SubmitMeetsFinal, PutBack
  <1> QED  BY <1>6, <1>7, <1>8 DEF Submit

LEMMA RunnerKeeps == ASSUME QueueInv, TextCoversItems, Receive \/ Perform  PROVE QueueInv' /\ TextCoversItems'
  <1>1. /\ UNCHANGED <<item, calls, lock, lately, lastText, done, pc, job>>
        /\ \/ slot # Nothing /\ editing' = slot /\ slot' = Nothing
           \/ UNCHANGED <<slot, editing>>
    BY DEF Receive, Perform, progressVars
  <1>2. MessageTyped' /\ HolderSubmits'
    BY <1>1 DEF QueueInv, MessageTyped, HolderSubmits
  <1>3. StoppedLast' /\ TextCoversItems'
    BY <1>1 DEF QueueInv, StoppedLast, Settled, TextCoversItems
  <1>4. NewestKept'
    BY <1>1 DEF QueueInv, NewestKept
  <1> QED  BY <1>2, <1>3, <1>4 DEF QueueInv

(* No newer text of the status message of a batch gives way to an older one: outside Submit the *)
(* last text rendered waits in the slot or is the one being edited; and a text leaves no item   *)
(* out and counts none twice (progress.go:83-94 and 299-345, progress_edit.go:55-74).           *)
THEOREM MessageTrue == Spec => []MessageInv
  <1>1. ASSUME QueueInv, TextCoversItems, [ProgressNext \/ QueueNext]_messageVars
        PROVE  QueueInv' /\ TextCoversItems'
    <2>1. CASE ProgressNext
      <3>1. CASE \E i \in Items : ChangePhase(i) \/ AddBytes(i) \/ RenderSkipped(i) \/ Render(i)
        BY <1>1, <3>1, ChangePhaseKeeps, AddBytesKeeps, RenderSkippedKeeps, RenderKeeps
      <3>2. CASE StopItems \/ OnDone
        BY <1>1, <3>2, StopItemsKeeps, OnDoneKeeps
      <3>3. CASE IntervalPasses
        <4>1. UNCHANGED <<item, calls, lock, lastText, done, queueVars>>
          BY <3>3 DEF IntervalPasses
        <4> QED
          BY <1>1, <4>1 DEF QueueInv, MessageTyped, HolderSubmits, StoppedLast, Settled, NewestKept,
                            TextCoversItems, queueVars
      <3> QED  BY <2>1, <3>1, <3>2, <3>3 DEF ProgressNext
    <2>2. CASE QueueNext
      BY <1>1, <2>2, SubmitKeeps, RunnerKeeps DEF QueueNext
    <2>3. CASE UNCHANGED messageVars
      BY <1>1, <2>3 DEF messageVars, progressVars, queueVars, QueueInv, MessageTyped, HolderSubmits,
                        StoppedLast, Settled, NewestKept, TextCoversItems
    <2> QED  BY <1>1, <2>1, <2>2, <2>3
  <1>2. QueueInv /\ TextCoversItems => MessageInv
    BY DEF QueueInv, MessageInv
  <1> QED  BY <1>1, <1>2, MessageStart, PTL DEF Spec
=============================================================================
