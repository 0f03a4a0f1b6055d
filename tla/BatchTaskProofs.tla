---------------------------- MODULE BatchTaskProofs ----------------------------
(***************************************************************************)
(* What a batch task tells, for every plan of files, number of workers and *)
(* number of retries: a file shown as completed is stored, the final       *)
(* report says "all done" only when it is, and a verdict shown is not      *)
(* taken back.  A cached file is completed by the step in which Save       *)
(* succeeds; a streamed one by a step that looks only at the first error   *)
(* of its errgroup, so the invariant has to say what that error tells of   *)
(* the goroutine that ran Save.  For the report it follows Execute along   *)
(* the order of the files: what has been passed is stored, or something    *)
(* tells that it is not.                                                   *)
(***************************************************************************)
EXTENDS BatchTask, FiniteSetTheorems, SequenceTheorems, TLAPS

(* The order of the files: no file comes twice, and a stretch is an interval of it. *)
LEMMA OrderIsSequence ==
  /\ Len(Order) \in Nat \ {0} /\ DOMAIN Order = 1..Len(Order) /\ Elems = {Order[q] : q \in 1..Len(Order)}
  <1>1. Order \in Seq(Elems) /\ Order # <<>>
    BY BatchAssumption DEF BatchAssumption
  <1>2. Len(Order) \in Nat \ {0} /\ DOMAIN Order = 1..Len(Order)
    BY <1>1, EmptySeq, LenProperties
  <1> QED  BY <1>2 DEF Elems, ToSet

LEMMA FirstPosition == 1 \in DOMAIN Order
  BY OrderIsSequence

LEMMA OrderInjective ==
  ASSUME NEW p \in DOMAIN Order, NEW q \in DOMAIN Order, Order[p] = Order[q]
  PROVE  p = q
  <1>1. IsFiniteSet(1..Len(Order)) /\ Cardinality(1..Len(Order)) = Cardinality(Elems)
    <2>1. 1 \in Int /\ Len(Order) \in Int /\ ~(1 > Len(Order)) /\ Len(Order) - 1 + 1 = Len(Order)
      BY OrderIsSequence
    <2>2. IsFiniteSet(1..Len(Order)) /\ Cardinality(1..Len(Order)) = Len(Order)
      BY <2>1, FS_Interval
    <2> QED  BY <2>2, BatchAssumption DEF BatchAssumption
  <1>2. Order \in Surjection(1..Len(Order), Elems)
    <2>1. Order \in [1..Len(Order) -> Elems]
      BY BatchAssumption, LenProperties DEF BatchAssumption
    <2> QED  BY <2>1, OrderIsSequence DEF Surjection
  <1>3. Order \in Injection(1..Len(Order), Elems)
    BY <1>1, <1>2, FS_SurjSameCardinalityImpliesInj
  <1> QED  BY <1>3, OrderIsSequence DEF Injection, IsInjective

LEMMA StretchIsInterval ==
  ASSUME NEW p \in DOMAIN Order, NEW q \in DOMAIN Order
  PROVE  /\ Cardinality(Stretch(p)) \in Nat \ {0}
         /\ q \in Stretch(p) <=> p <= q /\ q < p + Cardinality(Stretch(p))
  <1> DEFINE n == Cardinality(Stretch(p))
  <1>1. Stretch(p) \subseteq p..Len(Order)
    BY DEF Stretch
  <1>2. IsFiniteSet(Stretch(p)) /\ n \in Nat
    <2>1. p \in Int /\ Len(Order) \in Int
      BY OrderIsSequence
    <2>2. IsFiniteSet(p..Len(Order))
      BY <2>1, FS_Interval
    <2>3. IsFiniteSet(Stretch(p))
      BY <1>1, <2>2, FS_Subset
    <2> QED  BY <2>3, FS_CardinalityType
  <1>3. p \in Stretch(p)
    BY OrderIsSequence DEF Stretch
  <1>4. ASSUME NEW r \in Stretch(p)  PROVE p..r \subseteq Stretch(p)
    BY <1>4, OrderIsSequence DEF Stretch
  <1>5. ASSUME NEW r \in Stretch(p)  PROVE r < p + n
    <2>1. Cardinality(p..r) = r - p + 1 /\ r \in Int
      BY <1>1, OrderIsSequence, FS_Interval
    <2>2. Cardinality(p..r) <= n
      BY <1>2, <1>4, FS_Subset
    <2> QED  BY <1>2, <2>1, <2>2, OrderIsSequence
  <1>6. ASSUME q \notin Stretch(p), p <= q  PROVE p + n <= q
    <2>1. Stretch(p) \subseteq p..(q - 1)
      <3> SUFFICES ASSUME NEW r \in Stretch(p), q <= r  PROVE FALSE
        BY <1>1, OrderIsSequence
      <3> QED  BY <1>1, <1>4, <1>6, OrderIsSequence
    <2>2. p \in Int /\ q - 1 \in Int /\ q \in Int
      BY OrderIsSequence
    <2>3. IsFiniteSet(p..(q - 1)) /\ Cardinality(p..(q - 1)) = IF p > q - 1 THEN 0 ELSE q - 1 - p + 1
      BY <2>2, FS_Interval
    <2>4. n <= Cardinality(p..(q - 1))
      BY <2>1, <2>3, FS_Subset
    <2> QED  BY <1>2, <1>6, <2>2, <2>3, <2>4
  <1> QED  BY <1>1, <1>2, <1>3, <1>5, <1>6, OrderIsSequence

(* The files of the stretches that are over, and of those to come. *)
Before == {Order[q] : q \in 1..(at - 1)}
Ahead == Elems \ (Before \union Current)

(* Where Execute goes on: the next stretch is of files that wait, and after the last one none is left. *)
LEMMA PositionsAreNumbers ==
  ASSUME NEW p \in DOMAIN Order
  PROVE  p \in Nat /\ Len(Order) \in Nat /\ Cardinality(Stretch(p)) \in Nat
  BY StretchIsInterval, OrderIsSequence

LEMMA NextStretch ==
  ASSUME at \in DOMAIN Order, at' = at + Cardinality(Stretch(at)), at' <= Len(Order)
  PROVE  /\ at' \in DOMAIN Order
         /\ Before' = Before \union Current
         /\ Current' \intersect (Before \union Current) = {}
  <1> DEFINE n == Cardinality(Stretch(at))
  <1>1. n \in Nat \ {0} /\ at \in 1..Len(Order) /\ Len(Order) \in Nat /\ at' \in DOMAIN Order
    BY StretchIsInterval, OrderIsSequence
  <1>2. Stretch(at) = at..(at + n - 1)
    <2>1. Stretch(at) \subseteq DOMAIN Order
      BY <1>1, OrderIsSequence DEF Stretch
    <2>2. at..(at + n - 1) \subseteq DOMAIN Order
      BY <1>1, OrderIsSequence
    <2>3. ASSUME NEW q \in DOMAIN Order  PROVE q \in Stretch(at) <=> q \in at..(at + n - 1)
      BY <1>1, StretchIsInterval, OrderIsSequence
    <2> QED  BY <2>1, <2>2, <2>3
  <1>3. 1..(at' - 1) = (1..(at - 1)) \union Stretch(at)
    BY <1>1, <1>2
  <1>4. Before' = Before \union Current
    BY <1>3 DEF Before, Current
  <1>5. ASSUME NEW q \in Stretch(at)', NEW r \in (1..(at - 1)) \union Stretch(at), Order[q] = Order[r]
        PROVE  FALSE
    <2>1. q \in at'..Len(Order)
      BY <1>5 DEF Stretch
    <2>2. r \in 1..(at' - 1)
      BY <1>3
    <2>3. q \in DOMAIN Order /\ r \in DOMAIN Order /\ q # r
      BY <1>1, <2>1, <2>2, OrderIsSequence
    <2> QED  BY <1>5, <2>3, OrderInjective
  <1>6. Current' \intersect (Before \union Current) = {}
    BY <1>5 DEF Current, Before
  <1> QED  BY <1>1, <1>4, <1>6

LEMMA LastStretch ==
  ASSUME at \in DOMAIN Order, at + Cardinality(Stretch(at)) > Len(Order)
  PROVE  Ahead = {}
  <1>1. Cardinality(Stretch(at)) \in Nat /\ at \in 1..Len(Order) /\ Len(Order) \in Nat
    BY StretchIsInterval, OrderIsSequence
  <1>2. ASSUME NEW q \in 1..Len(Order)  PROVE q \in 1..(at - 1) \/ q \in Stretch(at)
    BY <1>1, StretchIsInterval, OrderIsSequence
  <1> QED  BY <1>2, OrderIsSequence DEF Ahead, Before, Current

LEMMA BeforeFiles ==
  ASSUME at \in DOMAIN Order
  PROVE  Before \subseteq Elems
  <1>1. 1..(at - 1) \subseteq 1..Len(Order)
    BY OrderIsSequence
  <1> QED  BY <1>1, OrderIsSequence DEF Before

LEMMA CurrentFiles ==
  ASSUME at \in DOMAIN Order
  PROVE  Current \subseteq Elems /\ \A e \in Current : Key[e] = Key[Order[at]]
  <1>1. at \in 1..Len(Order) /\ Len(Order) \in Nat
    BY OrderIsSequence
  <1> QED  BY <1>1, OrderIsSequence DEF Current, Stretch

-----------------------------------------------------------------------------
USE BatchAssumption DEF BatchAssumption

(* A Save that returned without error has stored the file; one that failed has left an error. *)
SaverTells ==
  \A e \in Elems : /\ saver[e] = "ok" => e \in stored
                   /\ saver[e] \in {"failed", "closed"} => pipeErr[e] # None

Shapes ==
  /\ phase \in [Elems -> Phases]
  /\ saver \in [Elems -> {"off", "active", "ok", "failed", "closed"}]
  /\ pipeErr \in [Elems -> Errors \union {None}]

IInv == Shapes /\ SaverTells /\ CompletedStored

-----------------------------------------------------------------------------
(* What the operations on the phases leave alone: none of them makes a file completed. *)
NoneCompleted(old, new) ==
  /\ new \in [Elems -> Phases]
  /\ \A e \in Elems : new[e] = "Completed" => old[e] = "Completed"

LEMMA MarkFailedCompletesNone ==
  ASSUME NEW ph \in [Elems -> Phases], NEW E, NEW err
  PROVE  NoneCompleted(ph, MarkFailed(ph, E, err))
  BY DEF NoneCompleted, MarkFailed, Phases

LEMMA FinishCompletesNone ==
  ASSUME NEW ph \in [Elems -> Phases], NEW err
  PROVE  NoneCompleted(ph, FinishItems(ph, err))
  BY DEF NoneCompleted, FinishItems, Phases

LEMMA AfterStretchCompletesNone ==
  ASSUME NEW ph \in [Elems -> Phases], NEW err, AfterStretch(err, ph)
  PROVE  NoneCompleted(ph, phase')
  <1>1. CASE phase' = ph
    BY <1>1 DEF NoneCompleted
  <1>2. CASE \E v : phase' = FinishItems(ph, v)
    BY <1>2, FinishCompletesNone
  <1> QED  BY <1>1, <1>2 DEF AfterStretch

LEMMA RecordUploadCompletesNone ==
  ASSUME phase \in [Elems -> Phases], NEW e \in Elems, NEW n, RecordUpload(e, n)
  PROVE  NoneCompleted(phase, phase')
  BY DEF NoneCompleted, RecordUpload, Phases

(* A step that completes no file and leaves the goroutines of the pipes alone keeps the invariant. *)
LEMMA Harmless ==
  ASSUME IInv, NoneCompleted(phase, phase'), stored \subseteq stored',
         UNCHANGED <<saver, pipeErr>>
  PROVE  IInv'
  BY DEF IInv, Shapes, SaverTells, CompletedStored, NoneCompleted

LEMMA SamePhases ==
  ASSUME IInv, UNCHANGED phase
  PROVE  NoneCompleted(phase, phase')
  BY DEF IInv, Shapes, NoneCompleted

(* A step that moves one file to a phase other than completed. *)
LEMMA OnePhase ==
  ASSUME IInv, NEW e \in Elems, NEW p \in Phases \ {"Completed"}, phase' = [phase EXCEPT ![e] = p]
  PROVE  NoneCompleted(phase, phase')
  BY DEF IInv, Shapes, NoneCompleted

LEMMA BatchStarts == Init => IInv
  BY DEF Init, IInv, Shapes, SaverTells, CompletedStored, Phases

-----------------------------------------------------------------------------
LEMMA MainPreserves ==
  ASSUME IInv, MainStep
  PROVE  IInv'
  <1> phase \in [Elems -> Phases]  BY DEF IInv, Shapes
  <1>1. CASE Start
    BY <1>1, Harmless, SamePhases DEF Start, pipeVars
  <1>2. CASE FilesEnd
    BY <1>2, Harmless, AfterStretchCompletesNone DEF FilesEnd, pipeVars
  <1>3. CASE AlbumGivenUp
    <2>1. \E ph \in [Elems -> Phases] : \E err : NoneCompleted(phase, ph) /\ AfterStretch(err, ph)
      <3>1. NoneCompleted(phase, phase)  BY DEF NoneCompleted
      <3>2. \A e : /\ MarkFailed(phase, {e}, "error") \in [Elems -> Phases]
                   /\ NoneCompleted(phase, MarkFailed(phase, {e}, "error"))
        BY MarkFailedCompletesNone DEF NoneCompleted
      <3> QED  BY <1>3, <3>1, <3>2 DEF AlbumGivenUp
    <2>2. NoneCompleted(phase, phase')
      BY <2>1, AfterStretchCompletesNone DEF NoneCompleted
    <2> QED  BY <1>3, <2>2, Harmless DEF AlbumGivenUp, pipeVars
  <1>4. CASE AlbumSent
    BY <1>4, Harmless, SamePhases DEF AlbumSent, pipeVars
  <1>5. CASE AlbumSaved
    <2> DEFINE done == [e \in Elems |-> IF e \in Fetched THEN "Completed" ELSE phase[e]]
    <2>1. done \in [Elems -> Phases]  BY DEF Phases
    <2>2. NoneCompleted(done, phase')
      BY <1>5, <2>1, AfterStretchCompletesNone DEF AlbumSaved
    <2>3. \A e \in Elems : phase'[e] = "Completed" => e \in Fetched \/ phase[e] = "Completed"
      BY <2>2 DEF NoneCompleted
    <2> QED
      BY <1>5, <2>2, <2>3 DEF AlbumSaved, IInv, Shapes, SaverTells, CompletedStored, NoneCompleted, pipeVars
  <1>6. CASE AlbumFails
    <2>1. PICK err : AfterStretch(err, MarkFailed(phase, Fetched, err))
      BY <1>6 DEF AlbumFails
    <2>2. NoneCompleted(phase, MarkFailed(phase, Fetched, err))
      BY MarkFailedCompletesNone
    <2>3. NoneCompleted(phase, phase')
      BY <2>1, <2>2, AfterStretchCompletesNone DEF NoneCompleted
    <2>4. stored \subseteq stored'  BY <1>6 DEF AlbumFails
    <2> QED  BY <1>6, <2>3, <2>4, Harmless DEF AlbumFails, pipeVars
  <1> QED  BY <1>1, <1>2, <1>3, <1>4, <1>5, <1>6 DEF MainStep

LEMMA CachedPreserves ==
  ASSUME IInv, NEW e \in Elems, CachedStep(e) \/ MarkProcessing(e) \/ LateRead(e) \/ AlbumProgress(e)
  PROVE  IInv'
  <1> phase \in [Elems -> Phases]  BY DEF IInv, Shapes
  <1>1. CASE DownloadFails(e)
    <2>1. NoneCompleted(phase, phase')
      BY <1>1, MarkFailedCompletesNone DEF DownloadFails
    <2> QED  BY <1>1, <2>1, Harmless DEF DownloadFails, pipeVars
  <1>2. CASE Downloaded(e)
    BY <1>2, OnePhase, Harmless DEF Downloaded, pipeVars, Phases
  <1>3. CASE Attempt(e)
    <2>1. NoneCompleted(phase, phase')
      BY <1>3, OnePhase, RecordUploadCompletesNone DEF Attempt, Phases
    <2> QED  BY <1>3, <2>1, Harmless DEF Attempt, pipeVars
  <1>4. CASE SaveProgress(e)
    BY <1>4, RecordUploadCompletesNone, Harmless DEF SaveProgress, pipeVars
  <1>5. CASE Saved(e)
    BY <1>5 DEF Saved, IInv, Shapes, SaverTells, CompletedStored, Phases, pipeVars
  <1>6. CASE SaveFails(e)
    <2>1. NoneCompleted(phase, phase')
      BY <1>6, OnePhase DEF SaveFails, Phases
    <2>2. stored \subseteq stored' /\ UNCHANGED <<saver, pipeErr>>
      BY <1>6 DEF SaveFails, pipeVars
    <2> QED  BY <2>1, <2>2, Harmless
  <1>7. CASE TryAgain(e)
    BY <1>7, SamePhases, Harmless DEF TryAgain, pipeVars
  <1>8. CASE GiveUp(e)
    BY <1>8, MarkFailedCompletesNone, Harmless DEF GiveUp, pipeVars
  <1>9. CASE LateRead(e)
    BY <1>9, RecordUploadCompletesNone, Harmless DEF LateRead, pipeVars
  <1>10. CASE AlbumProgress(e)
    BY <1>10, RecordUploadCompletesNone, Harmless DEF AlbumProgress, pipeVars
  <1>11. CASE MarkProcessing(e)
    <2>1. NoneCompleted(phase, phase')
      BY <1>11, OnePhase DEF MarkProcessing, Phases
    <2> QED
      BY <1>11, <2>1 DEF MarkProcessing, IInv, Shapes, SaverTells, CompletedStored, NoneCompleted
  <1> QED
    BY <1>1, <1>2, <1>3, <1>4, <1>5, <1>6, <1>7, <1>8, <1>9, <1>10, <1>11 DEF CachedStep

LEMMA PipePreserves ==
  ASSUME IInv, NEW e \in Elems, SenderStep(e) \/ SaverStep(e) \/ StreamEnds(e)
  PROVE  IInv'
  <1> phase \in [Elems -> Phases]  BY DEF IInv, Shapes
  <1>1. CASE SendChunk(e) \/ ReadChunk(e) \/ SendEnds(e)
    BY <1>1, SamePhases, Harmless DEF SendChunk, ReadChunk, SendEnds
  <1>2. CASE SendFails(e)
    <2>1. PICK err \in Errors : phase' = MarkFailed(phase, {e}, err) /\ PipeReturns(e, err)
      BY <1>2 DEF SendFails
    <2>2. NoneCompleted(phase, phase')
      BY <2>1, MarkFailedCompletesNone
    <2> QED
      BY <1>2, <2>1, <2>2
      DEF SendFails, PipeReturns, IInv, Shapes, SaverTells, CompletedStored, NoneCompleted, Errors
  <1>3. CASE StreamSaved(e)
    BY <1>3 DEF StreamSaved, IInv, Shapes, SaverTells, CompletedStored
  <1>4. CASE StreamSaveFails(e)
    <2>1. PICK err \in Errors : phase' = MarkFailed(phase, {e}, err) /\ PipeReturns(e, err)
      BY <1>4 DEF StreamSaveFails, ErrorsUnder, Errors
    <2>2. NoneCompleted(phase, phase')
      BY <2>1, MarkFailedCompletesNone
    <2>3. pipeErr' \in [Elems -> Errors \union {None}] /\ pipeErr'[e] # None
          /\ \A x \in Elems \ {e} : pipeErr'[x] = pipeErr[x]
      BY <2>1 DEF PipeReturns, IInv, Shapes, Errors
    <2>4. stored \subseteq stored'  BY <1>4 DEF StreamSaveFails
    <2>5. \/ saver' = [saver EXCEPT ![e] = "failed"]
          \/ saver' = [saver EXCEPT ![e] = "closed"]
      BY <1>4 DEF StreamSaveFails
    <2> QED
      BY <2>2, <2>3, <2>4, <2>5 DEF IInv, Shapes, SaverTells, CompletedStored, NoneCompleted
  <1>5. CASE StreamEnds(e)
    <2>1. CASE BothOk(e)
      BY <1>5, <2>1 DEF StreamEnds, BothOk, IInv, Shapes, SaverTells, CompletedStored, Phases, pipeVars
    <2>2. CASE ~BothOk(e)
      BY <1>5, <2>2, SamePhases, Harmless DEF StreamEnds, pipeVars
    <2> QED  BY <2>1, <2>2
  <1> QED  BY <1>1, <1>2, <1>3, <1>4, <1>5 DEF SenderStep, SaverStep

LEMMA BatchPreserves == IInv /\ [Next]_vars => IInv'
  <1> SUFFICES ASSUME IInv, [Next]_vars  PROVE IInv'
    OBVIOUS
  <1>1. CASE MainStep
    BY <1>1, MainPreserves
  <1>2. CASE Cancel
    BY <1>2, SamePhases, Harmless DEF Cancel, pipeVars
  <1>3. CASE \E e \in Elems : MarkProcessing(e) \/ CachedStep(e) \/ LateRead(e) \/ AlbumProgress(e)
    BY <1>3, CachedPreserves
  <1>4. CASE \E e \in Elems : SenderStep(e) \/ SaverStep(e) \/ StreamEnds(e)
    BY <1>4, PipePreserves
  <1>5. CASE UNCHANGED vars
    BY <1>5, SamePhases, Harmless DEF vars, pipeVars
  <1> QED  BY <1>1, <1>2, <1>3, <1>4, <1>5 DEF Next

(* Whatever fails, is retried, cancelled or reported late, a file shown as completed is on the storage. *)
THEOREM CompletedIsStored == Spec => []CompletedStored
  <1>1. IInv => CompletedStored  BY DEF IInv
  <1> QED  BY BatchStarts, BatchPreserves, <1>1, PTL DEF Spec

-----------------------------------------------------------------------------
(* The report.  What the chat is told depends on every file, also on those of stretches that are long over, *)
(* so the invariant follows Execute along the order of the files.                                           *)
(* Something has happened that the report will not pass over. *)
Doomed == groupErr # None \/ (exec = "finished" /\ result # "ok")

(* A failed file of an album: no late read can hide it, as albums are not retried. *)
AlbumFailure == \E x \in Elems : Key[x] # None /\ phase[x] = "Failed"

Walk ==
  /\ \A e \in Before : epc[e] \in {"fetched", "ended"}
  /\ \A e \in Ahead : epc[e] = "waiting"
  /\ exec = "album" => IsAlbum /\ groupErr = None /\ \A e \in Current : epc[e] \in {"fetched", "ended"}
  /\ exec \in {"ready", "finished"} => \A e \in Elems : epc[e] \in {"waiting", "fetched", "ended"}

Outcome ==
  /\ groupErr # None => ~Ignored(groupErr)
  /\ result # None <=> exec = "finished"
  /\ report # None => exec = "finished"
  /\ result = "ok" => groupErr = None

(* What the place of a file's goroutine tells of its phase, its attempts and its pipe. *)
FilePlace(e) ==
  /\ epc[e] = "waiting" => phase[e] \in {"Waiting", "Stopped"} /\ attempt[e] = 0 /\ pipeErr[e] = None
  /\ epc[e] = "downloading" => phase[e] = "Downloading" /\ attempt[e] = 0
  /\ epc[e] \in {"trying", "saving", "backoff"} =>
       phase[e] \notin {"Completed", "Failed", "Stopped"} /\ Key[e] = None
  /\ epc[e] = "trying" => attempt[e] < Retry
  /\ epc[e] = "fetched" => Key[e] # None
  /\ epc[e] = "streaming" =>
       /\ e \in Streams
       /\ pipeErr[e] = None => phase[e] = "Transferring"
       /\ pipeErr[e] = "error" => phase[e] = "Failed"
       /\ pipeErr[e] = "canceled" => phase[e] \in {"Failed", "Stopped"}
  /\ epc[e] # "streaming" => saver[e] # "active" /\ sender[e] \notin {"fetching", "writing"}
  /\ e \in late \union overtaken => Key[e] = None /\ epc[e] \notin {"waiting", "downloading", "fetched"}

(* A file whose goroutine is done is stored, or something tells that it is not. *)
Accounted(e) ==
  /\ epc[e] = "ended" => e \in stored \union overtaken \/ phase[e] = "Failed" \/ Doomed
  /\ epc[e] = "fetched" /\ e \in Current /\ exec # "finished" =>
       phase[e] \in {"Downloaded", "Uploading", "Confirming"}
  /\ epc[e] = "fetched" => (e \in Current /\ exec # "finished") \/ e \in stored \/ AlbumFailure \/ Doomed
  /\ phase[e] = "Stopped" => Doomed \/ (epc[e] = "streaming" /\ pipeErr[e] = "canceled")

Files == \A e \in Elems : FilePlace(e) /\ Accounted(e)

BInv == TypeOK /\ Walk /\ Outcome /\ Files /\ ReportHonest

(* What VerdictFinal asks of a step. *)
Kept == \A e \in Elems : phase[e] \in {"Completed", "Failed"} => phase'[e] = phase[e] \/ e \in overtaken'

-----------------------------------------------------------------------------
(* A file's goroutine that is at work is one of the current stretch. *)
LEMMA WorkingIsCurrent ==
  ASSUME Walk, NEW e \in Elems, epc[e] \notin {"waiting", "fetched", "ended"}, TypeOK
  PROVE  e \in Current /\ exec = "files"
  BY DEF Walk, Ahead, TypeOK

-----------------------------------------------------------------------------
(* A step of one file, e: it moves e only from where it is not done, in the current stretch, and an error   *)
(* that it gives to the errgroup is one that is not passed over.                                             *)
OthersSame(e) ==
  \A x \in Elems \ {e} :
    /\ epc'[x] = epc[x] /\ phase'[x] = phase[x] /\ attempt'[x] = attempt[x]
    /\ saver'[x] = saver[x] /\ sender'[x] = sender[x] /\ pipeErr'[x] = pipeErr[x]
    /\ x \in late' => x \in late
    /\ x \in overtaken' => x \in overtaken

Grows == stored \subseteq stored' /\ overtaken \subseteq overtaken'

Recorded ==
  \/ groupErr' = groupErr
  \/ groupErr = None /\ groupErr' \in Errors /\ ~Ignored(groupErr')

LEMMA OneFileMoves ==
  ASSUME BInv, NEW e \in Elems, OthersSame(e), Grows, Recorded, UNCHANGED <<exec, at, result, report>>,
         TypeOK',
         epc'[e] = epc[e] \/ (epc[e] \notin {"fetched", "ended"} /\ e \in Current /\ exec = "files"),
         exec # "files" => groupErr' = groupErr,
         phase[e] \in {"Completed", "Failed"} => phase'[e] = phase[e] \/ e \in overtaken',
         FilePlace(e)', Accounted(e)'
  PROVE  BInv' /\ Kept
  <1>1. Current' = Current /\ Before' = Before /\ Ahead' = Ahead /\ IsAlbum' = IsAlbum
    BY DEF Current, Before, Ahead, IsAlbum, Stretch
  <1>2. Kept
    BY DEF Kept, OthersSame
  <1>3. Walk'
    <2>1. Walk
      BY DEF BInv
    <2>2. ASSUME NEW x \in Elems, epc'[x] # epc[x]
          PROVE  x = e /\ x \in Current /\ x \notin Before /\ x \notin Ahead /\ exec = "files"
      BY <2>1, <2>2 DEF OthersSame, Walk, Ahead
    <2>3. Before \subseteq Elems /\ Ahead \subseteq Elems /\ Current \subseteq Elems
      <3>1. at \in DOMAIN Order  BY DEF BInv, TypeOK
      <3> QED  BY <3>1, CurrentFiles, BeforeFiles DEF Ahead
    <2>4. exec = "album" => groupErr' = None
      BY <2>1 DEF Walk
    <2> QED  BY <1>1, <2>1, <2>2, <2>3, <2>4 DEF Walk
  <1>4. Outcome'
    BY DEF BInv, Outcome, Recorded, TypeOK, Ignored
  <1>5. Doomed => Doomed'
    BY DEF Doomed, Recorded, Errors
  <1>6. AlbumFailure => AlbumFailure'
    <2>1. ASSUME NEW x \in Elems, Key[x] # None, phase[x] = "Failed"  PROVE phase'[x] = "Failed"
      <3>1. CASE x # e
        BY <2>1, <3>1 DEF OthersSame
      <3>2. CASE x = e
        BY <2>1, <3>2 DEF FilePlace
      <3> QED  BY <3>1, <3>2
    <2> QED  BY <2>1 DEF AlbumFailure
  <1>7. ASSUME NEW x \in Elems, x # e  PROVE FilePlace(x)' /\ Accounted(x)'
    <2>1. FilePlace(x) /\ Accounted(x)
      BY DEF BInv, Files
    <2>2. /\ epc'[x] = epc[x] /\ phase'[x] = phase[x] /\ attempt'[x] = attempt[x]
          /\ saver'[x] = saver[x] /\ sender'[x] = sender[x] /\ pipeErr'[x] = pipeErr[x]
          /\ x \in late' => x \in late
          /\ x \in overtaken' => x \in overtaken
      BY <1>7 DEF OthersSame
    <2>3. FilePlace(x)'
      BY <2>1, <2>2 DEF FilePlace
    <2>4. Accounted(x)'
      BY <1>1, <1>5, <1>6, <2>1, <2>2 DEF Accounted, Grows
    <2> QED  BY <2>3, <2>4
  <1>8. Files'
    BY <1>7 DEF Files
  <1>9. ReportHonest'
    BY DEF BInv, ReportHonest, Grows
  <1> QED  BY <1>2, <1>3, <1>4, <1>8, <1>9 DEF BInv

(* What is left of Accounted for a file that is done, and for one that is not. *)
LEMMA DoneAccounted ==
  ASSUME NEW e, epc'[e] = "ended", e \in stored' \union overtaken' \/ phase'[e] = "Failed" \/ Doomed',
         phase'[e] = "Stopped" => Doomed'
  PROVE  Accounted(e)'
  BY DEF Accounted

LEMMA WorkingAccounted ==
  ASSUME NEW e, epc'[e] \notin {"ended", "fetched"},
         phase'[e] = "Stopped" => Doomed' \/ (epc'[e] = "streaming" /\ pipeErr'[e] = "canceled")
  PROVE  Accounted(e)'
  BY DEF Accounted

LEMMA RecordUploadTypes ==
  ASSUME TypeOK, NEW e \in Elems, NEW n \in 0..Size, RecordUpload(e, n)
  PROVE  /\ uploaded' \in [Elems -> 0..Size] /\ phase' \in [Elems -> Phases]
         /\ phase'[e] \in {phase[e], "Uploading", "Confirming"}
         /\ \A x \in Elems \ {e} : phase'[x] = phase[x]
  <1>1. CASE UploadCounts(e, n)
    <2>1. PICK p \in {"Confirming", "Uploading"} : phase' = [phase EXCEPT ![e] = p]
      BY <1>1 DEF RecordUpload
    <2>2. uploaded' = [uploaded EXCEPT ![e] = n]
      BY <1>1 DEF RecordUpload
    <2>3. phase \in [Elems -> Phases] /\ uploaded \in [Elems -> 0..Size]
      BY DEF TypeOK
    <2>4. uploaded' \in [Elems -> 0..Size]
      BY <2>2, <2>3
    <2> QED  BY <2>1, <2>3, <2>4 DEF Phases
  <1>2. CASE ~UploadCounts(e, n)
    <2>1. uploaded' = uploaded /\ phase' = phase
      BY <1>2 DEF RecordUpload
    <2> QED  BY <2>1 DEF TypeOK
  <1> QED  BY <1>1, <1>2

LEMMA MarkFailedTypes ==
  ASSUME NEW ph \in [Elems -> Phases], NEW E, NEW err \in Errors
  PROVE  /\ MarkFailed(ph, E, err) \in [Elems -> Phases]
         /\ \A x \in Elems \ E : MarkFailed(ph, E, err)[x] = ph[x]
         /\ \A x \in E \intersect Elems :
              MarkFailed(ph, E, err)[x] = IF ph[x] \in {"Failed", "Completed"} THEN ph[x]
                                          ELSE IF err = "canceled" THEN "Stopped" ELSE "Failed"
  BY DEF MarkFailed, Phases

LEMMA EndsTypes ==
  ASSUME TypeOK, NEW e \in Elems, NEW err \in Errors \union {None}, Ends(e, err)
  PROVE  /\ epc' = [epc EXCEPT ![e] = "ended"] /\ groupErr' \in Errors \union {None} /\ Recorded
         /\ err # None /\ ~Ignored(err) => Doomed'
  BY DEF TypeOK, Ends, Recorded, Doomed, Errors

-----------------------------------------------------------------------------
LEMMA CachedReports ==
  ASSUME BInv, NEW e \in Elems, CachedStep(e) \/ MarkProcessing(e)
  PROVE  BInv' /\ Kept
  <1> TypeOK /\ Walk /\ FilePlace(e) /\ Accounted(e)
    BY DEF BInv, Files
  <1> phase \in [Elems -> Phases]
    BY DEF TypeOK
  <1>1. CASE DownloadFails(e)
    <2>1. PICK err \in Errors : phase' = MarkFailed(phase, {e}, err) /\ Ends(e, err)
      BY <1>1 DEF DownloadFails, ErrorsUnder, Errors
    <2>2. epc[e] = "downloading" /\ UNCHANGED <<cancelled, exec, at, result, report, uploaded, attempt, pipeVars, stored, readVars>>
      BY <1>1 DEF DownloadFails
    <2>3. e \in Current /\ exec = "files"
      BY <2>2, WorkingIsCurrent
    <2>4. phase' \in [Elems -> Phases] /\ phase'[e] = (IF err = "canceled" THEN "Stopped" ELSE "Failed")
          /\ \A x \in Elems \ {e} : phase'[x] = phase[x]
      BY <2>1, <2>2, MarkFailedTypes DEF FilePlace
    <2>5. epc' = [epc EXCEPT ![e] = "ended"] /\ groupErr' \in Errors \union {None} /\ Recorded
          /\ (err = "canceled" => Doomed')
      BY <2>1, EndsTypes DEF Ignored, Errors
    <2>6. TypeOK'
      BY <2>2, <2>4, <2>5 DEF TypeOK, pipeVars, readVars
    <2>7. OthersSame(e) /\ Grows
      BY <2>2, <2>4, <2>5 DEF OthersSame, Grows, pipeVars, readVars, TypeOK
    <2>8. FilePlace(e)'
      BY <2>2, <2>5 DEF FilePlace, pipeVars, readVars, TypeOK
    <2>9. Accounted(e)'
      BY <2>4, <2>5, DoneAccounted DEF Errors, TypeOK
    <2> QED
      BY <2>2, <2>3, <2>5, <2>6, <2>7, <2>8, <2>9, OneFileMoves DEF FilePlace
  <1>2. CASE Downloaded(e)
    <2>1. /\ epc[e] = "downloading" /\ phase' = [phase EXCEPT ![e] = "Downloaded"]
          /\ epc' = [epc EXCEPT ![e] = IF IsAlbum THEN "fetched" ELSE "trying"]
          /\ UNCHANGED <<cancelled, taskVars, uploaded, attempt, pipeVars, stored, readVars>>
      BY <1>2 DEF Downloaded
    <2>2. e \in Current /\ exec = "files"
      BY <2>1, WorkingIsCurrent
    <2>3. IsAlbum <=> Key[e] # None
      BY <2>2, CurrentFiles DEF TypeOK, IsAlbum
    <2>4. TypeOK'
      BY <2>1 DEF TypeOK, pipeVars, readVars, taskVars, Phases
    <2>5. OthersSame(e) /\ Grows /\ Recorded
      BY <2>1 DEF OthersSame, Grows, Recorded, pipeVars, readVars, taskVars, TypeOK
    <2>6. FilePlace(e)'
      BY <2>1, <2>3 DEF FilePlace, pipeVars, readVars, taskVars, TypeOK
    <2>7. epc'[e] \in {"fetched", "trying"} /\ phase'[e] = "Downloaded" /\ Current' = Current /\ exec' = exec
      BY <2>1 DEF TypeOK, taskVars, Current, Stretch
    <2>8. Accounted(e)'
      BY <2>2, <2>7 DEF Accounted
    <2> QED
      BY <2>1, <2>2, <2>4, <2>5, <2>6, <2>8, OneFileMoves DEF FilePlace, taskVars
  <1>3. CASE Attempt(e)
    <2>1. /\ epc[e] = "trying" /\ attempt' = [attempt EXCEPT ![e] = @ + 1]
          /\ UNCHANGED <<cancelled, taskVars, pipeVars, stored, readVars>>
      BY <1>3 DEF Attempt
    <2>2. /\ epc' = [epc EXCEPT ![e] = "backoff"] \/ epc' = [epc EXCEPT ![e] = "saving"]
          /\ uploaded' \in [Elems -> 0..Size] /\ phase' \in [Elems -> Phases]
          /\ phase'[e] \in {phase[e], "Retrying", "Uploading", "Confirming"}
          /\ \A x \in Elems \ {e} : phase'[x] = phase[x]
      <3>1. CASE epc' = [epc EXCEPT ![e] = "backoff"] /\ phase' = [phase EXCEPT ![e] = "Retrying"] /\ UNCHANGED uploaded
        BY <3>1 DEF TypeOK, Phases
      <3>2. CASE epc' = [epc EXCEPT ![e] = "saving"] /\ RecordUpload(e, 0)
        <4>1. 0 \in 0..Size
          OBVIOUS
        <4> QED  BY <3>2, <4>1, RecordUploadTypes
      <3> QED  BY <1>3, <3>1, <3>2 DEF Attempt
    <2>3. e \in Current /\ exec = "files"
      BY <2>1, WorkingIsCurrent
    <2>4. attempt' \in [Elems -> 0..Retry]
      BY <2>1 DEF FilePlace, TypeOK
    <2>5. TypeOK'
      <3>1. epc' \in [Elems -> {"waiting", "downloading", "fetched", "trying", "saving", "backoff", "streaming", "ended"}]
        BY <2>2 DEF TypeOK
      <3> QED  BY <2>1, <2>2, <2>4, <3>1 DEF TypeOK, pipeVars, readVars, taskVars
    <2>6. OthersSame(e) /\ Grows /\ Recorded
      BY <2>1, <2>2 DEF OthersSame, Grows, Recorded, pipeVars, readVars, taskVars, TypeOK
    <2>7. epc'[e] \in {"backoff", "saving"} /\ phase'[e] \notin {"Completed", "Failed", "Stopped"}
      BY <2>1, <2>2 DEF FilePlace, TypeOK
    <2>8. FilePlace(e)'
      BY <2>1, <2>7 DEF FilePlace, pipeVars, readVars
    <2>9. Accounted(e)'
      BY <2>7, WorkingAccounted
    <2> QED
      BY <2>1, <2>3, <2>5, <2>6, <2>8, <2>9, OneFileMoves DEF FilePlace, taskVars
  <1>4. CASE SaveProgress(e)
    <2>1. /\ epc[e] = "saving"
          /\ UNCHANGED <<cancelled, taskVars, epc, attempt, pipeVars, stored, readVars>>
      BY <1>4 DEF SaveProgress
    <2>2. PICK n \in 0..Size : RecordUpload(e, n)
      BY <1>4 DEF SaveProgress
    <2>3. TypeOK'
      BY <2>1, <2>2, RecordUploadTypes DEF TypeOK, pipeVars, readVars, taskVars
    <2>4. OthersSame(e) /\ Grows /\ Recorded
      BY <2>1, <2>2, RecordUploadTypes DEF OthersSame, Grows, Recorded, pipeVars, readVars, taskVars
    <2>5. epc'[e] = "saving" /\ phase'[e] \notin {"Completed", "Failed", "Stopped"}
      BY <2>1, <2>2, RecordUploadTypes DEF FilePlace
    <2>6. FilePlace(e)'
      BY <2>1, <2>5 DEF FilePlace, pipeVars, readVars
    <2>7. Accounted(e)'
      BY <2>5, WorkingAccounted
    <2> QED
      BY <2>1, <2>3, <2>4, <2>6, <2>7, OneFileMoves DEF FilePlace, taskVars
  <1>5. CASE Saved(e)
    <2>1. /\ epc[e] = "saving" /\ phase' = [phase EXCEPT ![e] = "Completed"]
          /\ uploaded' = [uploaded EXCEPT ![e] = Size] /\ stored' = stored \union {e} /\ Ends(e, None)
          /\ UNCHANGED <<cancelled, exec, at, result, report, attempt, pipeVars, readVars>>
      BY <1>5 DEF Saved
    <2>2. e \in Current /\ exec = "files"
      BY <2>1, WorkingIsCurrent
    <2>3. epc' = [epc EXCEPT ![e] = "ended"] /\ groupErr' = groupErr /\ Recorded
      BY <2>1 DEF Ends, Recorded
    <2>4. TypeOK'
      <3>1. phase' \in [Elems -> Phases] /\ uploaded' \in [Elems -> 0..Size]
        BY <2>1 DEF TypeOK, Phases
      <3>2. epc' \in [Elems -> {"waiting", "downloading", "fetched", "trying", "saving", "backoff", "streaming", "ended"}]
        BY <2>3 DEF TypeOK
      <3>3. stored' \subseteq Elems
        BY <2>1 DEF TypeOK
      <3>4. UNCHANGED <<cancelled, exec, at, result, report, attempt, groupErr, pipeVars, readVars>>
        BY <2>1, <2>3
      <3> QED  BY <3>1, <3>2, <3>3, <3>4 DEF TypeOK, pipeVars, readVars
    <2>5. OthersSame(e) /\ Grows
      BY <2>1, <2>3 DEF OthersSame, Grows, pipeVars, readVars, TypeOK
    <2>6. FilePlace(e)'
      BY <2>1, <2>3 DEF FilePlace, pipeVars, readVars, TypeOK
    <2>7. Accounted(e)'
      BY <2>1, <2>3, DoneAccounted DEF TypeOK
    <2> QED
      BY <2>1, <2>2, <2>3, <2>4, <2>5, <2>6, <2>7, OneFileMoves DEF FilePlace
  <1>6. CASE SaveFails(e)
    <2>1. /\ epc[e] = "saving" /\ phase' = [phase EXCEPT ![e] = "Retrying"]
          /\ epc' = [epc EXCEPT ![e] = "backoff"]
          /\ stored' \in {stored, stored \union {e}}
          /\ late' \in {late, late \union (Lingering \intersect {e})}
          /\ UNCHANGED <<cancelled, taskVars, uploaded, attempt, pipeVars, overtaken>>
      BY <1>6 DEF SaveFails
    <2>2. e \in Current /\ exec = "files"
      BY <2>1, WorkingIsCurrent
    <2>3. TypeOK'
      BY <2>1 DEF TypeOK, pipeVars, taskVars, Phases
    <2>4. OthersSame(e) /\ Grows /\ Recorded
      BY <2>1 DEF OthersSame, Grows, Recorded, pipeVars, taskVars, TypeOK
    <2>5. epc'[e] = "backoff" /\ phase'[e] = "Retrying"
      BY <2>1 DEF TypeOK
    <2>6. FilePlace(e)'
      BY <2>1, <2>5 DEF FilePlace, pipeVars
    <2>7. Accounted(e)'
      BY <2>5, WorkingAccounted
    <2> QED
      BY <2>1, <2>2, <2>3, <2>4, <2>6, <2>7, OneFileMoves DEF FilePlace, taskVars
  <1>7. CASE TryAgain(e)
    <2>1. /\ epc[e] = "backoff" /\ attempt[e] < Retry /\ epc' = [epc EXCEPT ![e] = "trying"]
          /\ UNCHANGED <<cancelled, taskVars, phase, uploaded, attempt, pipeVars, stored, readVars>>
      BY <1>7 DEF TryAgain, AttemptLeft
    <2>2. e \in Current /\ exec = "files"
      BY <2>1, WorkingIsCurrent
    <2>3. TypeOK'
      BY <2>1 DEF TypeOK, pipeVars, readVars, taskVars
    <2>4. OthersSame(e) /\ Grows /\ Recorded
      BY <2>1 DEF OthersSame, Grows, Recorded, pipeVars, readVars, taskVars, TypeOK
    <2>5. epc'[e] = "trying"
      BY <2>1 DEF TypeOK
    <2>6. FilePlace(e)'
      BY <2>1, <2>5 DEF FilePlace, pipeVars, readVars
    <2>7. Accounted(e)'
      BY <2>1, <2>5, WorkingAccounted DEF FilePlace
    <2> QED
      BY <2>1, <2>2, <2>3, <2>4, <2>6, <2>7, OneFileMoves DEF FilePlace, taskVars
  <1>8. CASE GiveUp(e)
    <2>1. /\ epc[e] = "backoff" /\ phase' = MarkFailed(phase, {e}, "error") /\ Ends(e, "error")
          /\ UNCHANGED <<cancelled, exec, at, result, report, uploaded, attempt, pipeVars, stored, readVars>>
      BY <1>8 DEF GiveUp
    <2>2. e \in Current /\ exec = "files"
      BY <2>1, WorkingIsCurrent
    <2>3. phase' \in [Elems -> Phases] /\ phase'[e] = "Failed" /\ \A x \in Elems \ {e} : phase'[x] = phase[x]
      BY <2>1, MarkFailedTypes DEF FilePlace, Errors
    <2>4. epc' = [epc EXCEPT ![e] = "ended"] /\ groupErr' \in Errors \union {None} /\ Recorded
      BY <2>1, EndsTypes DEF Errors
    <2>5. TypeOK'
      BY <2>1, <2>3, <2>4 DEF TypeOK, pipeVars, readVars
    <2>6. OthersSame(e) /\ Grows
      BY <2>1, <2>3, <2>4 DEF OthersSame, Grows, pipeVars, readVars, TypeOK
    <2>7. FilePlace(e)'
      BY <2>1, <2>4 DEF FilePlace, pipeVars, readVars, TypeOK
    <2>8. Accounted(e)'
      BY <2>3, <2>4, DoneAccounted DEF TypeOK
    <2> QED
      BY <2>1, <2>2, <2>4, <2>5, <2>6, <2>7, <2>8, OneFileMoves DEF FilePlace
  <1>9. CASE MarkProcessing(e)
    <2>1. /\ exec = "files" /\ e \in Current /\ epc[e] = "waiting"
          /\ UNCHANGED <<cancelled, taskVars, uploaded, attempt, pipeErr, stored, readVars>>
      BY <1>9 DEF MarkProcessing
    <2>2. CASE e \in Streams
      <3>1. /\ epc' = [epc EXCEPT ![e] = "streaming"] /\ phase' = [phase EXCEPT ![e] = "Transferring"]
            /\ saver' = [saver EXCEPT ![e] = "active"] /\ sender' = [sender EXCEPT ![e] = "fetching"]
        BY <1>9, <2>2 DEF MarkProcessing
      <3>2. TypeOK'
        BY <2>1, <3>1 DEF TypeOK, readVars, taskVars, Phases
      <3>3. OthersSame(e) /\ Grows /\ Recorded
        BY <2>1, <3>1 DEF OthersSame, Grows, Recorded, readVars, taskVars, TypeOK
      <3>4. epc'[e] = "streaming" /\ phase'[e] = "Transferring"
        BY <3>1 DEF TypeOK
      <3>5. FilePlace(e)'
        BY <2>1, <2>2, <3>4 DEF FilePlace, readVars, Errors
      <3>6. Accounted(e)'
        BY <3>4, WorkingAccounted
      <3> QED
        BY <2>1, <3>2, <3>3, <3>5, <3>6, OneFileMoves DEF FilePlace, taskVars
    <2>3. CASE e \notin Streams
      <3>1. /\ epc' = [epc EXCEPT ![e] = "downloading"] /\ phase' = [phase EXCEPT ![e] = "Downloading"]
            /\ UNCHANGED <<saver, sender>>
        BY <1>9, <2>3 DEF MarkProcessing
      <3>2. TypeOK'
        BY <2>1, <3>1 DEF TypeOK, readVars, taskVars, Phases
      <3>3. OthersSame(e) /\ Grows /\ Recorded
        BY <2>1, <3>1 DEF OthersSame, Grows, Recorded, readVars, taskVars, TypeOK
      <3>4. epc'[e] = "downloading" /\ phase'[e] = "Downloading"
        BY <3>1 DEF TypeOK
      <3>5. FilePlace(e)'
        BY <2>1, <3>1, <3>4 DEF FilePlace, readVars
      <3>6. Accounted(e)'
        BY <3>4, WorkingAccounted
      <3> QED
        BY <2>1, <3>2, <3>3, <3>5, <3>6, OneFileMoves DEF FilePlace, taskVars
    <2> QED  BY <2>2, <2>3
  <1> QED
    BY <1>1, <1>2, <1>3, <1>4, <1>5, <1>6, <1>7, <1>8, <1>9 DEF CachedStep

LEMMA ReadsReport ==
  ASSUME BInv, NEW e \in Elems, LateRead(e) \/ AlbumProgress(e)
  PROVE  BInv' /\ Kept
  <1> TypeOK /\ Walk /\ FilePlace(e) /\ Accounted(e)
    BY DEF BInv, Files
  <1>1. CASE LateRead(e)
    <2>1. /\ e \in late /\ late' = late \ {e}
          /\ UNCHANGED <<cancelled, taskVars, epc, attempt, pipeVars, stored>>
      BY <1>1 DEF LateRead
    <2>2. PICK n \in 0..Size : /\ RecordUpload(e, n)
                               /\ overtaken' = IF UploadCounts(e, n) THEN overtaken \union {e} ELSE overtaken
      BY <1>1 DEF LateRead
    <2>3. phase'[e] = phase[e] \/ (e \in overtaken' /\ phase'[e] \in {"Uploading", "Confirming"})
      BY <2>2 DEF RecordUpload, TypeOK
    <2>4. TypeOK'
      BY <2>1, <2>2, RecordUploadTypes DEF TypeOK, pipeVars, taskVars
    <2>5. OthersSame(e) /\ Grows /\ Recorded
      BY <2>1, <2>2, RecordUploadTypes DEF OthersSame, Grows, Recorded, pipeVars, taskVars
    <2>6. /\ epc'[e] = epc[e] /\ epc[e] \in {"trying", "saving", "backoff", "ended"} /\ Key[e] = None
          /\ overtaken \subseteq overtaken' /\ (Doomed => Doomed')
      <3>1. epc[e] # "streaming"
        BY <2>1 DEF FilePlace, TypeOK
      <3> QED  BY <2>1, <2>2, <3>1 DEF FilePlace, TypeOK, Doomed, taskVars
    <2>7. FilePlace(e)'
      BY <2>1, <2>3, <2>6 DEF FilePlace, pipeVars
    <2>8. Accounted(e)'
      <3>1. CASE epc[e] = "ended"
        BY <2>1, <2>3, <2>6, <3>1, DoneAccounted DEF Accounted
      <3>2. CASE epc[e] # "ended"
        BY <2>3, <2>6, <3>2, WorkingAccounted DEF Accounted, FilePlace
      <3> QED  BY <3>1, <3>2
    <2> QED
      BY <2>1, <2>3, <2>4, <2>5, <2>6, <2>7, <2>8, OneFileMoves DEF taskVars
  <1>2. CASE AlbumProgress(e)
    <2>1. /\ exec = "album" /\ e \in Current /\ epc[e] = "fetched"
          /\ UNCHANGED <<cancelled, taskVars, epc, attempt, pipeVars, stored, readVars>>
      BY <1>2 DEF AlbumProgress, Fetched
    <2>2. PICK n \in 0..Size : RecordUpload(e, n)
      BY <1>2 DEF AlbumProgress
    <2>3. phase'[e] \in {"Downloaded", "Uploading", "Confirming"} /\ phase[e] \notin {"Completed", "Failed"}
      BY <2>1, <2>2, RecordUploadTypes DEF Accounted
    <2>4. TypeOK'
      BY <2>1, <2>2, RecordUploadTypes DEF TypeOK, pipeVars, readVars, taskVars
    <2>5. OthersSame(e) /\ Grows /\ Recorded
      BY <2>1, <2>2, RecordUploadTypes DEF OthersSame, Grows, Recorded, pipeVars, readVars, taskVars
    <2>6. FilePlace(e)'
      BY <2>1 DEF FilePlace, pipeVars, readVars
    <2>7. Accounted(e)'
      <3>1. epc'[e] = "fetched" /\ Current' = Current /\ exec' = "album"
        BY <2>1 DEF taskVars, Current, Stretch
      <3> QED  BY <2>1, <2>3, <3>1 DEF Accounted
    <2> QED
      BY <2>1, <2>3, <2>4, <2>5, <2>6, <2>7, OneFileMoves DEF taskVars
  <1> QED  BY <1>1, <1>2

(* A goroutine of a pipe fails: the first error and the phase go on telling the same. *)
LEMMA PipeFails ==
  ASSUME TypeOK, NEW e \in Elems, FilePlace(e), epc[e] = "streaming", NEW err \in Errors,
         phase' = MarkFailed(phase, {e}, err), PipeReturns(e, err)
  PROVE  /\ phase' \in [Elems -> Phases] /\ pipeErr' \in [Elems -> Errors \union {None}]
         /\ \A x \in Elems \ {e} : phase'[x] = phase[x] /\ pipeErr'[x] = pipeErr[x]
         /\ \/ pipeErr'[e] = "error" /\ phase'[e] = "Failed"
            \/ pipeErr'[e] = "canceled" /\ phase'[e] \in {"Failed", "Stopped"}
         /\ phase[e] \in {"Completed", "Failed"} => phase'[e] = phase[e]
  <1>1. phase \in [Elems -> Phases] /\ pipeErr \in [Elems -> Errors \union {None}]
    BY DEF TypeOK
  <1>2. /\ phase' \in [Elems -> Phases]
        /\ \A x \in Elems \ {e} : phase'[x] = phase[x]
        /\ phase'[e] = IF phase[e] \in {"Failed", "Completed"} THEN phase[e]
                       ELSE IF err = "canceled" THEN "Stopped" ELSE "Failed"
    BY <1>1, MarkFailedTypes
  <1>3. CASE pipeErr[e] = None
    <2>1. pipeErr' = [pipeErr EXCEPT ![e] = err]
      BY <1>3 DEF PipeReturns
    <2> QED  BY <1>1, <1>2, <1>3, <2>1 DEF FilePlace, Errors
  <1>4. CASE pipeErr[e] # None
    <2>1. pipeErr' = pipeErr
      BY <1>4 DEF PipeReturns
    <2> QED  BY <1>1, <1>2, <1>4, <2>1 DEF FilePlace, Errors
  <1> QED  BY <1>3, <1>4

LEMMA PipeReports ==
  ASSUME IInv, BInv, NEW e \in Elems, SenderStep(e) \/ SaverStep(e) \/ StreamEnds(e)
  PROVE  BInv' /\ Kept
  <1> TypeOK /\ Walk /\ FilePlace(e) /\ Accounted(e)
    BY DEF BInv, Files
  <1> epc[e] = "streaming"
    BY DEF FilePlace, SenderStep, SaverStep, SendChunk, ReadChunk, SendEnds, SendFails, StreamSaved,
           StreamSaveFails, StreamEnds
  <1> e \in Current /\ exec = "files"
    BY WorkingIsCurrent
  <1>1. CASE SendChunk(e) \/ ReadChunk(e) \/ SendEnds(e)
    <2>1. PICK p \in {"fetching", "writing", "ok"} : sender' = [sender EXCEPT ![e] = p]
      BY <1>1 DEF SendChunk, ReadChunk, SendEnds
    <2>2. UNCHANGED <<cancelled, taskVars, epc, phase, uploaded, attempt, saver, pipeErr, stored, readVars>>
      BY <1>1 DEF SendChunk, ReadChunk, SendEnds
    <2>3. TypeOK'
      BY <2>1, <2>2 DEF TypeOK, readVars, taskVars
    <2>4. OthersSame(e) /\ Grows /\ Recorded
      BY <2>1, <2>2 DEF OthersSame, Grows, Recorded, readVars, taskVars, TypeOK
    <2>5. FilePlace(e)'
      BY <2>2 DEF FilePlace, readVars
    <2>6. Accounted(e)'
      BY <2>2, WorkingAccounted DEF Accounted, Doomed, taskVars
    <2> QED
      BY <2>2, <2>3, <2>4, <2>5, <2>6, OneFileMoves DEF taskVars
  <1>2. CASE SendFails(e)
    <2>1. PICK err \in Errors : phase' = MarkFailed(phase, {e}, err) /\ PipeReturns(e, err)
      BY <1>2 DEF SendFails
    <2>2. /\ sender' = [sender EXCEPT ![e] = "failed"]
          /\ UNCHANGED <<cancelled, taskVars, epc, uploaded, attempt, saver, stored, readVars>>
      BY <1>2 DEF SendFails
    <2>3. TypeOK'
      BY <2>1, <2>2, PipeFails DEF TypeOK, readVars, taskVars
    <2>4. OthersSame(e) /\ Grows /\ Recorded
      <3>1. \A x \in Elems \ {e} : phase'[x] = phase[x] /\ pipeErr'[x] = pipeErr[x]
        BY <2>1, PipeFails
      <3>2. \A x \in Elems \ {e} : sender'[x] = sender[x]
        BY <2>2 DEF TypeOK
      <3> QED  BY <2>2, <3>1, <3>2 DEF OthersSame, Grows, Recorded, readVars, taskVars
    <2>5. FilePlace(e)'
      BY <2>1, <2>2, PipeFails DEF FilePlace, readVars
    <2>6. Accounted(e)'
      BY <2>1, <2>2, PipeFails, WorkingAccounted
    <2> QED
      BY <2>1, <2>2, <2>3, <2>4, <2>5, <2>6, PipeFails, OneFileMoves DEF taskVars
  <1>3. CASE StreamSaved(e)
    <2>1. /\ saver' = [saver EXCEPT ![e] = "ok"] /\ stored' = stored \union {e}
          /\ UNCHANGED <<cancelled, taskVars, epc, phase, uploaded, attempt, sender, pipeErr, readVars>>
      BY <1>3 DEF StreamSaved
    <2>2. TypeOK'
      BY <2>1 DEF TypeOK, readVars, taskVars
    <2>3. OthersSame(e) /\ Grows /\ Recorded
      BY <2>1 DEF OthersSame, Grows, Recorded, readVars, taskVars, TypeOK
    <2>4. FilePlace(e)'
      BY <2>1 DEF FilePlace, readVars
    <2>5. Accounted(e)'
      BY <2>1, WorkingAccounted DEF Accounted, Doomed, taskVars
    <2> QED
      BY <2>1, <2>2, <2>3, <2>4, <2>5, OneFileMoves DEF taskVars
  <1>4. CASE StreamSaveFails(e)
    <2>1. PICK err \in Errors : phase' = MarkFailed(phase, {e}, err) /\ PipeReturns(e, err)
      BY <1>4 DEF StreamSaveFails, ErrorsUnder, Errors
    <2>2. PICK p \in {"failed", "closed"} : saver' = [saver EXCEPT ![e] = p]
      BY <1>4 DEF StreamSaveFails
    <2>3. /\ stored' \in {stored, stored \union {e}}
          /\ UNCHANGED <<cancelled, taskVars, epc, uploaded, attempt, sender, readVars>>
      BY <1>4 DEF StreamSaveFails
    <2>4. TypeOK'
      <3>1. saver' \in [Elems -> {"off", "active", "ok", "failed", "closed"}]
        BY <2>2 DEF TypeOK
      <3>2. phase' \in [Elems -> Phases] /\ pipeErr' \in [Elems -> Errors \union {None}]
        BY <2>1, PipeFails
      <3> QED  BY <2>3, <3>1, <3>2 DEF TypeOK, readVars, taskVars
    <2>5. OthersSame(e) /\ Grows /\ Recorded
      <3>1. \A x \in Elems \ {e} : phase'[x] = phase[x] /\ pipeErr'[x] = pipeErr[x]
        BY <2>1, PipeFails
      <3>2. \A x \in Elems \ {e} : saver'[x] = saver[x]
        BY <2>2 DEF TypeOK
      <3> QED  BY <2>3, <3>1, <3>2 DEF OthersSame, Grows, Recorded, readVars, taskVars
    <2>6. FilePlace(e)'
      BY <2>1, <2>3, PipeFails DEF FilePlace, readVars
    <2>7. Accounted(e)'
      BY <2>1, <2>3, PipeFails, WorkingAccounted
    <2> QED
      BY <2>1, <2>3, <2>4, <2>5, <2>6, <2>7, PipeFails, OneFileMoves DEF taskVars
  <1>5. CASE StreamEnds(e)
    <2>1. /\ saver[e] \in {"ok", "failed", "closed"} /\ sender[e] \in {"ok", "failed"} /\ Ends(e, pipeErr[e])
          /\ phase' = IF pipeErr[e] = None THEN [phase EXCEPT ![e] = "Completed"] ELSE phase
          /\ UNCHANGED <<cancelled, exec, at, result, report, uploaded, attempt, pipeVars, stored, readVars>>
      BY <1>5 DEF StreamEnds, BothOk
    <2>2. pipeErr[e] \in Errors \union {None} /\ phase \in [Elems -> Phases]
      BY DEF TypeOK
    <2>3. epc' = [epc EXCEPT ![e] = "ended"] /\ groupErr' \in Errors \union {None} /\ Recorded
          /\ (pipeErr[e] = "canceled" => Doomed')
      BY <2>1, <2>2, EndsTypes DEF Ignored, Errors
    <2>4. TypeOK'
      <3>1. phase' \in [Elems -> Phases]
        BY <2>1, <2>2 DEF Phases
      <3> QED  BY <2>1, <2>3, <3>1 DEF TypeOK, pipeVars, readVars
    <2>5. OthersSame(e) /\ Grows
      BY <2>1, <2>2, <2>3 DEF OthersSame, Grows, pipeVars, readVars, TypeOK
    <2>6. FilePlace(e)'
      BY <2>1, <2>3 DEF FilePlace, pipeVars, readVars, TypeOK
    <2>7. Accounted(e)'
      <3>1. epc'[e] = "ended" /\ stored' = stored
        BY <2>1, <2>3 DEF TypeOK
      <3>2. CASE pipeErr[e] = None
        <4>1. e \in stored /\ phase'[e] = "Completed"
          BY <2>1, <2>2, <3>2 DEF IInv, SaverTells
        <4> QED  BY <3>1, <4>1, DoneAccounted
      <3>3. CASE pipeErr[e] = "error"
        <4>1. phase'[e] = "Failed"
          BY <2>1, <3>3 DEF FilePlace
        <4> QED  BY <3>1, <4>1, DoneAccounted
      <3>4. CASE pipeErr[e] = "canceled"
        BY <2>3, <3>1, <3>4, DoneAccounted
      <3> QED  BY <2>2, <3>2, <3>3, <3>4 DEF Errors
    <2>8. phase[e] \in {"Completed", "Failed"} => phase'[e] = phase[e]
      BY <2>1, <2>2 DEF FilePlace
    <2> QED
      BY <2>1, <2>3, <2>4, <2>5, <2>6, <2>7, <2>8, OneFileMoves
  <1> QED  BY <1>1, <1>2, <1>3, <1>4, <1>5 DEF SenderStep, SaverStep

-----------------------------------------------------------------------------
(* A stretch is over with err, its items being ph: what Execute has made sure of before it looks whether to *)
(* go on.  If it does not stop, the files it fetched are stored or a failure of the album shows.             *)
GoesOn(err) == err = None \/ Ignored(err)

StretchOver(err, ph) ==
  /\ exec \in {"files", "album"} /\ \A e \in Current : epc[e] \in {"fetched", "ended"}
  /\ ph \in [Elems -> Phases] /\ err \in Errors \union {None}
  /\ groupErr # None => err = groupErr
  /\ \A e \in Elems : ph[e] # phase[e] => e \in Fetched
  /\ GoesOn(err) =>
       /\ \A e \in Fetched : e \in stored' \/ \E x \in Elems : Key[x] # None /\ ph[x] = "Failed"
       /\ \A e \in Fetched : ph[e] # "Stopped"
  /\ stored \subseteq stored' /\ stored' \subseteq Elems

(* The report will tell of e that it is not stored, if it is not. *)
Told(e, ph) ==
  \/ e \in stored' \union overtaken' \/ ph[e] = "Failed"
  \/ epc[e] = "fetched" /\ \E x \in Elems : Key[x] # None /\ ph[x] = "Failed"

LEMMA FinishItemsTypes ==
  ASSUME NEW ph \in [Elems -> Phases], NEW err \in Errors \union {None}
  PROVE  /\ FinishItems(ph, err) \in [Elems -> Phases]
         /\ err = None => FinishItems(ph, err) = ph
         /\ err # None => \A e \in Elems : FinishItems(ph, err)[e] = IF ph[e] \in {"Completed", "Failed"}
                                                                       THEN ph[e] ELSE "Stopped"
  BY DEF FinishItems, Phases

(* What holds of the files when a stretch is over and Execute goes on. *)
LEMMA PassedOver ==
  ASSUME BInv, NEW err, NEW ph, StretchOver(err, ph), GoesOn(err), UNCHANGED overtaken
  PROVE  /\ groupErr = None
         /\ \A e \in Before \union Current : Told(e, ph)
         /\ \A e \in Elems : ph[e] # "Stopped"
  <1>1. TypeOK /\ Walk /\ Outcome /\ Files
    BY DEF BInv
  <1>2. groupErr = None
    BY <1>1 DEF StretchOver, Outcome, GoesOn
  <1>3. ~Doomed /\ exec # "finished"
    BY <1>2 DEF Doomed, StretchOver
  <1>4. ASSUME NEW e \in Elems, phase[e] \in {"Completed", "Failed"}  PROVE ph[e] = phase[e]
    <2>1. CASE e \in Fetched
      BY <1>1, <1>3, <1>4, <2>1 DEF Files, Accounted, Fetched
    <2> QED  BY <2>1 DEF StretchOver
  <1>5. AlbumFailure => \E x \in Elems : Key[x] # None /\ ph[x] = "Failed"
    BY <1>4 DEF AlbumFailure
  <1>6. Before \subseteq Elems /\ Current \subseteq Elems
    BY <1>1, BeforeFiles, CurrentFiles DEF TypeOK
  <1>7. ASSUME NEW e \in Before \union Current
        PROVE  Told(e, ph)
    <2> USE DEF Told
    <2>1. e \in Elems /\ epc[e] \in {"fetched", "ended"} /\ Accounted(e)
      BY <1>1, <1>6 DEF Walk, StretchOver, Files
    <2>2. CASE epc[e] = "ended"
      BY <1>3, <1>4, <2>1, <2>2 DEF Accounted, StretchOver
    <2>3. CASE epc[e] = "fetched" /\ e \in Current
      BY <2>3 DEF StretchOver, Fetched
    <2>4. CASE epc[e] = "fetched" /\ e \notin Current
      BY <1>3, <1>5, <2>1, <2>4 DEF Accounted, StretchOver
    <2> QED  BY <2>1, <2>2, <2>3, <2>4
  <1>8. ASSUME NEW e \in Elems  PROVE ph[e] # "Stopped"
    <2>1. epc[e] # "streaming"
      BY <1>1 DEF StretchOver, Walk, Ahead
    <2>2. phase[e] # "Stopped"
      BY <1>1, <1>3, <2>1 DEF Files, Accounted
    <2> QED  BY <2>2 DEF StretchOver
  <1> QED  BY <1>2, <1>7, <1>8

LEMMA StretchEnds ==
  ASSUME BInv, NEW err, NEW ph, StretchOver(err, ph), AfterStretch(err, ph),
         UNCHANGED <<cancelled, epc, attempt, pipeVars, readVars>>, uploaded' \in [Elems -> 0..Size]
  PROVE  BInv' /\ Kept
  <1>1. TypeOK /\ Walk /\ Outcome /\ Files /\ ReportHonest
    BY DEF BInv
  <1>2. exec # "finished" /\ report = None /\ result = None
    BY <1>1 DEF StretchOver, Outcome
  <1>3. ASSUME NEW e \in Elems, phase[e] \in {"Completed", "Failed"}  PROVE ph[e] = phase[e]
    <2>1. CASE e \in Fetched
      BY <1>1, <1>2, <1>3, <2>1 DEF Files, Accounted, Fetched
    <2> QED  BY <2>1 DEF StretchOver
  <1>4. ph \in [Elems -> Phases] /\ err \in Errors \union {None}
    BY DEF StretchOver
  <1>5. ASSUME NEW e \in Elems  PROVE epc[e] \in {"waiting", "fetched", "ended"}
    BY <1>1 DEF StretchOver, Walk, Ahead
  <1>6. overtaken' = overtaken
    BY DEF readVars
  <1>7. ASSUME GoesOn(err)
        PROVE  groupErr = None /\ (\A e \in Before \union Current : Told(e, ph)) /\ \A e \in Elems : ph[e] # "Stopped"
    <2>1. groupErr = None
      BY <1>6, <1>7, PassedOver
    <2>2. \A e \in Before \union Current : Told(e, ph)
      BY <1>6, <1>7, PassedOver
    <2>3. \A e \in Elems : ph[e] # "Stopped"
      BY <1>6, <1>7, PassedOver
    <2> QED  BY <2>1, <2>2, <2>3
  <1>8. CASE ~GoesOn(err)
    <2>1. /\ exec' = "finished" /\ phase' = FinishItems(ph, err) /\ report' = Report(FinishItems(ph, err), err)
          /\ result' = err /\ UNCHANGED <<at, groupErr>> /\ err \in Errors
      BY <1>4, <1>8 DEF AfterStretch, GoesOn, Errors
    <2>2. /\ phase' \in [Elems -> Phases]
          /\ \A e \in Elems : phase'[e] = IF ph[e] \in {"Completed", "Failed"} THEN ph[e] ELSE "Stopped"
      BY <1>4, <2>1, FinishItemsTypes DEF Errors
    <2>3. report' \in {"canceled", "failed"}
      BY <2>1 DEF Report, Errors
    <2>4. TypeOK'
      BY <1>1, <2>1, <2>2, <2>3 DEF TypeOK, StretchOver, pipeVars, readVars, Errors
    <2>5. Before' = Before /\ Ahead' = Ahead /\ Current' = Current
      BY <2>1 DEF Before, Ahead, Current, Stretch
    <2>6. Walk'
      BY <1>1, <1>5, <2>1, <2>5 DEF Walk
    <2>7. Outcome'
      BY <1>1, <2>1 DEF Outcome, Errors, Ignored
    <2>8. Doomed'
      BY <2>1 DEF Doomed, Errors
    <2>9. ASSUME NEW e \in Elems  PROVE FilePlace(e)' /\ Accounted(e)'
      <3>1. FilePlace(e) /\ epc'[e] = epc[e] /\ epc[e] \in {"waiting", "fetched", "ended"}
        BY <1>1, <1>5 DEF Files
      <3>2. epc[e] = "waiting" => phase'[e] = "Stopped"
        BY <2>2, <3>1 DEF FilePlace, StretchOver, Fetched
      <3>3. FilePlace(e)'
        BY <3>1, <3>2 DEF FilePlace, pipeVars, readVars
      <3>4. Accounted(e)'
        BY <2>1, <2>8 DEF Accounted
      <3> QED  BY <3>3, <3>4
    <2>10. ReportHonest'
      BY <2>3 DEF ReportHonest
    <2>11. Kept
      BY <1>3, <2>2 DEF Kept
    <2> QED  BY <2>4, <2>6, <2>7, <2>9, <2>10, <2>11 DEF BInv, Files
  <1>9. CASE GoesOn(err) /\ at + Cardinality(Stretch(at)) > Len(Order)
    <2>1. /\ exec' = "finished" /\ phase' = FinishItems(ph, None) /\ report' = Report(FinishItems(ph, None), None)
          /\ result' = "ok" /\ UNCHANGED <<at, groupErr>>
      BY <1>9 DEF AfterStretch, GoesOn
    <2>2. phase' = ph
      BY <1>4, <2>1, FinishItemsTypes
    <2>3. report' = IF \E e \in Elems : ph[e] = "Failed" THEN "some" ELSE "all"
      BY <2>1, <2>2 DEF Report
    <2>4. TypeOK'
      BY <1>1, <1>4, <2>1, <2>2, <2>3 DEF TypeOK, StretchOver, pipeVars, readVars
    <2>5. Before' = Before /\ Ahead' = Ahead /\ Current' = Current
      BY <2>1 DEF Before, Ahead, Current, Stretch
    <2>6. Walk'
      BY <1>1, <1>5, <2>1, <2>5 DEF Walk
    <2>7. groupErr = None
      BY <1>7, <1>9
    <2>8. Outcome'
      BY <2>1, <2>7 DEF Outcome
    <2>9. /\ \A e \in Elems : \/ e \in stored' \union overtaken' \/ ph[e] = "Failed"
                              \/ epc[e] = "fetched" /\ \E x \in Elems : Key[x] # None /\ ph[x] = "Failed"
          /\ \A e \in Elems : ph[e] # "Stopped"
      <3>1. Elems \subseteq Before \union Current
        BY <1>1, <1>9, LastStretch DEF TypeOK, Ahead
      <3>2. \A e \in Elems : Told(e, ph)
        BY <1>7, <1>9, <3>1
      <3> QED  BY <1>7, <1>9, <3>2 DEF Told
    <2>10. ASSUME NEW e \in Elems  PROVE FilePlace(e)' /\ Accounted(e)'
      <3>1. FilePlace(e) /\ epc'[e] = epc[e] /\ epc[e] \in {"waiting", "fetched", "ended"}
        BY <1>1, <1>5 DEF Files
      <3>2. epc[e] = "waiting" => phase'[e] = phase[e]
        BY <2>2, <3>1 DEF StretchOver, Fetched
      <3>3. FilePlace(e)'
        BY <3>1, <3>2 DEF FilePlace, pipeVars, readVars
      <3>4. \/ e \in stored' \union overtaken' \/ phase'[e] = "Failed"
            \/ epc[e] = "fetched" /\ AlbumFailure'
        BY <2>2, <2>9 DEF AlbumFailure
      <3>5. epc[e] = "fetched" => e \notin overtaken'
        BY <1>6, <3>1 DEF FilePlace
      <3>6. epc[e] = "fetched" /\ phase'[e] = "Failed" => AlbumFailure'
        BY <3>1 DEF FilePlace, AlbumFailure
      <3>7. exec' = "finished" /\ phase'[e] # "Stopped"
        BY <2>1, <2>2, <2>9
      <3>8. Accounted(e)'
        BY <3>1, <3>4, <3>5, <3>6, <3>7 DEF Accounted
      <3> QED  BY <3>3, <3>8
    <2>11. ReportHonest'
      BY <2>3, <2>9 DEF ReportHonest
    <2>12. Kept
      BY <1>3, <2>2 DEF Kept
    <2> QED  BY <2>4, <2>6, <2>8, <2>10, <2>11, <2>12 DEF BInv, Files
  <1>10. CASE GoesOn(err) /\ ~(at + Cardinality(Stretch(at)) > Len(Order))
    <2>1. /\ exec' = "files" /\ at' = at + Cardinality(Stretch(at)) /\ groupErr' = None /\ phase' = ph
          /\ UNCHANGED <<result, report>>
      BY <1>10 DEF AfterStretch, GoesOn
    <2>2. /\ at' \in DOMAIN Order
          /\ Before' = Before \union Current
          /\ Current' \intersect (Before \union Current) = {}
      <3>1. at \in DOMAIN Order  BY <1>1 DEF TypeOK
      <3>2. at' <= Len(Order)
        <4>1. Cardinality(Stretch(at)) \in Nat /\ at \in Nat /\ Len(Order) \in Nat
          BY <3>1, PositionsAreNumbers
        <4> QED  BY <1>10, <2>1, <4>1
      <3> QED  BY <2>1, <3>1, <3>2, NextStretch
    <2>3. Ahead' \subseteq Ahead
      BY <2>2 DEF Ahead
    <2>4. TypeOK'
      BY <1>1, <1>4, <2>1, <2>2 DEF TypeOK, StretchOver, pipeVars, readVars
    <2>5. Walk'
      BY <1>1, <2>1, <2>2, <2>3 DEF Walk, StretchOver
    <2>6. Outcome'
      BY <1>2, <2>1 DEF Outcome
    <2>8. ASSUME NEW e \in Elems  PROVE FilePlace(e)' /\ Accounted(e)'
      <3>1. FilePlace(e) /\ epc'[e] = epc[e] /\ epc[e] \in {"waiting", "fetched", "ended"}
        BY <1>1, <1>5 DEF Files
      <3>2. epc[e] = "waiting" => phase'[e] = phase[e]
        BY <2>1, <3>1 DEF StretchOver, Fetched
      <3>3. FilePlace(e)'
        BY <3>1, <3>2 DEF FilePlace, pipeVars, readVars
      <3>4. phase'[e] # "Stopped"
        BY <1>7, <1>10, <2>1
      <3>5. epc[e] # "waiting" => e \in Before \union Current
        BY <1>1 DEF Walk, Ahead
      <3>6. epc[e] # "waiting" => e \notin Current'
        BY <2>2, <3>5
      <3>7. epc[e] # "waiting" => \/ e \in stored' \union overtaken' \/ phase'[e] = "Failed"
                                  \/ epc[e] = "fetched" /\ AlbumFailure'
        <4>1. epc[e] # "waiting" => Told(e, ph)
          BY <1>7, <1>10, <3>5
        <4>2. (\E x \in Elems : Key[x] # None /\ ph[x] = "Failed") => AlbumFailure'
          BY <2>1 DEF AlbumFailure
        <4>3. phase'[e] = ph[e]
          BY <2>1
        <4> QED  BY <4>1, <4>2, <4>3 DEF Told
      <3>8. epc[e] = "fetched" => e \notin overtaken'
        BY <1>6, <3>1 DEF FilePlace
      <3>9. epc[e] = "fetched" /\ phase'[e] = "Failed" => AlbumFailure'
        BY <3>1 DEF FilePlace, AlbumFailure
      <3>10. Accounted(e)'
        BY <3>1, <3>4, <3>6, <3>7, <3>8, <3>9 DEF Accounted
      <3> QED  BY <3>3, <3>10
    <2>9. ReportHonest'
      BY <1>2, <2>1 DEF ReportHonest
    <2>10. Kept
      BY <1>3, <2>1 DEF Kept
    <2> QED  BY <2>4, <2>5, <2>6, <2>8, <2>9, <2>10 DEF BInv, Files
  <1> QED  BY <1>8, <1>9, <1>10

LEMMA MainReports ==
  ASSUME BInv, MainStep
  PROVE  BInv' /\ Kept
  <1> TypeOK /\ Walk /\ Outcome /\ Files /\ ReportHonest
    BY DEF BInv
  <1>0. /\ Current \subseteq Elems /\ phase \in [Elems -> Phases] /\ groupErr \in Errors \union {None}
        /\ stored \subseteq Elems /\ uploaded \in [Elems -> 0..Size]
    BY CurrentFiles DEF TypeOK
  <1>1. CASE Start \/ AlbumSent
    <2>1. UNCHANGED <<cancelled, at, groupErr, result, report, epc, phase, uploaded, attempt, pipeVars, stored, readVars>>
      BY <1>1 DEF Start, AlbumSent
    <2>2. exec \in {"ready", "files"} /\ exec' \in {"files", "album"}
          /\ (exec' = "album" => IsAlbum /\ groupErr = None /\ \A e \in Current : epc[e] \in {"fetched", "ended"})
      BY <1>1 DEF Start, AlbumSent, AllDone
    <2>3. Current' = Current /\ Before' = Before /\ Ahead' = Ahead /\ (IsAlbum' <=> IsAlbum)
      BY <2>1 DEF Current, Before, Ahead, IsAlbum, Stretch
    <2>4. TypeOK'
      BY <2>1, <2>2 DEF TypeOK, pipeVars, readVars
    <2>5. Walk'
      BY <2>1, <2>2, <2>3 DEF Walk
    <2>6. Outcome'
      BY <2>1, <2>2 DEF Outcome, Ignored
    <2>7. ASSUME NEW e \in Elems  PROVE FilePlace(e)' /\ Accounted(e)'
      <3>1. FilePlace(e) /\ Accounted(e)
        BY DEF Files
      <3>2. FilePlace(e)'
        BY <2>1, <3>1 DEF FilePlace, pipeVars, readVars
      <3>3. (Doomed <=> Doomed') /\ (AlbumFailure <=> AlbumFailure')
        BY <2>1, <2>2 DEF Doomed, AlbumFailure
      <3>4. Accounted(e)'
        BY <2>1, <2>2, <2>3, <3>1, <3>3 DEF Accounted, pipeVars, readVars
      <3> QED  BY <3>2, <3>4
    <2>8. ReportHonest'
      BY <2>1 DEF ReportHonest, readVars
    <2>9. Kept
      BY <2>1 DEF Kept
    <2> QED  BY <2>4, <2>5, <2>6, <2>7, <2>8, <2>9 DEF BInv, Files
  <1>2. CASE FilesEnd
    <2>1. /\ exec = "files" /\ (\A e \in Current : epc[e] \in {"fetched", "ended"}) /\ ~IsAlbum
          /\ AfterStretch(groupErr, phase)
          /\ UNCHANGED <<cancelled, epc, uploaded, attempt, pipeVars, stored, readVars>>
      BY <1>2 DEF FilesEnd, AllDone
    <2>2. Fetched = {}
      BY <1>0, <2>1, CurrentFiles DEF Fetched, Files, FilePlace, IsAlbum, TypeOK
    <2>3. StretchOver(groupErr, phase)
      BY <1>0, <2>1, <2>2 DEF StretchOver
    <2> QED  BY <1>0, <2>1, <2>3, StretchEnds
  <1>3. CASE AlbumGivenUp
    <2>1. /\ exec = "files" /\ (\A e \in Current : epc[e] \in {"fetched", "ended"}) /\ IsAlbum
          /\ UNCHANGED <<cancelled, epc, uploaded, attempt, pipeVars, stored, readVars>>
      BY <1>3 DEF AlbumGivenUp, AllDone
    <2>2. CASE groupErr # None /\ AfterStretch(groupErr, phase)
      <3>1. ~GoesOn(groupErr)
        BY <2>2 DEF GoesOn, Outcome
      <3>2. StretchOver(groupErr, phase)
        BY <1>0, <2>1, <3>1 DEF StretchOver
      <3> QED  BY <1>0, <2>1, <2>2, <3>2, StretchEnds
    <2>3. CASE groupErr = None /\ Fetched = {} /\ AfterStretch("error", phase)
      <3>1. StretchOver("error", phase)
        BY <1>0, <2>1, <2>3 DEF StretchOver, Errors
      <3> QED  BY <1>0, <2>1, <2>3, <3>1, StretchEnds
    <2>4. ASSUME groupErr = None, NEW f \in Fetched, AfterStretch("error", MarkFailed(phase, {f}, "error"))
          PROVE  BInv' /\ Kept
      <3> DEFINE ph == MarkFailed(phase, {f}, "error")
      <3>1. f \in Elems /\ Key[f] # None /\ phase[f] \notin {"Completed", "Failed"}
        BY <1>0, <2>1 DEF Fetched, Files, FilePlace, Accounted
      <3>2. ph \in [Elems -> Phases] /\ ph[f] = "Failed" /\ \A x \in Elems \ {f} : ph[x] = phase[x]
        BY <1>0, <3>1 DEF MarkFailed, Phases
      <3>3. \A e \in Fetched : ph[e] # "Stopped"
        BY <1>0, <2>1, <3>2 DEF Fetched, Files, Accounted
      <3> HIDE DEF ph
      <3>4. StretchOver("error", ph)
        BY <1>0, <2>1, <2>4, <3>1, <3>2, <3>3 DEF StretchOver, Errors
      <3> QED  BY <1>0, <2>1, <2>4, <3>4, StretchEnds DEF ph
    <2> QED  BY <1>3, <2>2, <2>3, <2>4 DEF AlbumGivenUp
  <1>4. CASE AlbumSaved
    <2> DEFINE ph == [e \in Elems |-> IF e \in Fetched THEN "Completed" ELSE phase[e]]
    <2>1. /\ exec = "album" /\ stored' = stored \union Fetched /\ AfterStretch(None, ph)
          /\ uploaded' = [e \in Elems |-> IF e \in Fetched THEN Size ELSE uploaded[e]]
          /\ UNCHANGED <<cancelled, epc, attempt, pipeVars, readVars>>
      BY <1>4 DEF AlbumSaved
    <2>2. groupErr = None /\ \A e \in Current : epc[e] \in {"fetched", "ended"}
      BY <2>1 DEF Walk
    <2>3. ph \in [Elems -> Phases] /\ \A e \in Elems : ph[e] = IF e \in Fetched THEN "Completed" ELSE phase[e]
      BY <1>0 DEF Phases
    <2>4. Fetched \subseteq Elems /\ uploaded' \in [Elems -> 0..Size]
      BY <1>0, <2>1 DEF Fetched
    <2> HIDE DEF ph
    <2>5. StretchOver(None, ph)
      BY <1>0, <2>1, <2>2, <2>3, <2>4 DEF StretchOver
    <2> QED  BY <2>1, <2>4, <2>5, StretchEnds
  <1>5. CASE AlbumFails
    <2>1. /\ exec = "album" /\ stored \subseteq stored' /\ stored' \subseteq stored \union Fetched
          /\ UNCHANGED <<cancelled, epc, uploaded, attempt, pipeVars, readVars>>
      BY <1>5 DEF AlbumFails
    <2>2. PICK err \in Errors : AfterStretch(err, MarkFailed(phase, Fetched, err))
      BY <1>5 DEF AlbumFails, ErrorsUnder, Errors
    <2> DEFINE ph == MarkFailed(phase, Fetched, err)
    <2>3. groupErr = None /\ \A e \in Current : epc[e] \in {"fetched", "ended"}
      BY <2>1 DEF Walk
    <2>4. /\ ph \in [Elems -> Phases] /\ \A x \in Elems \ Fetched : ph[x] = phase[x]
          /\ \A x \in Fetched \intersect Elems : ph[x] = IF phase[x] \in {"Failed", "Completed"} THEN phase[x]
                                                        ELSE IF err = "canceled" THEN "Stopped" ELSE "Failed"
      BY <1>0, MarkFailedTypes
    <2>5. Fetched \subseteq Elems /\ stored' \subseteq Elems
      BY <1>0, <2>1 DEF Fetched
    <2>6. ASSUME NEW e \in Fetched, GoesOn(err)  PROVE Key[e] # None /\ ph[e] = "Failed"
      <3>1. err # "canceled"
        BY <2>6 DEF GoesOn, Ignored, Errors
      <3>2. phase[e] # "Completed" /\ Key[e] # None /\ e \in Elems
        BY <2>1, <2>5 DEF Fetched, Files, FilePlace, Accounted
      <3> QED  BY <2>4, <3>1, <3>2
    <2> HIDE DEF ph
    <2>7. StretchOver(err, ph)
      BY <1>0, <2>1, <2>3, <2>4, <2>5, <2>6 DEF StretchOver
    <2> QED  BY <1>0, <2>1, <2>2, <2>7, StretchEnds DEF ph
  <1> QED  BY <1>1, <1>2, <1>3, <1>4, <1>5 DEF MainStep

-----------------------------------------------------------------------------
LEMMA ReportStarts == Init => BInv
  <1> SUFFICES ASSUME Init  PROVE BInv
    OBVIOUS
  <1>1. 1 \in DOMAIN Order
    BY FirstPosition
  <1>2. TypeOK
    <2>1. 0 \in 0..Size /\ 0 \in 0..Retry
      OBVIOUS
    <2>2. /\ epc \in [Elems -> {"waiting", "downloading", "fetched", "trying", "saving", "backoff", "streaming", "ended"}]
          /\ phase \in [Elems -> Phases] /\ uploaded \in [Elems -> 0..Size] /\ attempt \in [Elems -> 0..Retry]
      BY <2>1 DEF Init, Phases
    <2>3. /\ saver \in [Elems -> {"off", "active", "ok", "failed", "closed"}]
          /\ sender \in [Elems -> {"off", "fetching", "writing", "ok", "failed"}]
          /\ pipeErr \in [Elems -> Errors \union {None}]
      BY DEF Init
    <2> QED  BY <1>1, <2>2, <2>3 DEF Init, TypeOK
  <1>3. Before = {}
    BY DEF Init, Before
  <1>4. Walk
    BY <1>3 DEF Init, Walk, Ahead
  <1>5. Outcome
    BY DEF Init, Outcome
  <1>6. Files
    BY DEF Init, Files, FilePlace, Accounted
  <1>7. ReportHonest
    BY DEF Init, ReportHonest
  <1> QED  BY <1>2, <1>4, <1>5, <1>6, <1>7 DEF BInv

LEMMA Unmoved ==
  ASSUME BInv, UNCHANGED <<taskVars, epc, phase, uploaded, attempt, pipeVars, stored, readVars>>, cancelled' \in BOOLEAN
  PROVE  BInv' /\ Kept
  <1>1. Current' = Current /\ Before' = Before /\ Ahead' = Ahead /\ (IsAlbum' <=> IsAlbum)
    BY DEF Current, Before, Ahead, IsAlbum, Stretch, taskVars
  <1>2. TypeOK' /\ Outcome' /\ ReportHonest'
    BY DEF BInv, TypeOK, Outcome, ReportHonest, Ignored, taskVars, pipeVars, readVars
  <1>3. Walk'
    BY <1>1 DEF BInv, Walk, taskVars
  <1>4. (Doomed <=> Doomed') /\ (AlbumFailure <=> AlbumFailure')
    BY DEF Doomed, AlbumFailure, taskVars
  <1>5. Files'
    BY <1>1, <1>4 DEF BInv, Files, FilePlace, Accounted, taskVars, pipeVars, readVars
  <1>6. Kept
    BY DEF Kept
  <1> QED  BY <1>2, <1>3, <1>5, <1>6 DEF BInv

LEMMA StepReports == IInv /\ BInv /\ [Next]_vars => BInv' /\ Kept
  <1> SUFFICES ASSUME IInv, BInv, [Next]_vars  PROVE BInv' /\ Kept
    OBVIOUS
  <1>1. CASE MainStep
    BY <1>1, MainReports
  <1>2. CASE Cancel \/ UNCHANGED vars
    BY <1>2, Unmoved DEF Cancel, vars, BInv, TypeOK
  <1>3. CASE \E e \in Elems : MarkProcessing(e) \/ CachedStep(e) \/ LateRead(e) \/ AlbumProgress(e)
    BY <1>3, CachedReports, ReadsReport
  <1>4. CASE \E e \in Elems : SenderStep(e) \/ SaverStep(e) \/ StreamEnds(e)
    BY <1>4, PipeReports
  <1> QED  BY <1>1, <1>2, <1>3, <1>4 DEF Next

LEMMA ReportFollows == BInv => ReportInv
  <1> SUFFICES ASSUME BInv, result = "ok", NEW e \in Elems, phase[e] = "Stopped"  PROVE FALSE
    BY DEF BInv, ReportInv, StoppedMeansCanceled
  <1>1. exec = "finished" /\ ~Doomed
    BY DEF BInv, Outcome, Doomed
  <1>2. epc[e] # "streaming"
    BY <1>1 DEF BInv, Walk
  <1> QED  BY <1>1, <1>2 DEF BInv, Files, Accounted

(* The chat is told that all files are done only when they are stored, a late read apart, and a task that    *)
(* ends well leaves no file stopped: for every order of albums, cached and streamed files.                  *)
THEOREM ReportTellsTruth == Spec => []ReportInv
  <1>1. Init => IInv /\ BInv
    BY BatchStarts, ReportStarts
  <1>2. (IInv /\ BInv) /\ [Next]_vars => (IInv /\ BInv)'
    BY BatchPreserves, StepReports
  <1>3. IInv /\ BInv => ReportInv
    BY ReportFollows
  <1> QED  BY <1>1, <1>2, <1>3, PTL DEF Spec

(* A file shown as completed or failed is shown so from then on, unless a late read of it is reported.      *)
THEOREM VerdictsStay == Spec => VerdictFinal
  <1>1. Init => IInv /\ BInv
    BY BatchStarts, ReportStarts
  <1>2. (IInv /\ BInv) /\ [Next]_vars => (IInv /\ BInv)'
    BY BatchPreserves, StepReports
  <1>3. (IInv /\ BInv) /\ [Next]_vars =>
          [\A e \in Elems : phase[e] \in {"Completed", "Failed"} => phase'[e] = phase[e] \/ e \in overtaken']_vars
    BY StepReports DEF Kept
  <1> QED  BY <1>1, <1>2, <1>3, PTL DEF Spec, VerdictFinal
=============================================================================
