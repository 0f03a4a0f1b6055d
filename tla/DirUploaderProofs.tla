--------------------------- MODULE DirUploaderProofs ---------------------------
(***************************************************************************)
(* A file in flight has one owner, for all numbers of files, workers and   *)
(* submitters: a submitter at its send, a place in the channel, or a       *)
(* worker.  Counting the three sets of OneOwnerInFlight is no form to      *)
(* reason in, so the invariant says the same with quantifiers: owners of   *)
(* one file are equal, and a file is absent from the map exactly when it   *)
(* has none.                                                               *)
(***************************************************************************)
EXTENDS DirUploader, FiniteSetTheorems, TLAPS

USE UploaderAssumption DEF UploaderAssumption, Absent, Clean, Dirty

QueueTypes ==
  /\ jobs \in Seq(Paths) /\ Len(jobs) <= QueueSize
  /\ inflight \in [Paths -> {Absent, Clean, Dirty}]
  /\ spc \in [Submitters -> {"idle", "called", "sending"}] /\ sjob \in [Submitters -> Paths \union {NoPath}]
  /\ wpc \in [Uploaders -> {"idle", "trying", "saving", "tried", "requeueing", "returned"}]
  /\ wjob \in [Uploaders -> Paths \union {NoPath}]

(* A goroutine has a file as long as it is at work on one. *)
HandsFull ==
  /\ \A p \in Submitters : spc[p] # "idle" => sjob[p] \in Paths
  /\ \A w \in Uploaders : wpc[w] \in {"idle", "returned"} <=> wjob[w] = NoPath

InChannel(f) == \E i \in DOMAIN jobs : jobs[i] = f
Sending(p, f) == spc[p] = "sending" /\ sjob[p] = f

OwnersDiffer ==
  /\ \A i, j \in DOMAIN jobs : jobs[i] = jobs[j] => i = j
  /\ \A f \in Paths, p, q \in Submitters : Sending(p, f) /\ Sending(q, f) => p = q
  /\ \A f \in Paths, v, w \in Uploaders : wjob[v] = f /\ wjob[w] = f => v = w
  /\ \A f \in Paths, p \in Submitters : Sending(p, f) => ~InChannel(f) /\ \A w \in Uploaders : wjob[w] # f
  /\ \A f \in Paths, w \in Uploaders : wjob[w] = f => ~InChannel(f)

AbsentUnowned ==
  \A f \in Paths : inflight[f] = Absent <=>
    ~InChannel(f) /\ (\A p \in Submitters : ~Sending(p, f)) /\ (\A w \in Uploaders : wjob[w] # f)

OInv == QueueTypes /\ HandsFull /\ OwnersDiffer /\ AbsentUnowned

ownVars == <<jobs, inflight, spc, sjob, wjob>>

LEMMA OwnersStart == UploaderInit => OInv
  <1> SUFFICES ASSUME UploaderInit PROVE OInv
    OBVIOUS
  <1>1. QueueTypes
    <2>1. jobs \in Seq(Paths) /\ Len(jobs) <= QueueSize  BY DEF UploaderInit
    <2> QED  BY <2>1 DEF UploaderInit, QueueTypes
  <1>2. DOMAIN jobs = {}  BY DEF UploaderInit
  <1>3. HandsFull  BY DEF UploaderInit, HandsFull
  <1>4. \A f \in Paths : ~InChannel(f) /\ (\A p \in Submitters : ~Sending(p, f)) /\ (\A w \in Uploaders : wjob[w] # f)
    BY <1>2 DEF UploaderInit, InChannel, Sending
  <1>5. OwnersDiffer  BY <1>2, <1>4 DEF OwnersDiffer
  <1>6. AbsentUnowned  BY <1>4 DEF UploaderInit, AbsentUnowned
  <1> QED  BY <1>1, <1>3, <1>5, <1>6 DEF OInv

-----------------------------------------------------------------------------
(* Kinds of steps. *)

(* Nobody's ownership changes. *)
LEMMA OwnersKept ==
  ASSUME OInv, QueueTypes', HandsFull', UNCHANGED <<jobs, wjob>>,
         \A f \in Paths : inflight'[f] = Absent <=> inflight[f] = Absent,
         \A p \in Submitters, f \in Paths : Sending(p, f)' <=> Sending(p, f)
  PROVE  OInv'
  <1>1. \A f \in Paths : InChannel(f)' <=> InChannel(f)  BY DEF InChannel
  <1>2. OwnersDiffer'  BY <1>1 DEF OInv, OwnersDiffer
  <1>3. AbsentUnowned'  BY <1>1 DEF OInv, AbsentUnowned
  <1> QED  BY <1>2, <1>3 DEF OInv

(* One file goes from a submitter or a worker to the channel. *)
LEMMA Appending ==
  ASSUME OInv, NEW f \in Paths, jobs' = Append(jobs, f), QueueTypes', HandsFull', UNCHANGED inflight,
         ~InChannel(f), inflight[f] # Absent,
         \A p \in Submitters : ~Sending(p, f)', \A w \in Uploaders : wjob'[w] # f,
         \A p \in Submitters, g \in Paths : g # f => (Sending(p, g)' <=> Sending(p, g)),
         \A w \in Uploaders, g \in Paths : g # f => (wjob'[w] = g <=> wjob[w] = g)
  PROVE  OInv'
  <1>0. jobs \in Seq(Paths)  BY DEF OInv, QueueTypes
  <1> DEFINE n == Len(jobs)
  <1>len. /\ n \in Nat /\ DOMAIN jobs = 1 .. n /\ DOMAIN jobs' = 1 .. n + 1
        /\ jobs'[n + 1] = f /\ \A i \in 1 .. n : jobs'[i] = jobs[i]
    BY <1>0
  <1> HIDE DEF n
  <1>1. \A g \in Paths : InChannel(g)' <=> (InChannel(g) \/ g = f)
    <2> TAKE g \in Paths
    <2>1. ASSUME InChannel(g)' PROVE InChannel(g) \/ g = f
      <3>1. PICK i \in 1 .. n + 1 : jobs'[i] = g  BY <1>len, <2>1 DEF InChannel
      <3>2. i \in 1 .. n \/ i = n + 1  BY <1>len
      <3> QED  BY <1>len, <3>1, <3>2 DEF InChannel
    <2>2. ASSUME InChannel(g) \/ g = f PROVE InChannel(g)'
      <3>1. CASE g = f
        <4>1. n + 1 \in DOMAIN jobs'  BY <1>len
        <4> QED  BY <1>len, <3>1, <4>1 DEF InChannel
      <3>2. CASE InChannel(g)
        <4>1. PICK i \in 1 .. n : jobs[i] = g  BY <1>len, <3>2 DEF InChannel
        <4>2. i \in DOMAIN jobs' /\ jobs'[i] = g  BY <1>len, <4>1
        <4> QED  BY <4>2 DEF InChannel
      <3> QED  BY <2>2, <3>1, <3>2
    <2> QED  BY <2>1, <2>2
  <1>2. ASSUME NEW i \in DOMAIN jobs', NEW j \in DOMAIN jobs', jobs'[i] = jobs'[j] PROVE i = j
    <2>1. (i \in 1 .. n \/ i = n + 1) /\ (j \in 1 .. n \/ j = n + 1)  BY <1>len
    <2>2. \A k \in 1 .. n : jobs[k] # f  BY <1>len DEF InChannel
    <2>3. \A k, l \in 1 .. n : jobs[k] = jobs[l] => k = l  BY <1>len DEF OInv, OwnersDiffer
    <2> QED  BY <1>len, <1>2, <2>1, <2>2, <2>3
  <1>3. OwnersDiffer'  BY <1>1, <1>2 DEF OInv, OwnersDiffer
  <1>4. AbsentUnowned'  BY <1>1 DEF OInv, AbsentUnowned
  <1> QED  BY <1>3, <1>4 DEF OInv

(* One file is let go by the only one who has it. *)
LEMMA LettingGo ==
  ASSUME OInv, NEW f \in Paths, inflight' = [inflight EXCEPT ![f] = Absent], UNCHANGED jobs, QueueTypes', HandsFull',
         ~InChannel(f),
         \A p \in Submitters : ~Sending(p, f)', \A w \in Uploaders : wjob'[w] # f,
         \A p \in Submitters, g \in Paths : g # f => (Sending(p, g)' <=> Sending(p, g)),
         \A w \in Uploaders, g \in Paths : g # f => (wjob'[w] = g <=> wjob[w] = g)
  PROVE  OInv'
  <1>1. \A g \in Paths : InChannel(g)' <=> InChannel(g)  BY DEF InChannel
  <1>2. OwnersDiffer'  BY <1>1 DEF OInv, OwnersDiffer
  <1>3. \A g \in Paths : inflight'[g] = Absent <=> (g = f \/ inflight[g] = Absent)  BY DEF OInv, QueueTypes
  <1>4. AbsentUnowned'  BY <1>1, <1>3 DEF OInv, AbsentUnowned
  <1> QED  BY <1>2, <1>4 DEF OInv

-----------------------------------------------------------------------------
(* Submit. *)

LEMMA SubmitKeeps == \A p \in Submitters : OInv /\ Submit(p) => OInv'
  <1> TAKE p \in Submitters
  <1> SUFFICES ASSUME OInv, Submit(p), NEW f, sjob[p] = f PROVE OInv'
    OBVIOUS
  <1>1. QueueTypes /\ (spc[p] # "idle" => f \in Paths)  BY DEF OInv, HandsFull
  <1>2. CASE SubmitMarks(p)
    <2>1. QueueTypes' /\ HandsFull'  BY <1>1, <1>2 DEF SubmitMarks, Marked, workerVars, QueueTypes, OInv, HandsFull
    <2>2. \A g \in Paths : inflight'[g] = Absent <=> inflight[g] = Absent
      BY <1>1, <1>2 DEF SubmitMarks, Marked, QueueTypes
    <2>3. \A q \in Submitters, g \in Paths : Sending(q, g)' <=> Sending(q, g)
      BY <1>1, <1>2 DEF SubmitMarks, QueueTypes, Sending
    <2> QED  BY <1>2, <2>1, <2>2, <2>3, OwnersKept DEF SubmitMarks, workerVars
  <1>3. CASE SubmitEnters(p)
    <2>1. f \in Paths /\ inflight[f] = Absent /\ inflight' = [inflight EXCEPT ![f] = Clean]
          /\ spc' = [spc EXCEPT ![p] = "sending"] /\ UNCHANGED <<sjob, jobs, wjob, wpc>>
      BY <1>1, <1>3 DEF SubmitEnters, workerVars
    <2>2. QueueTypes' /\ HandsFull'  BY <1>1, <2>1 DEF QueueTypes, OInv, HandsFull
    <2>3. \A q \in Submitters, g \in Paths : Sending(q, g)' <=> (Sending(q, g) \/ (q = p /\ g = f))
      BY <1>1, <1>3, <2>1 DEF SubmitEnters, Sending, QueueTypes
    <2>4. \A g \in Paths : InChannel(g)' <=> InChannel(g)  BY <2>1 DEF InChannel
    <2>5. ~InChannel(f) /\ (\A q \in Submitters : ~Sending(q, f)) /\ (\A w \in Uploaders : wjob[w] # f)
      BY <2>1 DEF OInv, AbsentUnowned
    <2>6. OwnersDiffer'
      BY <2>1, <2>3, <2>4, <2>5 DEF OInv, OwnersDiffer
    <2>7. \A g \in Paths : inflight'[g] = Absent <=> (g # f /\ inflight[g] = Absent)  BY <1>1, <2>1 DEF QueueTypes
    <2>8. AbsentUnowned'
      BY <2>1, <2>3, <2>4, <2>7 DEF OInv, AbsentUnowned
    <2> QED  BY <2>2, <2>6, <2>8 DEF OInv
  <1>4. ASSUME spc[p] = "sending", spc' = [spc EXCEPT ![p] = "idle"], sjob' = [sjob EXCEPT ![p] = NoPath]
        PROVE  /\ f \in Paths /\ ~InChannel(f) /\ \A w \in Uploaders : wjob[w] # f
               /\ inflight[f] # Absent
               /\ \A q \in Submitters : ~Sending(q, f)'
               /\ \A q \in Submitters, g \in Paths : g # f => (Sending(q, g)' <=> Sending(q, g))
               /\ \A q \in Submitters : spc'[q] # "idle" => sjob'[q] \in Paths
    <2>1. Sending(p, f) /\ f \in Paths  BY <1>1, <1>4 DEF Sending
    <2>2. ~InChannel(f) /\ \A w \in Uploaders : wjob[w] # f  BY <2>1 DEF OInv, OwnersDiffer
    <2>3. inflight[f] # Absent  BY <2>1 DEF OInv, AbsentUnowned
    <2>4. \A q \in Submitters : Sending(q, f) => q = p  BY <2>1 DEF OInv, OwnersDiffer
    <2>5. \A q \in Submitters, g \in Paths : Sending(q, g)' <=> (Sending(q, g) /\ q # p)
      BY <1>1, <1>4 DEF Sending, QueueTypes
    <2>6. \A q \in Submitters, g \in Paths : g # f => (Sending(q, g)' <=> Sending(q, g))
      BY <2>5 DEF Sending
    <2>7. \A q \in Submitters : spc'[q] # "idle" => sjob'[q] \in Paths
      BY <1>1, <1>4 DEF OInv, HandsFull, QueueTypes
    <2> QED  BY <2>1, <2>2, <2>3, <2>4, <2>5, <2>6, <2>7
  <1>5. CASE SubmitSends(p)
    <2>1. CASE closed
      BY <1>5, <2>1, OwnersKept DEF SubmitSends, workerVars, OInv, QueueTypes, HandsFull, Sending
    <2>2. CASE ~closed
      <3>1. /\ spc[p] = "sending" /\ spc' = [spc EXCEPT ![p] = "idle"] /\ sjob' = [sjob EXCEPT ![p] = NoPath]
            /\ jobs' = Append(jobs, f) /\ Len(jobs) < QueueSize /\ UNCHANGED <<inflight, wjob, wpc>>
        BY <1>5, <2>2 DEF SubmitSends, workerVars
      <3>2. QueueTypes'
        <4>1. f \in Paths  BY <1>1, <3>1
        <4>2. jobs' \in Seq(Paths)  BY <1>1, <3>1, <4>1 DEF QueueTypes
        <4>3. Len(jobs') <= QueueSize  BY <1>1, <3>1, <4>1 DEF QueueTypes
        <4> QED  BY <1>1, <3>1, <4>2, <4>3 DEF QueueTypes
      <3>3. HandsFull'  BY <1>4, <3>1 DEF OInv, HandsFull
      <3> QED  BY <1>4, <3>1, <3>2, <3>3, Appending
    <2> QED  BY <2>1, <2>2
  <1>6. CASE SubmitGivesUp(p)
    <2>1. /\ spc[p] = "sending" /\ spc' = [spc EXCEPT ![p] = "idle"] /\ sjob' = [sjob EXCEPT ![p] = NoPath]
          /\ inflight' = [inflight EXCEPT ![f] = Absent] /\ UNCHANGED <<jobs, wjob, wpc>>
      BY <1>6 DEF SubmitGivesUp, workerVars
    <2>2. QueueTypes' /\ HandsFull'  BY <1>1, <1>4, <2>1 DEF OInv, QueueTypes, HandsFull
    <2> QED  BY <1>4, <2>1, <2>2, LettingGo
  <1> QED  BY <1>2, <1>3, <1>5, <1>6 DEF Submit

-----------------------------------------------------------------------------
(* The workers. *)

(* A worker lets its file go, or hands it over. *)
LEMMA HandingOver ==
  ASSUME OInv, NEW w \in Uploaders, NEW f \in Paths, wjob[w] = f,
         wjob' = [wjob EXCEPT ![w] = NoPath], wpc' = [wpc EXCEPT ![w] = "idle"], UNCHANGED <<spc, sjob>>
  PROVE  /\ ~InChannel(f) /\ inflight[f] # Absent
         /\ \A p \in Submitters : ~Sending(p, f)'
         /\ \A v \in Uploaders : wjob'[v] # f
         /\ \A p \in Submitters, g \in Paths : Sending(p, g)' <=> Sending(p, g)
         /\ \A v \in Uploaders, g \in Paths : g # f => (wjob'[v] = g <=> wjob[v] = g)
         /\ HandsFull'
         /\ wjob' \in [Uploaders -> Paths \union {NoPath}]
         /\ wpc' \in [Uploaders -> {"idle", "trying", "saving", "tried", "requeueing", "returned"}]
  <1>1. QueueTypes  BY DEF OInv
  <1>2. ~InChannel(f)  BY DEF OInv, OwnersDiffer
  <1>3. inflight[f] # Absent  BY DEF OInv, AbsentUnowned
  <1>4. \A p \in Submitters : ~Sending(p, f)  BY DEF OInv, OwnersDiffer
  <1>5. \A p \in Submitters, g \in Paths : Sending(p, g)' <=> Sending(p, g)  BY DEF Sending
  <1>6. \A v \in Uploaders : wjob[v] = f => v = w  BY DEF OInv, OwnersDiffer
  <1>7. \A v \in Uploaders : wjob'[v] = IF v = w THEN NoPath ELSE wjob[v]  BY <1>1 DEF QueueTypes
  <1>8. HandsFull'  BY <1>1 DEF OInv, QueueTypes, HandsFull
  <1>9. /\ wjob' \in [Uploaders -> Paths \union {NoPath}]
        /\ wpc' \in [Uploaders -> {"idle", "trying", "saving", "tried", "requeueing", "returned"}]
    BY <1>1 DEF QueueTypes
  <1> QED  BY <1>2, <1>3, <1>4, <1>5, <1>6, <1>7, <1>8, <1>9

LEMMA TakeKeeps == \A w \in Uploaders : OInv /\ TakeJob(w) => OInv'
  <1> TAKE w \in Uploaders
  <1> SUFFICES ASSUME OInv, TakeJob(w), NEW f, f = Head(jobs) PROVE OInv'
    OBVIOUS
  <1>1. QueueTypes  BY DEF OInv
  <1>2. /\ wpc[w] = "idle" /\ jobs # <<>> /\ jobs' = Tail(jobs) /\ wjob' = [wjob EXCEPT ![w] = f]
        /\ wpc' = [wpc EXCEPT ![w] = "trying"] /\ UNCHANGED <<inflight, spc, sjob>>
    BY DEF TakeJob, submitVars
  <1> DEFINE n == Len(jobs)
  <1>3. /\ n \in Nat \ {0} /\ DOMAIN jobs = 1 .. n /\ DOMAIN jobs' = 1 .. n - 1 /\ f = jobs[1] /\ f \in Paths
        /\ \A i \in 1 .. n - 1 : jobs'[i] = jobs[i + 1]
    BY <1>1, <1>2 DEF QueueTypes
  <1>4. jobs' \in Seq(Paths) /\ Len(jobs') <= QueueSize  BY <1>1, <1>2 DEF QueueTypes
  <1> HIDE DEF n
  <1>5. QueueTypes' /\ HandsFull'  BY <1>1, <1>2, <1>3, <1>4 DEF OInv, QueueTypes, HandsFull
  <1>6. \A i, j \in 1 .. n : jobs[i] = jobs[j] => i = j  BY <1>3 DEF OInv, OwnersDiffer
  <1>7. ASSUME NEW g \in Paths PROVE InChannel(g)' <=> InChannel(g) /\ g # f
    <2>1. ASSUME InChannel(g)' PROVE InChannel(g) /\ g # f
      <3>1. PICK i \in 1 .. n - 1 : jobs'[i] = g  BY <1>3, <2>1 DEF InChannel
      <3>2. i + 1 \in 1 .. n /\ 1 \in 1 .. n /\ i + 1 # 1 /\ jobs[i + 1] = g  BY <1>3, <3>1
      <3> QED  BY <1>3, <1>6, <3>2 DEF InChannel
    <2>2. ASSUME InChannel(g), g # f PROVE InChannel(g)'
      <3>1. PICK i \in 1 .. n : jobs[i] = g  BY <1>3, <2>2 DEF InChannel
      <3>2. i # 1  BY <1>3, <2>2, <3>1
      <3>3. i - 1 \in 1 .. n - 1 /\ (i - 1) + 1 = i  BY <1>3, <3>2
      <3>4. jobs'[i - 1] = g  BY <1>3, <3>1, <3>3
      <3> QED  BY <1>3, <3>3, <3>4 DEF InChannel
    <2> QED  BY <2>1, <2>2
  <1>8. InChannel(f)
    <2>1. 1 \in DOMAIN jobs  BY <1>3
    <2> QED  BY <1>3, <2>1 DEF InChannel
  <1>9. \A i, j \in DOMAIN jobs' : jobs'[i] = jobs'[j] => i = j
    <2>1. ASSUME NEW i \in 1 .. n - 1, NEW j \in 1 .. n - 1, jobs'[i] = jobs'[j] PROVE i = j
      <3>1. i + 1 \in 1 .. n /\ j + 1 \in 1 .. n /\ jobs[i + 1] = jobs[j + 1]  BY <1>3, <2>1
      <3>2. i + 1 = j + 1  BY <1>6, <3>1
      <3> QED  BY <1>3, <3>2
    <2> QED  BY <1>3, <2>1
  <1>10. \A v \in Uploaders : wjob'[v] = IF v = w THEN f ELSE wjob[v]  BY <1>1, <1>2 DEF QueueTypes
  <1>11. wjob[w] = NoPath  BY <1>2 DEF OInv, HandsFull
  <1>12. \A p \in Submitters, g \in Paths : Sending(p, g)' <=> Sending(p, g)  BY <1>2 DEF Sending
  <1>13. OwnersDiffer'
    BY <1>3, <1>7, <1>8, <1>9, <1>10, <1>12 DEF OInv, OwnersDiffer
  <1>14. AbsentUnowned'
    BY <1>2, <1>3, <1>7, <1>8, <1>10, <1>11, <1>12 DEF OInv, AbsentUnowned
  <1> QED  BY <1>5, <1>13, <1>14 DEF OInv

LEMMA WorkKeeps == \A w \in Uploaders : OInv /\ (WorkerReturns(w) \/ Process(w)) => OInv'
  <1> TAKE w \in Uploaders
  <1> SUFFICES ASSUME OInv, WorkerReturns(w) \/ Process(w), NEW f, wjob[w] = f PROVE OInv'
    OBVIOUS
  <1>1. QueueTypes /\ (wpc[w] \notin {"idle", "returned"} => f \in Paths)
    BY DEF OInv, HandsFull, QueueTypes
  <1>2. ASSUME UNCHANGED <<jobs, wjob, inflight, spc, sjob>>,
               NEW pc \in {"trying", "saving", "tried", "requeueing"}, wpc' = [wpc EXCEPT ![w] = pc],
               wpc[w] \notin {"idle", "returned"}
        PROVE  OInv'
    <2>1. QueueTypes' /\ HandsFull'  BY <1>1, <1>2 DEF OInv, QueueTypes, HandsFull
    <2> QED  BY <1>2, <2>1, OwnersKept DEF Sending
  <1>3. CASE WorkerReturns(w)
    <2>1. QueueTypes' /\ HandsFull'
      BY <1>1, <1>3 DEF WorkerReturns, queueVars, submitVars, OInv, QueueTypes, HandsFull
    <2> QED  BY <1>3, <2>1, OwnersKept DEF WorkerReturns, queueVars, submitVars, Sending
  <1>4. CASE UploadStep(w)
    <2>1. UNCHANGED <<jobs, wjob, inflight, spc, sjob>> /\ wpc[w] \in {"trying", "saving"}
      BY <1>4 DEF UploadStep, TryCancelled, Open, OpenFails, TryFails, Save, StoreFails, queueVars, submitVars
    <2>2. \E pc \in {"trying", "saving", "tried"} : wpc' = [wpc EXCEPT ![w] = pc]
      BY <1>4 DEF UploadStep, TryCancelled, Open, OpenFails, TryFails, Save, StoreFails
    <2> QED  BY <1>2, <2>1, <2>2
  <1>5. ASSUME wjob' = [wjob EXCEPT ![w] = NoPath], wpc' = [wpc EXCEPT ![w] = "idle"], UNCHANGED <<spc, sjob, jobs>>,
               wpc[w] \in {"tried", "requeueing"}, inflight' = [inflight EXCEPT ![f] = Absent]
        PROVE  OInv'
    <2>1. f \in Paths  BY <1>1, <1>5
    <2>2. /\ ~InChannel(f) /\ \A p \in Submitters : ~Sending(p, f)'
          /\ \A v \in Uploaders : wjob'[v] # f
          /\ \A p \in Submitters, g \in Paths : Sending(p, g)' <=> Sending(p, g)
          /\ \A v \in Uploaders, g \in Paths : g # f => (wjob'[v] = g <=> wjob[v] = g)
          /\ HandsFull'
          /\ wjob' \in [Uploaders -> Paths \union {NoPath}]
          /\ wpc' \in [Uploaders -> {"idle", "trying", "saving", "tried", "requeueing", "returned"}]
      BY <1>5, <2>1, HandingOver
    <2>3. QueueTypes'  BY <1>1, <1>5, <2>1, <2>2 DEF QueueTypes
    <2> QED  BY <1>5, <2>1, <2>2, <2>3, LettingGo
  <1>6. CASE LetGo(w)
    BY <1>5, <1>6 DEF LetGo, submitVars
  <1>7. CASE Settle(w)
    <2>1. CASE NeedReupload(f)
      <3>1. /\ wpc[w] = "tried" /\ wpc' = [wpc EXCEPT ![w] = "requeueing"] /\ UNCHANGED <<jobs, wjob, spc, sjob>>
            /\ inflight' = [inflight EXCEPT ![f] = Clean]
        BY <1>7, <2>1 DEF Settle, submitVars
      <3>2. QueueTypes' /\ HandsFull'  BY <1>1, <3>1 DEF OInv, QueueTypes, HandsFull
      <3>3. \A g \in Paths : inflight'[g] = Absent <=> inflight[g] = Absent
        BY <1>1, <2>1, <3>1 DEF NeedReupload, QueueTypes
      <3> QED  BY <3>1, <3>2, <3>3, OwnersKept DEF Sending
    <2>2. CASE ~NeedReupload(f)
      BY <1>5, <1>7, <2>2 DEF Settle, submitVars
    <2> QED  BY <2>1, <2>2
  <1>8. CASE Requeue(w)
    <2>1. CASE closed
      <3>1. UNCHANGED <<jobs, wpc, wjob, inflight, spc, sjob>>  BY <1>8, <2>1 DEF Requeue, submitVars
      <3> QED  BY <3>1, OwnersKept DEF OInv, QueueTypes, HandsFull, Sending
    <2>2. CASE ~closed
      <3>1. /\ wpc[w] = "requeueing" /\ Len(jobs) < QueueSize /\ jobs' = Append(jobs, f)
            /\ wjob' = [wjob EXCEPT ![w] = NoPath] /\ wpc' = [wpc EXCEPT ![w] = "idle"]
            /\ UNCHANGED <<inflight, spc, sjob>>
        BY <1>8, <2>2 DEF Requeue, Requeued, submitVars
      <3>2. f \in Paths  BY <1>1, <3>1
      <3>3. /\ ~InChannel(f) /\ inflight[f] # Absent /\ \A p \in Submitters : ~Sending(p, f)'
            /\ \A v \in Uploaders : wjob'[v] # f
            /\ \A p \in Submitters, g \in Paths : Sending(p, g)' <=> Sending(p, g)
            /\ \A v \in Uploaders, g \in Paths : g # f => (wjob'[v] = g <=> wjob[v] = g)
            /\ HandsFull'
            /\ wjob' \in [Uploaders -> Paths \union {NoPath}]
            /\ wpc' \in [Uploaders -> {"idle", "trying", "saving", "tried", "requeueing", "returned"}]
        BY <3>1, <3>2, HandingOver
      <3>4. jobs' \in Seq(Paths)  BY <1>1, <3>1, <3>2 DEF QueueTypes
      <3>5. Len(jobs') <= QueueSize  BY <1>1, <3>1, <3>2 DEF QueueTypes
      <3>6. QueueTypes'  BY <1>1, <3>1, <3>3, <3>4, <3>5 DEF QueueTypes
      <3> QED  BY <3>1, <3>2, <3>3, <3>6, Appending
    <2> QED  BY <2>1, <2>2
  <1>9. CASE RequeueGivesUp(w)
    BY <1>5, <1>9 DEF RequeueGivesUp, submitVars
  <1> QED  BY <1>3, <1>4, <1>6, <1>7, <1>8, <1>9 DEF Process

-----------------------------------------------------------------------------
(* Contents. *)

ValueTypes ==
  /\ version \in [Paths -> 1 .. MaxChanges]
  /\ saved \in [Paths -> Nat] /\ accepted \in [Paths -> Nat] /\ opened \in [Paths -> Nat]
  /\ \A f \in Paths : saved[f] <= version[f] /\ accepted[f] <= version[f] /\ opened[f] <= version[f]
  /\ attempts \in [Uploaders -> 0 .. Retries] /\ reading \in [Uploaders -> Nat] /\ gaveUp \in [Uploaders -> BOOLEAN]
  /\ \A w \in Uploaders : wpc[w] = "saving" => reading[w] <= version[wjob[w]]

(* While a file is clean, what its worker has read, and then stored, is what was submitted last. *)
CleanIsCurrent ==
  Overwrite /\ ctx = "live" =>
    \A f \in Paths, w \in Uploaders : wjob[w] = f /\ inflight[f] = Clean =>
      /\ wpc[w] = "saving" => reading[w] >= accepted[f]
      /\ wpc[w] = "tried" => f \in broken \/ saved[f] >= accepted[f]

(* Without --overwrite the storage keeps the content it has. *)
Latest == Overwrite => LastContentStored

CInv == OInv /\ ValueTypes /\ CleanIsCurrent /\ Latest

LEMMA ContentsStart == UploaderInit => CInv
  <1> SUFFICES ASSUME UploaderInit PROVE CInv
    OBVIOUS
  <1>1. ValueTypes
    <2>1. 1 \in 1 .. MaxChanges /\ 0 \in 0 .. Retries  OBVIOUS
    <2>2. version \in [Paths -> 1 .. MaxChanges]  BY <2>1 DEF UploaderInit
    <2>3. /\ saved \in [Paths -> Nat] /\ accepted \in [Paths -> Nat] /\ opened \in [Paths -> Nat]
          /\ \A f \in Paths : saved[f] <= version[f] /\ accepted[f] <= version[f] /\ opened[f] <= version[f]
      BY DEF UploaderInit
    <2>4. attempts \in [Uploaders -> 0 .. Retries] /\ reading \in [Uploaders -> Nat]  BY <2>1 DEF UploaderInit
    <2>5. gaveUp \in [Uploaders -> BOOLEAN]  BY DEF UploaderInit
    <2>6. \A w \in Uploaders : wpc[w] # "saving"  BY DEF UploaderInit
    <2> QED  BY <2>2, <2>3, <2>4, <2>5, <2>6 DEF ValueTypes
  <1>2. CleanIsCurrent /\ Latest  BY DEF UploaderInit, CleanIsCurrent, Latest, LastContentStored
  <1> QED  BY <1>1, <1>2, OwnersStart DEF CInv

LEMMA SubmitCurrent == \A p \in Submitters : CInv /\ Submit(p) => CInv'
  <1> TAKE p \in Submitters
  <1> SUFFICES ASSUME CInv, Submit(p), NEW f, sjob[p] = f PROVE CInv'
    OBVIOUS
  <1>1. OInv' /\ QueueTypes /\ ValueTypes /\ f \in Paths
    BY SubmitKeeps DEF CInv, OInv, HandsFull, Submit, SubmitMarks, SubmitEnters, SubmitSends, SubmitGivesUp
  <1>2. UNCHANGED <<version, saved, wpc, wjob, attempts, reading, gaveUp, opened, broken, ctx>>
    BY DEF Submit, SubmitMarks, SubmitEnters, SubmitSends, SubmitGivesUp, workerVars, contentVars, contextVars
  <1>3. accepted' = accepted \/ accepted' = [accepted EXCEPT ![f] = version[f]]
    BY DEF Submit, SubmitMarks, SubmitEnters, SubmitSends, SubmitGivesUp
  <1>4. ValueTypes'  BY <1>1, <1>2, <1>3 DEF ValueTypes
  <1>5. CASE SubmitMarks(p)
    <2>1. /\ inflight[f] # Absent /\ inflight' = [inflight EXCEPT ![f] = Dirty]
          /\ \A g \in Paths : g # f => accepted'[g] = accepted[g]
      BY <1>1, <1>5 DEF SubmitMarks, Marked, ValueTypes
    <2>2. \A g \in Paths : inflight'[g] = (IF g = f THEN Dirty ELSE inflight[g])  BY <1>1, <2>1 DEF QueueTypes
    <2>3. CleanIsCurrent'  BY <1>2, <2>1, <2>2 DEF CInv, CleanIsCurrent
    <2>4. Latest'  BY <1>2, <2>1, <2>2 DEF CInv, Latest, LastContentStored
    <2> QED  BY <1>1, <1>4, <2>3, <2>4 DEF CInv
  <1>6. CASE SubmitEnters(p)
    <2>1. inflight[f] = Absent /\ inflight' = [inflight EXCEPT ![f] = Clean] /\ UNCHANGED accepted
      BY <1>6 DEF SubmitEnters
    <2>2. \A g \in Paths : inflight'[g] = (IF g = f THEN Clean ELSE inflight[g])  BY <1>1, <2>1 DEF QueueTypes
    <2>3. \A w \in Uploaders : wjob[w] # f  BY <1>1, <2>1 DEF CInv, OInv, AbsentUnowned
    <2>4. CleanIsCurrent'  BY <1>2, <2>1, <2>2, <2>3 DEF CInv, CleanIsCurrent
    <2>5. Latest'  BY <1>2, <2>1, <2>2 DEF CInv, Latest, LastContentStored
    <2> QED  BY <1>1, <1>4, <2>4, <2>5 DEF CInv
  <1>7. CASE SubmitSends(p)
    <2>1. /\ spc[p] = "sending" /\ UNCHANGED inflight
          /\ \A g \in Paths : g # f => accepted'[g] = accepted[g]
      BY <1>1, <1>7 DEF SubmitSends, ValueTypes
    <2>2. inflight[f] # Absent /\ \A w \in Uploaders : wjob[w] # f
      BY <1>1, <2>1 DEF CInv, OInv, AbsentUnowned, OwnersDiffer, Sending
    <2>3. CleanIsCurrent'  BY <1>2, <2>1, <2>2 DEF CInv, CleanIsCurrent
    <2>4. Latest'  BY <1>2, <2>1, <2>2 DEF CInv, Latest, LastContentStored
    <2> QED  BY <1>1, <1>4, <2>3, <2>4 DEF CInv
  <1>8. CASE SubmitGivesUp(p)
    <2>1. ctx' # "live"  BY <1>2, <1>8 DEF SubmitGivesUp
    <2> QED  BY <1>1, <1>4, <2>1 DEF CInv, CleanIsCurrent, Latest, LastContentStored
  <1> QED  BY <1>5, <1>6, <1>7, <1>8 DEF Submit

LEMMA TakeCurrent == \A w \in Uploaders : CInv /\ (TakeJob(w) \/ WorkerReturns(w)) => CInv'
  <1> TAKE w \in Uploaders
  <1> SUFFICES ASSUME CInv, TakeJob(w) \/ WorkerReturns(w) PROVE CInv'
    OBVIOUS
  <1>1. OInv' /\ QueueTypes /\ ValueTypes  BY TakeKeeps, WorkKeeps DEF CInv, OInv
  <1>2. UNCHANGED <<version, saved, reading, opened, broken, ctx, inflight, accepted>>
    BY DEF TakeJob, WorkerReturns, contentVars, contextVars, submitVars, queueVars
  <1>3. /\ \A v \in Uploaders : v # w => wpc'[v] = wpc[v] /\ wjob'[v] = wjob[v]
        /\ wpc'[w] \in {"trying", "returned"}
    BY <1>1 DEF TakeJob, WorkerReturns, QueueTypes
  <1>4. attempts' \in [Uploaders -> 0 .. Retries] /\ gaveUp' \in [Uploaders -> BOOLEAN]
    <2>1. 1 \in 0 .. Retries  OBVIOUS
    <2> QED  BY <1>1, <2>1 DEF TakeJob, WorkerReturns, ValueTypes
  <1>5. ValueTypes'  BY <1>1, <1>2, <1>3, <1>4 DEF ValueTypes
  <1>6. CleanIsCurrent'  BY <1>2, <1>3 DEF CInv, CleanIsCurrent
  <1>7. Latest'  BY <1>2 DEF CInv, Latest, LastContentStored
  <1> QED  BY <1>1, <1>5, <1>6, <1>7 DEF CInv

LEMMA UploadCurrent == \A w \in Uploaders : CInv /\ UploadStep(w) => CInv'
  <1> TAKE w \in Uploaders
  <1> SUFFICES ASSUME CInv, UploadStep(w), NEW f, wjob[w] = f PROVE CInv'
    OBVIOUS
  <1>1. OInv' /\ QueueTypes /\ ValueTypes  BY WorkKeeps DEF CInv, OInv, Process
  <1>2. f \in Paths /\ wpc[w] \in {"trying", "saving"}
    BY <1>1 DEF UploadStep, TryCancelled, Open, OpenFails, TryFails, Save, StoreFails, CInv, OInv, HandsFull, QueueTypes
  <1>3. UNCHANGED <<version, wjob, ctx, inflight, accepted>>
    BY DEF UploadStep, TryCancelled, Open, OpenFails, TryFails, Save, StoreFails, contentVars, contextVars, submitVars, queueVars
  <1>4. \A v \in Uploaders : wjob[v] = f => v = w  BY <1>2 DEF CInv, OInv, OwnersDiffer
  <1>5. inflight[f] # Absent  BY <1>2 DEF CInv, OInv, AbsentUnowned
  <1>6. CASE TryCancelled(w)
    <2>1. UNCHANGED <<saved, reading, opened, attempts>> /\ ctx' # "live" /\ wpc' = [wpc EXCEPT ![w] = "tried"]
          /\ gaveUp' = [gaveUp EXCEPT ![w] = TRUE]
      BY <1>6, <1>3 DEF TryCancelled, contentVars
    <2>2. ValueTypes'  BY <1>1, <1>3, <2>1 DEF ValueTypes, QueueTypes
    <2> QED  BY <1>1, <2>1, <2>2 DEF CInv, CleanIsCurrent, Latest, LastContentStored
  <1>7. CASE Open(w)
    <2>1. /\ UNCHANGED <<saved, gaveUp, attempts>> /\ opened' = [opened EXCEPT ![f] = version[f]]
          /\ reading' = [reading EXCEPT ![w] = version[f]] /\ broken' = broken \ {f}
          /\ wpc' = [wpc EXCEPT ![w] = IF ~Overwrite /\ saved[f] # 0 THEN "tried" ELSE "saving"]
      BY <1>7 DEF Open, contentVars
    <2>2. version[f] \in Nat /\ accepted[f] <= version[f]  BY <1>1, <1>2 DEF ValueTypes
    <2>3. \A v \in Uploaders : reading'[v] = IF v = w THEN version[f] ELSE reading[v]  BY <1>1, <2>1 DEF ValueTypes
    <2>4. \A v \in Uploaders : v # w => wpc'[v] = wpc[v]  BY <1>1, <2>1 DEF QueueTypes
    <2>5. /\ opened' \in [Paths -> Nat] /\ reading' \in [Uploaders -> Nat]
          /\ \A g \in Paths : opened'[g] <= version[g]
      BY <1>1, <1>2, <2>1, <2>2 DEF ValueTypes
    <2>6. ValueTypes'  BY <1>1, <1>2, <1>3, <2>1, <2>2, <2>3, <2>4, <2>5 DEF ValueTypes
    <2>7. ASSUME Overwrite PROVE wpc'[w] = "saving"  BY <1>1, <2>1, <2>7 DEF QueueTypes
    <2>8. CleanIsCurrent'
      BY <1>2, <1>3, <1>4, <2>1, <2>2, <2>3, <2>4, <2>7 DEF CInv, CleanIsCurrent
    <2>9. Latest'  BY <1>3, <1>5, <2>1 DEF CInv, Latest, LastContentStored
    <2> QED  BY <1>1, <2>6, <2>8, <2>9 DEF CInv
  <1>8. CASE Save(w)
    <2>1. /\ UNCHANGED <<gaveUp, opened, broken>> /\ saved' = [saved EXCEPT ![f] = reading[w]]
          /\ wpc[w] = "saving" /\ wpc' = [wpc EXCEPT ![w] = "tried"]
          /\ attempts' = [attempts EXCEPT ![w] = 0] /\ reading' = [reading EXCEPT ![w] = 0]
      BY <1>8 DEF Save
    <2>9. /\ attempts' \in [Uploaders -> 0 .. Retries] /\ reading' \in [Uploaders -> Nat]
          /\ \A v \in Uploaders : v # w => reading'[v] = reading[v]
      BY <1>1, <2>1 DEF ValueTypes
    <2>2. reading[w] \in Nat /\ reading[w] <= version[f]  BY <1>1, <2>1 DEF ValueTypes
    <2>3. \A g \in Paths : saved'[g] = IF g = f THEN reading[w] ELSE saved[g]  BY <1>1, <2>1 DEF ValueTypes
    <2>4. \A v \in Uploaders : wpc'[v] = IF v = w THEN "tried" ELSE wpc[v]  BY <1>1, <2>1 DEF QueueTypes
    <2>5. saved' \in [Paths -> Nat]  BY <1>1, <2>1, <2>2 DEF ValueTypes
    <2>6. ValueTypes'  BY <1>1, <1>3, <2>1, <2>2, <2>3, <2>4, <2>5, <2>9 DEF ValueTypes
    <2>7. CleanIsCurrent'
      BY <1>2, <1>3, <1>4, <2>1, <2>3, <2>4, <2>9 DEF CInv, CleanIsCurrent
    <2>8. Latest'  BY <1>3, <1>5, <2>1, <2>3 DEF CInv, Latest, LastContentStored
    <2> QED  BY <1>1, <2>6, <2>7, <2>8 DEF CInv
  <1>9. CASE StoreFails(w) \/ OpenFails(w)
    <2>1. UNCHANGED saved /\ opened' \in {opened, [opened EXCEPT ![f] = version[f]]}
      BY <1>9 DEF StoreFails, OpenFails, contentVars
    <2>6. reading' \in [Uploaders -> Nat] /\ \A v \in Uploaders : v # w => reading'[v] = reading[v]
      BY <1>1, <1>9 DEF StoreFails, OpenFails, ValueTypes
    <2>4. opened' \in [Paths -> Nat] /\ \A g \in Paths : opened'[g] <= version[g]
      <3>1. version[f] \in Nat  BY <1>1, <1>2 DEF ValueTypes
      <3> QED  BY <1>1, <1>2, <2>1, <3>1 DEF ValueTypes
    <2>5. TryFails(w)  BY <1>9 DEF StoreFails, OpenFails
    <2>2. CASE TryLeft(w)
      <3>1. /\ attempts' = [attempts EXCEPT ![w] = @ + 1] /\ wpc' = [wpc EXCEPT ![w] = "trying"]
            /\ UNCHANGED <<gaveUp, broken>> /\ attempts[w] < Retries
        BY <2>2, <2>5 DEF TryFails, TryLeft
      <3>2. attempts[w] + 1 \in 0 .. Retries  BY <1>1, <3>1 DEF ValueTypes
      <3>3. attempts' \in [Uploaders -> 0 .. Retries]  BY <1>1, <3>1, <3>2 DEF ValueTypes
      <3>4. \A v \in Uploaders : wpc'[v] = IF v = w THEN "trying" ELSE wpc[v]  BY <1>1, <3>1 DEF QueueTypes
      <3>5. ValueTypes'  BY <1>1, <1>3, <2>1, <2>4, <2>6, <3>1, <3>3, <3>4 DEF ValueTypes
      <3>6. CleanIsCurrent'  BY <1>3, <2>1, <2>6, <3>1, <3>4 DEF CInv, CleanIsCurrent
      <3>7. Latest'  BY <1>3, <2>1, <3>1 DEF CInv, Latest, LastContentStored
      <3> QED  BY <1>1, <3>5, <3>6, <3>7 DEF CInv
    <2>3. CASE ~TryLeft(w)
      <3>1. /\ gaveUp' = [gaveUp EXCEPT ![w] = TRUE] /\ wpc' = [wpc EXCEPT ![w] = "tried"]
            /\ broken' = broken \union {f} /\ attempts' = [attempts EXCEPT ![w] = 0]
        BY <2>3, <2>5 DEF TryFails
      <3>2. \A v \in Uploaders : wpc'[v] = IF v = w THEN "tried" ELSE wpc[v]  BY <1>1, <3>1 DEF QueueTypes
      <3>3. gaveUp' \in [Uploaders -> BOOLEAN]  BY <1>1, <3>1 DEF ValueTypes
      <3>7. attempts' \in [Uploaders -> 0 .. Retries]  BY <1>1, <3>1 DEF ValueTypes
      <3>4. ValueTypes'  BY <1>1, <1>3, <2>1, <2>4, <2>6, <3>1, <3>2, <3>3, <3>7 DEF ValueTypes
      <3>5. CleanIsCurrent'  BY <1>3, <1>4, <2>1, <2>6, <3>1, <3>2 DEF CInv, CleanIsCurrent
      <3>6. Latest'  BY <1>3, <2>1, <3>1 DEF CInv, Latest, LastContentStored
      <3> QED  BY <1>1, <3>4, <3>5, <3>6 DEF CInv
    <2> QED  BY <2>2, <2>3
  <1> QED  BY <1>6, <1>7, <1>8, <1>9 DEF UploadStep

LEMMA SettleCurrent ==
  \A w \in Uploaders : CInv /\ (LetGo(w) \/ Settle(w) \/ Requeue(w) \/ RequeueGivesUp(w)) => CInv'
  <1> TAKE w \in Uploaders
  <1> SUFFICES ASSUME CInv, LetGo(w) \/ Settle(w) \/ Requeue(w) \/ RequeueGivesUp(w), NEW f, wjob[w] = f
               PROVE  CInv'
    OBVIOUS
  <1> USE DEF LetGo, Settle, Requeue, RequeueGivesUp
  <1>1. OInv' /\ QueueTypes /\ ValueTypes  BY WorkKeeps DEF CInv, OInv, Process
  <1>2. f \in Paths /\ wpc[w] \in {"tried", "requeueing"}
    BY <1>1 DEF CInv, OInv, HandsFull, QueueTypes
  <1>3. UNCHANGED <<version, saved, ctx, accepted, attempts, reading, gaveUp, opened, broken>>
    BY DEF contentVars, contextVars, submitVars
  <1>4. \A v \in Uploaders : /\ v # w => wjob'[v] = wjob[v] /\ wpc'[v] = wpc[v]
                           /\ wpc'[w] \in {"idle", "requeueing"}
    BY <1>1, <1>2 DEF QueueTypes
  <1>5. \A v \in Uploaders : wjob[v] = f => v = w  BY <1>2 DEF CInv, OInv, OwnersDiffer
  <1>6. \A g \in Paths : g # f => inflight'[g] = inflight[g]  BY <1>1 DEF QueueTypes
  <1>7. ValueTypes'  BY <1>1, <1>3, <1>4 DEF ValueTypes
  <1>8. CleanIsCurrent'
    <2>1. ASSUME NEW g \in Paths, NEW v \in Uploaders, wjob'[v] = g, wpc'[v] \in {"saving", "tried"}
          PROVE  g # f /\ v # w
      BY <1>4, <1>5, <2>1
    <2> QED  BY <1>3, <1>4, <1>6, <2>1 DEF CInv, CleanIsCurrent
  <1>9. Latest'
    <2>1. ASSUME Overwrite, ctx = "live", inflight'[f] = Absent, f \notin broken PROVE saved[f] >= accepted[f]
      <3>1. inflight[f] # Absent  BY <1>2 DEF CInv, OInv, AbsentUnowned
      <3>2. Settle(w)  BY <2>1, <3>1
      <3>3. inflight[f] = Clean  BY <1>1, <1>2, <2>1, <3>1, <3>2 DEF NeedReupload, QueueTypes
      <3> QED  BY <1>2, <2>1, <3>2, <3>3 DEF CInv, CleanIsCurrent
    <2> QED  BY <1>3, <1>6, <2>1 DEF CInv, Latest, LastContentStored
  <1> QED  BY <1>1, <1>7, <1>8, <1>9 DEF CInv

LEMMA OthersCurrent ==
  CInv /\ ((\E f \in Paths : Change(f) \/ \E p \in Submitters : Call(p, f)) \/ Interrupt \/ Close \/ Exit) => CInv'
  <1> SUFFICES ASSUME CInv,
                      (\E f \in Paths : Change(f) \/ \E p \in Submitters : Call(p, f)) \/ Interrupt \/ Close \/ Exit
               PROVE  CInv'
    OBVIOUS
  <1> USE DEF contentVars, contextVars, submitVars, queueVars, workerVars
  <1>1. QueueTypes /\ ValueTypes  BY DEF CInv, OInv
  <1>2. CASE \E f \in Paths : Change(f)
    <2>1. PICK f \in Paths : Change(f)  BY <1>2
    <2>2. /\ version' = [version EXCEPT ![f] = @ + 1] /\ version[f] < MaxChanges
          /\ UNCHANGED <<saved, queueVars, submitVars, workerVars, contextVars>>
      BY <2>1 DEF Change
    <2>3. version[f] + 1 \in 1 .. MaxChanges  BY <1>1, <2>2 DEF ValueTypes
    <2>4. version' \in [Paths -> 1 .. MaxChanges]  BY <1>1, <2>2, <2>3 DEF ValueTypes
    <2>5. \A g \in Paths : version[g] \in Nat /\ version'[g] \in Nat /\ version'[g] >= version[g]
      BY <1>1, <2>2 DEF ValueTypes
    <2>6. \A w \in Uploaders : wpc[w] = "saving" => wjob[w] \in Paths
      BY <1>1 DEF CInv, OInv, HandsFull, QueueTypes
    <2>7. ValueTypes'
      <3>1. \A g \in Paths : saved[g] <= version'[g] /\ accepted[g] <= version'[g] /\ opened[g] <= version'[g]
        BY <1>1, <2>5 DEF ValueTypes
      <3>2. \A w \in Uploaders : wpc[w] = "saving" => reading[w] <= version'[wjob[w]]
        BY <1>1, <2>5, <2>6 DEF ValueTypes
      <3> QED  BY <1>1, <2>2, <2>4, <3>1, <3>2 DEF ValueTypes
    <2>8. OInv'  BY <2>2, OwnersKept DEF CInv, OInv, QueueTypes, HandsFull, Sending
    <2>9. CleanIsCurrent' /\ Latest'  BY <2>2 DEF CInv, CleanIsCurrent, Latest, LastContentStored
    <2> QED  BY <2>7, <2>8, <2>9 DEF CInv
  <1>3. CASE \E f \in Paths, p \in Submitters : Call(p, f)
    <2>1. PICK f \in Paths, p \in Submitters : Call(p, f)  BY <1>3
    <2>2. /\ spc[p] = "idle" /\ spc' = [spc EXCEPT ![p] = "called"] /\ sjob' = [sjob EXCEPT ![p] = f]
          /\ UNCHANGED <<accepted, contentVars, queueVars, workerVars, contextVars>>
      BY <2>1 DEF Call
    <2>3. QueueTypes' /\ HandsFull'  BY <1>1, <2>2 DEF CInv, OInv, QueueTypes, HandsFull
    <2>4. \A q \in Submitters, g \in Paths : Sending(q, g)' <=> Sending(q, g)
      BY <1>1, <2>2 DEF Sending, QueueTypes
    <2>5. OInv'  BY <2>2, <2>3, <2>4, OwnersKept DEF CInv
    <2>6. ValueTypes' /\ CleanIsCurrent' /\ Latest'
      BY <1>1, <2>2 DEF CInv, ValueTypes, CleanIsCurrent, Latest, LastContentStored
    <2> QED  BY <2>5, <2>6 DEF CInv
  <1>4. CASE Interrupt \/ Close \/ Exit
    <2>1. UNCHANGED <<contentVars, jobs, inflight, submitVars, workerVars>> /\ (ctx' = "live" => ctx = "live")
      BY <1>4 DEF Interrupt, Close, Exit
    <2>2. OInv'  BY <2>1, OwnersKept DEF CInv, OInv, QueueTypes, HandsFull, Sending
    <2>3. ValueTypes' /\ CleanIsCurrent' /\ Latest'
      BY <1>1, <2>1 DEF CInv, ValueTypes, CleanIsCurrent, Latest, LastContentStored
    <2> QED  BY <2>2, <2>3 DEF CInv
  <1> QED  BY <1>2, <1>3, <1>4

LEMMA ContentsInvariant == UploaderSpec => []CInv
  <1>1. CInv /\ [UploaderNext]_uploaderVars => CInv'
    <2> SUFFICES ASSUME CInv, [UploaderNext]_uploaderVars PROVE CInv'
      OBVIOUS
    <2>1. CASE UNCHANGED uploaderVars
      <3>1. UNCHANGED <<contentVars, jobs, inflight, submitVars, workerVars, ctx>>
        BY <2>1 DEF uploaderVars, contentVars, submitVars, workerVars
      <3>2. OInv'
        BY <3>1, OwnersKept DEF CInv, OInv, QueueTypes, HandsFull, Sending, submitVars, workerVars
      <3>3. ValueTypes' /\ CleanIsCurrent' /\ Latest'
        BY <3>1 DEF CInv, ValueTypes, CleanIsCurrent, Latest, LastContentStored, contentVars, submitVars, workerVars
      <3> QED  BY <3>2, <3>3 DEF CInv
    <2>2. CASE UploaderNext
      BY <2>2, SubmitCurrent, TakeCurrent, UploadCurrent, SettleCurrent, OthersCurrent DEF UploaderNext, Work, Process
    <2> QED  BY <2>1, <2>2
  <1> QED  BY <1>1, ContentsStart, PTL DEF UploaderSpec

-----------------------------------------------------------------------------
(* The uploader's state keeps its types; no content is stored or submitted that the file never had. *)
THEOREM UploaderTypes == UploaderSpec => []UploaderTypeOK
  <1>1. CInv => UploaderTypeOK
    <2> SUFFICES ASSUME CInv PROVE UploaderTypeOK
      OBVIOUS
    <2>1. \A f \in Paths : saved[f] \in 0 .. version[f] /\ accepted[f] \in 0 .. version[f] /\ opened[f] \in 0 .. version[f]
      BY DEF CInv, ValueTypes
    <2> QED  BY <2>1 DEF CInv, OInv, QueueTypes, ValueTypes, UploaderTypeOK
  <1> QED  BY <1>1, ContentsInvariant, PTL

(* A file in the map has one owner and a file not in it none: no two workers upload one file. *)
THEOREM OneOwner == UploaderSpec => []OneOwnerInFlight
  <1>1. OInv => OneOwnerInFlight
    <2> SUFFICES ASSUME OInv, NEW f \in Paths
                 PROVE  Cardinality(Queued(f)) + Cardinality(Senders(f)) + Cardinality(Holders(f))
                          = IF inflight[f] = Absent THEN 0 ELSE 1
      BY DEF OneOwnerInFlight
    <2>1. /\ InChannel(f) => \E i : Queued(f) = {i}
          /\ ~InChannel(f) => Queued(f) = {}
      BY DEF OInv, OwnersDiffer, InChannel, Queued
    <2>2. \A p \in Submitters : Sending(p, f) => Senders(f) = {p}
      BY DEF OInv, OwnersDiffer, Sending, Senders
    <2>3. (\A p \in Submitters : ~Sending(p, f)) => Senders(f) = {}  BY DEF Sending, Senders
    <2>4. \A w \in Uploaders : wjob[w] = f => Holders(f) = {w}  BY DEF OInv, OwnersDiffer, Holders
    <2>5. (\A w \in Uploaders : wjob[w] # f) => Holders(f) = {}  BY DEF Holders
    <2>6. Cardinality({}) = 0 /\ \A x : Cardinality({x}) = 1  BY FS_EmptySet, FS_Singleton
    <2>7. CASE InChannel(f)
      <3>1. (\A p \in Submitters : ~Sending(p, f)) /\ (\A w \in Uploaders : wjob[w] # f)
        BY <2>7 DEF OInv, OwnersDiffer
      <3>2. inflight[f] # Absent  BY <2>7 DEF OInv, AbsentUnowned
      <3>3. Cardinality(Queued(f)) = 1
        <4>1. PICK i : Queued(f) = {i}  BY <2>1, <2>7
        <4> QED  BY <2>6, <4>1
      <3>4. Cardinality(Senders(f)) = 0  BY <2>3, <2>6, <3>1
      <3>5. Cardinality(Holders(f)) = 0  BY <2>5, <2>6, <3>1
      <3> QED  BY <3>2, <3>3, <3>4, <3>5
    <2>8. ASSUME NEW p \in Submitters, Sending(p, f)
          PROVE  Cardinality(Queued(f)) + Cardinality(Senders(f)) + Cardinality(Holders(f))
                   = IF inflight[f] = Absent THEN 0 ELSE 1
      <3>1. ~InChannel(f) /\ \A w \in Uploaders : wjob[w] # f  BY <2>8 DEF OInv, OwnersDiffer
      <3>2. inflight[f] # Absent  BY <2>8 DEF OInv, AbsentUnowned
      <3>3. Cardinality(Queued(f)) = 0  BY <2>1, <2>6, <3>1
      <3>4. Cardinality(Senders(f)) = 1  BY <2>2, <2>6, <2>8
      <3>5. Cardinality(Holders(f)) = 0  BY <2>5, <2>6, <3>1
      <3> QED  BY <3>2, <3>3, <3>4, <3>5
    <2>9. ASSUME NEW w \in Uploaders, wjob[w] = f
          PROVE  Cardinality(Queued(f)) + Cardinality(Senders(f)) + Cardinality(Holders(f))
                   = IF inflight[f] = Absent THEN 0 ELSE 1
      <3>1. ~InChannel(f) /\ \A p \in Submitters : ~Sending(p, f)  BY <2>9 DEF OInv, OwnersDiffer
      <3>2. inflight[f] # Absent  BY <2>9 DEF OInv, AbsentUnowned
      <3>3. Cardinality(Queued(f)) = 0  BY <2>1, <2>6, <3>1
      <3>4. Cardinality(Senders(f)) = 0  BY <2>3, <2>6, <3>1
      <3>5. Cardinality(Holders(f)) = 1  BY <2>4, <2>6, <2>9
      <3> QED  BY <3>2, <3>3, <3>4, <3>5
    <2>10. CASE ~InChannel(f) /\ (\A p \in Submitters : ~Sending(p, f)) /\ (\A w \in Uploaders : wjob[w] # f)
      <3>1. inflight[f] = Absent  BY <2>10 DEF OInv, AbsentUnowned
      <3> QED  BY <2>1, <2>3, <2>5, <2>6, <2>10, <3>1
    <2> QED  BY <2>7, <2>8, <2>9, <2>10
  <1>2. CInv => OneOwnerInFlight  BY <1>1 DEF CInv
  <1> QED  BY <1>2, ContentsInvariant, PTL

(* With --overwrite, a file that nobody has in hand is stored as it was submitted last, or its *)
(* last upload failed.                                                                         *)
THEOREM LastSubmittedIsStored == ASSUME Overwrite PROVE UploaderSpec => []LastContentStored
  <1>1. CInv => LastContentStored  BY DEF CInv, Latest
  <1> QED  BY <1>1, ContentsInvariant, PTL
=============================================================================
