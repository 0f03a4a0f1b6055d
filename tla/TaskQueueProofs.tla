-------------------------- MODULE TaskQueueProofs ---------------------------
(***************************************************************************)
(* Theorems about TaskQueue for every set of tasks, identifiers and        *)
(* workers. The inductive invariant is TypeOK together with IndexInv, the  *)
(* agreement of the list with the two maps; the lost wake-up property is   *)
(* inductive relative to the types.                                        *)
(***************************************************************************)
EXTENDS TaskQueue, TLAPS, FiniteSetTheorems

USE IdAssumption, NoneAssumption DEF IdAssumption, NoneAssumption

-----------------------------------------------------------------------------
(* Dropping a prefix of a sequence leaves a sequence of the later elements.*)
LEMMA DropPrefix ==
  ASSUME NEW S, NEW s \in Seq(S), NEW k \in DOMAIN s
  PROVE  /\ SubSeq(s, k + 1, Len(s)) \in Seq(S)
         /\ Len(SubSeq(s, k + 1, Len(s))) = Len(s) - k
         /\ \A j \in 1 .. (Len(s) - k) :
              /\ j + k \in 1 .. Len(s)
              /\ SubSeq(s, k + 1, Len(s))[j] = s[j + k]
<1>1. k \in 1 .. Len(s) /\ Len(s) \in Nat
  OBVIOUS
<1>2. \A j \in 1 .. Len(s) : s[j] \in S
  OBVIOUS
<1>3. SubSeq(s, k + 1, Len(s)) = [j \in 1 .. (Len(s) - k) |-> s[k + 1 + j - 1]]
  BY <1>1, SMT
<1> QED
  BY <1>1, <1>2, <1>3, SMT

(* The elements of a sequence, of one with an element more, and what is    *)
(* left of them when a prefix is dropped.                                  *)
LEMMA RangeElements ==
  ASSUME NEW S, NEW s \in Seq(S)
  PROVE  Range(s) = {s[k] : k \in 1 .. Len(s)} /\ Range(s) \subseteq S
  BY DEF Range

LEMMA RangeAppend ==
  ASSUME NEW S, NEW s \in Seq(S), NEW x \in S
  PROVE  Range(Append(s, x)) = Range(s) \cup {x}
<1> DEFINE r == Append(s, x)
           n == Len(s) + 1
<1>1. /\ r \in Seq(S)
      /\ Len(r) = n
      /\ r[n] = x
      /\ \A k \in 1 .. Len(s) : r[k] = s[k]
      /\ 1 .. n = (1 .. Len(s)) \cup {n}
  OBVIOUS
<1> HIDE DEF r, n
<1>2. Range(r) = {r[k] : k \in 1 .. n}
  BY <1>1, RangeElements
<1>3. Range(s) = {s[k] : k \in 1 .. Len(s)}
  BY RangeElements
<1> QED
  BY <1>1, <1>2, <1>3 DEF r

LEMMA RangeDrop ==
  ASSUME NEW S, NEW s \in Seq(S), NEW k \in DOMAIN s
  PROVE  /\ Range(SubSeq(s, k + 1, Len(s))) \subseteq Range(s)
         /\ Range(s) = {s[j] : j \in 1 .. k}
                         \cup Range(SubSeq(s, k + 1, Len(s)))
<1> DEFINE r == SubSeq(s, k + 1, Len(s))
<1>1. /\ r \in Seq(S)
      /\ Len(r) = Len(s) - k
      /\ \A j \in 1 .. Len(r) : j + k \in 1 .. Len(s) /\ r[j] = s[j + k]
  <2>1. r \in Seq(S) /\ Len(r) = Len(s) - k
    BY DropPrefix
  <2>2. \A j \in 1 .. (Len(s) - k) : j + k \in 1 .. Len(s) /\ r[j] = s[j + k]
    BY DropPrefix
  <2> QED
    BY <2>1, <2>2
<1> HIDE DEF r
<1>2. /\ Range(r) = {r[j] : j \in 1 .. Len(r)}
      /\ Range(s) = {s[j] : j \in 1 .. Len(s)}
  BY <1>1, RangeElements
<1>3. Range(r) \subseteq Range(s)
  BY <1>1, <1>2
<1>4. ASSUME NEW j \in 1 .. Len(s), j > k
      PROVE  s[j] \in Range(r)
  <2>1. j - k \in 1 .. Len(r) /\ (j - k) + k = j
    BY <1>1, <1>4
  <2> QED
    BY <1>1, <1>2, <2>1
<1>5. 1 .. k \subseteq 1 .. Len(s) /\ \A j \in 1 .. Len(s) : j > k \/ j \in 1 .. k
  OBVIOUS
<1> QED
  BY <1>2, <1>3, <1>4, <1>5 DEF r

-----------------------------------------------------------------------------
(* Every step keeps every variable of the queue in its type.               *)
LEMMA TypeInit == Init => TypeOK
<1> SUFFICES ASSUME Init
             PROVE  TypeOK
  OBVIOUS
<1>1. tasks \in Seq(Tasks)
  BY DEF Init
<1> QED
  BY <1>1 DEF Init, TypeOK, GetterStates

LEMMA TypeStep == TypeOK /\ [Next]_qvars => TypeOK'
<1> SUFFICES ASSUME TypeOK, [Next]_qvars
             PROVE  TypeOK'
  OBVIOUS
<1> USE DEF TypeOK
<1>1. ASSUME NEW t \in Tasks, AddAccepted(t)
      PROVE  TypeOK'
  <2>1. getter' \in [Workers -> GetterStates]
    BY <1>1 DEF AddAccepted, Signal, Waiting, GetterStates
  <2> QED
    BY <1>1, <2>1 DEF AddAccepted
<1>2. ASSUME NEW t \in Tasks, AddRefused(t)
      PROVE  TypeOK'
  BY <1>2 DEF AddRefused
<1>3. ASSUME NEW c \in Callers, CancelApply(c)
      PROVE  TypeOK'
  BY <1>3 DEF CancelApply
<1>4. ASSUME NEW t \in Tasks, ContextDone(t)
      PROVE  TypeOK'
  BY <1>4 DEF ContextDone
<1>5. ASSUME NEW c \in Callers, NEW i \in IDs, CancelFind(c, i)
      PROVE  TypeOK'
  BY <1>5 DEF CancelFind, Lookup
<1>6. ASSUME NEW w \in Workers, GetTask(w)
      PROVE  TypeOK'
  <2>1. PICK k \in DOMAIN tasks :
          /\ tasks' = SubSeq(tasks, k + 1, Len(tasks))
          /\ taskMap' = Release(k - 1)
          /\ runningTaskMap' = [runningTaskMap EXCEPT ![id[tasks[k]]] = tasks[k]]
          /\ held' = [held EXCEPT ![w] = tasks[k]]
    BY <1>6 DEF GetTask
  <2>2. tasks[k] \in Tasks
    OBVIOUS
  <2>3. tasks' \in Seq(Tasks)
    BY <2>1, DropPrefix
  <2>4. taskMap' \in [IDs -> Tasks \cup {None}]
    BY <2>1 DEF Release
  <2>5. /\ runningTaskMap' \in [IDs -> Tasks \cup {None}]
        /\ held' \in [Workers -> Tasks \cup {None}]
    BY <2>1, <2>2
  <2> QED
    BY <1>6, <2>3, <2>4, <2>5 DEF GetTask, GetterStates
<1>7. ASSUME NEW w \in Workers, NEW next \in {"waiting", "gone"},
             GetNothing(w, next)
      PROVE  TypeOK'
  BY <1>7 DEF GetNothing, Release, GetterStates
<1>8. ASSUME NEW w \in Workers, Done(w)
      PROVE  TypeOK'
  BY <1>8 DEF Done
<1>9. CASE Close
  BY <1>9 DEF Close, Waiting, GetterStates
<1>10. CASE UNCHANGED qvars
  BY <1>10 DEF qvars
<1> QED
  BY <1>1, <1>2, <1>3, <1>4, <1>5, <1>6, <1>7, <1>8, <1>9, <1>10
     DEF Next, TaskStep, Get, GetWait, GetClosed

(* The variables of the queue always have their types: in particular Get   *)
(* hands out tasks only, and never the absent entry of a map.              *)
THEOREM TypeCorrect == Spec => []TypeOK
  BY TypeInit, TypeStep, PTL DEF Spec

-----------------------------------------------------------------------------
LEMMA IndexInit == Init => IndexInv
  BY DEF Init, IndexInv, ListMapped, HeldMapped, MapLive, RunningHeld,
         NoDuplicate

(* A step that changes none of the structures preserves their agreement.   *)
LEMMA IndexUnchanged ==
  ASSUME IndexInv, UNCHANGED <<tasks, taskMap, runningTaskMap, held>>
  PROVE  IndexInv'
  BY DEF IndexInv, ListMapped, HeldMapped, MapLive, RunningHeld, NoDuplicate,
         Live, Held

LEMMA IndexAdd ==
  ASSUME TypeOK, TypeOK', IndexInv, NEW t \in Tasks, AddAccepted(t)
  PROVE  IndexInv'
<1> DEFINE n == Len(tasks) + 1
<1>1. /\ tasks \in Seq(Tasks)
      /\ tasks' = Append(tasks, t)
      /\ taskMap[id[t]] = None
      /\ taskMap' = [taskMap EXCEPT ![id[t]] = t]
      /\ UNCHANGED <<runningTaskMap, held>>
      /\ id[t] \in IDs
      /\ taskMap \in [IDs -> Tasks \cup {None}]
  BY DEF AddAccepted, Addable, TypeOK
<1>2. /\ Len(tasks') = n
      /\ tasks'[n] = t
      /\ \A k \in 1 .. Len(tasks) : tasks'[k] = tasks[k]
      /\ Len(tasks) \in Nat
      /\ \A k \in 1 .. Len(tasks) : tasks[k] \in Tasks
  BY <1>1
<1>3. \A k \in 1 .. n : k = n \/ k \in 1 .. Len(tasks)
  BY <1>2
<1>4. /\ \A k \in 1 .. Len(tasks) : id[tasks[k]] # id[t]
      /\ \A w \in Workers : held[w] # None => id[held[w]] # id[t]
  BY <1>1, <1>2 DEF IndexInv, ListMapped, HeldMapped
<1>5. ListMapped'
  <2>1. runningTaskMap[id[t]] = None
    BY <1>1, <1>4 DEF IndexInv, RunningHeld
  <2> QED
    BY <1>1, <1>2, <1>3, <1>4, <2>1 DEF IndexInv, ListMapped
<1>6. HeldMapped'
  BY <1>1, <1>4 DEF IndexInv, HeldMapped, TypeOK
<1>7. MapLive'
  <2>1. Live' = Live \cup {t}
    BY <1>1, RangeAppend DEF Live, Held
  <2> QED
    BY <1>1, <2>1 DEF IndexInv, MapLive
<1>8. RunningHeld'
  BY <1>1 DEF IndexInv, RunningHeld
<1>9. NoDuplicate'
  BY <1>1, <1>2, <1>3, <1>4 DEF IndexInv, NoDuplicate
<1> QED
  BY <1>5, <1>6, <1>7, <1>8, <1>9 DEF IndexInv

(* Get pops the prefix 1 .. k, releases the identifiers of 1 .. k - 1 and  *)
(* hands the k-th task to worker w.                                        *)
LEMMA IndexGetTask ==
  ASSUME TypeOK, TypeOK', IndexInv, NEW w \in Workers, GetTask(w)
  PROVE  IndexInv'
<1>1. PICK k \in DOMAIN tasks :
        /\ InGet(w)
        /\ tasks' = SubSeq(tasks, k + 1, Len(tasks))
        /\ taskMap' = Release(k - 1)
        /\ runningTaskMap' = [runningTaskMap EXCEPT ![id[tasks[k]]] = tasks[k]]
        /\ held' = [held EXCEPT ![w] = tasks[k]]
  BY DEF GetTask
<1> DEFINE t == tasks[k]
           n == Len(tasks)
<1>2. /\ tasks \in Seq(Tasks)
      /\ n \in Nat
      /\ k \in 1 .. n
      /\ \A j \in 1 .. n : tasks[j] \in Tasks /\ id[tasks[j]] \in IDs
      /\ t \in Tasks
      /\ held[w] = None
      /\ held \in [Workers -> Tasks \cup {None}]
      /\ taskMap \in [IDs -> Tasks \cup {None}]
      /\ runningTaskMap \in [IDs -> Tasks \cup {None}]
  BY <1>1 DEF TypeOK, InGet
<1>3. /\ Len(tasks') = n - k
      /\ \A j \in 1 .. (n - k) : j + k \in 1 .. n /\ tasks'[j] = tasks[j + k]
  BY <1>1, <1>2, DropPrefix
<1>4. \A i, j \in 1 .. n : id[tasks[i]] = id[tasks[j]] => i = j
  BY <1>2 DEF IndexInv, ListMapped, NoDuplicate
<1>5. \A v \in Workers : held[v] # None =>
        \A j \in 1 .. n : id[held[v]] # id[tasks[j]]
  BY <1>2 DEF IndexInv, ListMapped, HeldMapped
<1>6. \A i \in IDs :
        \/ /\ taskMap'[i] = None
           /\ \E j \in 1 .. (k - 1) : i = id[tasks[j]]
        \/ /\ taskMap'[i] = taskMap[i]
           /\ \A j \in 1 .. (k - 1) : i # id[tasks[j]]
  BY <1>1 DEF Release
<1> HIDE DEF n
<1>7. ListMapped'
  <2> SUFFICES ASSUME NEW j \in 1 .. (n - k)
               PROVE  /\ taskMap'[id[tasks[j + k]]] = tasks[j + k]
                      /\ runningTaskMap'[id[tasks[j + k]]] = None
    <3>1. DOMAIN tasks' = 1 .. (n - k)
      BY <1>3 DEF TypeOK
    <3> QED
      BY <1>3, <3>1 DEF ListMapped
  <2>1. /\ j + k \in 1 .. n
        /\ \A i \in 1 .. k : i \in 1 .. n /\ i # j + k
    BY <1>2, <1>3
  <2>2. \A i \in 1 .. k : id[tasks[i]] # id[tasks[j + k]]
    BY <1>4, <2>1
  <2>3. taskMap'[id[tasks[j + k]]] = taskMap[id[tasks[j + k]]]
    <3>1. id[tasks[j + k]] \in IDs /\ 1 .. (k - 1) \subseteq 1 .. k
      BY <1>2, <2>1
    <3>2. \A i \in 1 .. (k - 1) : id[tasks[j + k]] # id[tasks[i]]
      BY <2>2, <3>1
    <3> QED
      BY <1>6, <3>1, <3>2
  <2>4. runningTaskMap'[id[tasks[j + k]]] = runningTaskMap[id[tasks[j + k]]]
    <3>1. id[tasks[j + k]] # id[t] /\ id[tasks[j + k]] \in IDs
      BY <1>2, <2>1, <2>2
    <3> QED
      BY <1>1, <1>2, <3>1
  <2> QED
    BY <1>2, <2>1, <2>3, <2>4 DEF IndexInv, ListMapped, n
<1>8. HeldMapped'
  <2> SUFFICES ASSUME NEW v \in Workers, held'[v] # None
               PROVE  /\ taskMap'[id[held'[v]]] = held'[v]
                      /\ runningTaskMap'[id[held'[v]]] = held'[v]
    BY DEF HeldMapped
  <2>1. CASE v = w
    <3>1. held'[v] = t
      BY <1>1, <1>2, <2>1
    <3>2. \A j \in 1 .. (k - 1) : j \in 1 .. n /\ id[tasks[j]] # id[t]
      BY <1>2, <1>4
    <3>3. taskMap'[id[t]] = taskMap[id[t]]
      BY <1>2, <1>6, <3>2
    <3> QED
      BY <1>1, <1>2, <3>1, <3>3 DEF IndexInv, ListMapped, n
  <2>2. CASE v # w
    <3>1. held'[v] = held[v] /\ held[v] \in Tasks
      BY <1>1, <1>2, <2>2
    <3>2. taskMap'[id[held[v]]] = taskMap[id[held[v]]]
      BY <1>2, <1>5, <1>6, <3>1
    <3> QED
      BY <1>1, <1>2, <1>5, <3>1, <3>2 DEF IndexInv, HeldMapped
  <2> QED
    BY <2>1, <2>2
<1>9. MapLive'
  <2> SUFFICES ASSUME NEW i \in IDs, taskMap'[i] # None
               PROVE  id[taskMap'[i]] = i /\ taskMap'[i] \in Live'
    BY DEF MapLive
  <2>1. /\ taskMap'[i] = taskMap[i]
        /\ \A j \in 1 .. (k - 1) : i # id[tasks[j]]
    BY <1>6
  <2>2. id[taskMap[i]] = i /\ taskMap[i] \in Live
    BY <2>1 DEF IndexInv, MapLive
  <2>3. CASE taskMap[i] \in Held
    <3>1. PICK v \in Workers : held[v] = taskMap[i] /\ held[v] # None
      BY <2>3 DEF Held
    <3> QED
      BY <1>1, <1>2, <2>1, <2>2, <3>1 DEF Live, Held
  <2>4. CASE taskMap[i] \in Range(tasks)
    <3>1. PICK j \in 1 .. n : taskMap[i] = tasks[j]
      BY <1>2, <2>4, RangeElements DEF n
    <3>2. CASE j \in 1 .. (k - 1)
      BY <2>1, <2>2, <3>1, <3>2
    <3>3. CASE j = k
      BY <1>1, <1>2, <2>1, <2>2, <3>1, <3>3 DEF Live, Held
    <3>4. CASE j > k
      <4>1. j - k \in 1 .. (n - k) /\ (j - k) + k = j
        BY <1>2, <3>4
      <4>2. tasks'[j - k] = tasks[j] /\ j - k \in 1 .. Len(tasks')
        BY <1>3, <4>1
      <4>3. tasks' \in Seq(Tasks)
        BY DEF TypeOK
      <4>4. tasks[j] \in Range(tasks')
        BY <4>2, <4>3, RangeElements
      <4> QED
        BY <2>1, <2>2, <3>1, <4>4 DEF Live
    <3> QED
      BY <1>2, <3>2, <3>3, <3>4
  <2> QED
    BY <2>2, <2>3, <2>4 DEF Live
<1>10. RunningHeld'
  <2> SUFFICES ASSUME NEW i \in IDs, runningTaskMap'[i] # None
               PROVE  /\ id[runningTaskMap'[i]] = i
                      /\ \E v \in Workers : held'[v] = runningTaskMap'[i]
    BY DEF RunningHeld
  <2>1. CASE i = id[t]
    BY <1>1, <1>2, <2>1
  <2>2. CASE i # id[t]
    <3>1. runningTaskMap'[i] = runningTaskMap[i]
      BY <1>1, <1>2, <2>2
    <3>2. PICK v \in Workers : held[v] = runningTaskMap[i] /\ v # w
      BY <1>2, <2>2, <3>1 DEF IndexInv, RunningHeld
    <3> QED
      BY <1>1, <1>2, <3>1, <3>2 DEF IndexInv, RunningHeld
  <2> QED
    BY <2>1, <2>2
<1>11. NoDuplicate'
  <2>1. \A i, j \in DOMAIN tasks' : tasks'[i] = tasks'[j] => i = j
    <3>1. DOMAIN tasks' = 1 .. (n - k)
      BY <1>3 DEF TypeOK
    <3> SUFFICES ASSUME NEW i \in 1 .. (n - k), NEW j \in 1 .. (n - k),
                        tasks'[i] = tasks'[j]
                 PROVE  i = j
      BY <3>1
    <3>2. tasks[i + k] = tasks[j + k] /\ i + k \in 1 .. n /\ j + k \in 1 .. n
      BY <1>3
    <3>3. i + k = j + k
      BY <1>4, <3>2
    <3> QED
      BY <1>2, <3>3
  <2>2. \A u, v \in Workers : held'[u] = held'[v] /\ held'[u] # None => u = v
    <3>1. \A v \in Workers : held[v] # t
      BY <1>2, <1>5 DEF n
    <3> QED
      BY <1>1, <1>2, <3>1 DEF IndexInv, NoDuplicate
  <2> QED
    BY <2>1, <2>2 DEF NoDuplicate
<1> QED
  BY <1>7, <1>8, <1>9, <1>10, <1>11 DEF IndexInv

(* Get finds cancelled tasks only: the list is emptied and the identifiers *)
(* of all its tasks are released.                                          *)
LEMMA IndexGetNothing ==
  ASSUME TypeOK, TypeOK', IndexInv, NEW w \in Workers, NEW next,
         GetNothing(w, next)
  PROVE  IndexInv'
<1>1. /\ tasks' = <<>>
      /\ taskMap' = Release(Len(tasks))
      /\ UNCHANGED <<runningTaskMap, held>>
  BY DEF GetNothing
<1>2. /\ tasks \in Seq(Tasks)
      /\ held \in [Workers -> Tasks \cup {None}]
      /\ Range(tasks) = {tasks[j] : j \in 1 .. Len(tasks)}
      /\ Len(tasks') = 0
  BY <1>1, RangeElements DEF TypeOK
<1>3. \A i \in IDs :
        \/ /\ taskMap'[i] = None
           /\ \E j \in 1 .. Len(tasks) : i = id[tasks[j]]
        \/ /\ taskMap'[i] = taskMap[i]
           /\ \A j \in 1 .. Len(tasks) : i # id[tasks[j]]
  BY <1>1 DEF Release
<1>4. ListMapped'
  BY <1>1 DEF ListMapped
<1>5. HeldMapped'
  <2> SUFFICES ASSUME NEW v \in Workers, held[v] # None
               PROVE  taskMap'[id[held[v]]] = held[v]
    BY <1>1 DEF HeldMapped, IndexInv
  <2>1. held[v] \in Tasks /\ id[held[v]] \in IDs
    BY <1>2
  <2>2. \A j \in 1 .. Len(tasks) : id[tasks[j]] # id[held[v]]
    BY <1>2, <2>1 DEF IndexInv, ListMapped, HeldMapped
  <2> QED
    BY <1>3, <2>1, <2>2 DEF IndexInv, HeldMapped
<1>6. MapLive'
  <2> SUFFICES ASSUME NEW i \in IDs, taskMap'[i] # None
               PROVE  id[taskMap'[i]] = i /\ taskMap'[i] \in Live'
    BY DEF MapLive
  <2>1. /\ taskMap'[i] = taskMap[i]
        /\ \A j \in 1 .. Len(tasks) : i # id[tasks[j]]
    BY <1>3
  <2>2. id[taskMap[i]] = i /\ taskMap[i] \in Live
    BY <2>1 DEF IndexInv, MapLive
  <2>3. taskMap[i] \in Held
    BY <1>2, <2>1, <2>2 DEF Live
  <2> QED
    BY <1>1, <2>1, <2>2, <2>3 DEF Live, Held
<1>7. RunningHeld'
  BY <1>1 DEF IndexInv, RunningHeld
<1>8. NoDuplicate'
  BY <1>1 DEF IndexInv, NoDuplicate
<1> QED
  BY <1>4, <1>5, <1>6, <1>7, <1>8 DEF IndexInv

LEMMA IndexDone ==
  ASSUME TypeOK, IndexInv, NEW w \in Workers, Done(w)
  PROVE  IndexInv'
<1> DEFINE t == held[w]
<1>1. /\ t # None
      /\ taskMap' = [taskMap EXCEPT ![id[t]] = None]
      /\ runningTaskMap' = [runningTaskMap EXCEPT ![id[t]] = None]
      /\ held' = [held EXCEPT ![w] = None]
      /\ tasks' = tasks
  BY DEF Done
<1>2. /\ t \in Tasks
      /\ id[t] \in IDs
      /\ held \in [Workers -> Tasks \cup {None}]
      /\ taskMap \in [IDs -> Tasks \cup {None}]
      /\ runningTaskMap \in [IDs -> Tasks \cup {None}]
      /\ tasks \in Seq(Tasks)
      /\ Range(tasks) = {tasks[j] : j \in 1 .. Len(tasks)}
      /\ \A k \in DOMAIN tasks : tasks[k] \in Tasks
  BY <1>1, RangeElements DEF TypeOK
<1>3. taskMap[id[t]] = t /\ runningTaskMap[id[t]] = t
  BY <1>1 DEF IndexInv, HeldMapped
<1>4. \A k \in DOMAIN tasks : id[tasks[k]] # id[t]
  BY <1>1, <1>3 DEF IndexInv, ListMapped
<1>5. \A v \in Workers : v # w /\ held[v] # None => id[held[v]] # id[t]
  BY <1>1, <1>2, <1>3 DEF IndexInv, HeldMapped, NoDuplicate
<1>6. \A v \in Workers : held'[v] # None => v # w /\ held'[v] = held[v]
  BY <1>1, <1>2
<1>7. ListMapped'
  BY <1>1, <1>2, <1>4 DEF IndexInv, ListMapped
<1>8. HeldMapped'
  BY <1>1, <1>2, <1>5, <1>6 DEF IndexInv, HeldMapped
<1>9. MapLive'
  <2> SUFFICES ASSUME NEW i \in IDs, taskMap'[i] # None
               PROVE  id[taskMap'[i]] = i /\ taskMap'[i] \in Live'
    BY DEF MapLive
  <2>1. /\ taskMap'[i] = taskMap[i]
        /\ i # id[t]
        /\ id[taskMap[i]] = i
        /\ taskMap[i] \in Live
    BY <1>1, <1>2 DEF IndexInv, MapLive
  <2>2. CASE taskMap[i] \in Range(tasks)
    BY <1>1, <2>1, <2>2 DEF Live
  <2>3. CASE taskMap[i] \in Held
    <3>1. PICK v \in Workers : held[v] = taskMap[i] /\ held[v] # None
      BY <2>3 DEF Held
    <3>2. v # w
      BY <2>1, <3>1
    <3> QED
      BY <1>1, <1>2, <2>1, <3>1, <3>2 DEF Live, Held
  <2> QED
    BY <2>1, <2>2, <2>3 DEF Live
<1>10. RunningHeld'
  <2> SUFFICES ASSUME NEW i \in IDs, runningTaskMap'[i] # None
               PROVE  /\ id[runningTaskMap'[i]] = i
                      /\ \E v \in Workers : held'[v] = runningTaskMap'[i]
    BY DEF RunningHeld
  <2>1. runningTaskMap'[i] = runningTaskMap[i] /\ i # id[t]
    BY <1>1, <1>2
  <2>2. PICK v \in Workers : held[v] = runningTaskMap[i]
    BY <2>1 DEF IndexInv, RunningHeld
  <2>3. v # w /\ id[runningTaskMap[i]] = i
    BY <2>1, <2>2 DEF IndexInv, RunningHeld
  <2> QED
    BY <1>1, <1>2, <2>1, <2>2, <2>3
<1>11. NoDuplicate'
  BY <1>1, <1>6 DEF IndexInv, NoDuplicate
<1> QED
  BY <1>7, <1>8, <1>9, <1>10, <1>11 DEF IndexInv

LEMMA IndexStep == TypeOK /\ TypeOK' /\ IndexInv /\ [Next]_qvars => IndexInv'
<1> SUFFICES ASSUME TypeOK, TypeOK', IndexInv, [Next]_qvars
             PROVE  IndexInv'
  OBVIOUS
<1>1. ASSUME NEW t \in Tasks, TaskStep(t)
      PROVE  IndexInv'
  <2>1. CASE AddAccepted(t)
    BY <2>1, IndexAdd
  <2>2. CASE AddRefused(t) \/ ContextDone(t)
    BY <2>2, IndexUnchanged DEF AddRefused, ContextDone
  <2> QED
    BY <1>1, <2>1, <2>2 DEF TaskStep
<1>2. ASSUME NEW c \in Callers,
             CancelApply(c) \/ \E i \in IDs : CancelFind(c, i)
      PROVE  IndexInv'
  BY <1>2, IndexUnchanged DEF CancelApply, CancelFind
<1>3. ASSUME NEW w \in Workers, Get(w)
      PROVE  IndexInv'
  BY <1>3, IndexGetTask, IndexGetNothing DEF Get, GetWait, GetClosed
<1>4. ASSUME NEW w \in Workers, Done(w)
      PROVE  IndexInv'
  BY <1>4, IndexDone
<1>5. CASE Close
  BY <1>5, IndexUnchanged DEF Close
<1>6. CASE UNCHANGED qvars
  BY <1>6, IndexUnchanged DEF qvars
<1> QED
  BY <1>1, <1>2, <1>3, <1>4, <1>5, <1>6 DEF Next

(* The list and the two maps always agree, whatever the interleaving of    *)
(* Add, Get, Done, CancelTask and Close.                                   *)
THEOREM IndexCorrect == Spec => []IndexInv
<1>1. Init => IndexInv
  BY IndexInit
<1>2. TypeOK /\ TypeOK' /\ IndexInv /\ [Next]_qvars => IndexInv'
  BY IndexStep
<1> QED
  BY <1>1, <1>2, TypeCorrect, PTL DEF Spec

-----------------------------------------------------------------------------
(* What a live task has in the maps.                                       *)
LEMMA LiveMapped ==
  ASSUME TypeOK, IndexInv, NEW t \in Live
  PROVE  /\ t \in Tasks /\ id[t] \in IDs
         /\ taskMap[id[t]] = t
         /\ t \in Held => runningTaskMap[id[t]] = t
         /\ t \in Range(tasks) => runningTaskMap[id[t]] = None
<1>1. CASE t \in Held
  <2>1. PICK w \in Workers : held[w] = t /\ t # None
    BY <1>1 DEF Held
  <2>2. /\ t \in Tasks /\ id[t] \in IDs
        /\ taskMap[id[t]] = t
        /\ runningTaskMap[id[t]] = t
    BY <2>1 DEF TypeOK, IndexInv, HeldMapped
  <2>3. t \notin Range(tasks)
    BY <2>2, RangeElements DEF TypeOK, IndexInv, ListMapped
  <2> QED
    BY <2>2, <2>3
<1>2. CASE t \in Range(tasks) /\ t \notin Held
  <2>1. PICK k \in 1 .. Len(tasks) : tasks[k] = t
    BY <1>2, RangeElements DEF TypeOK
  <2> QED
    BY <1>2, <2>1 DEF TypeOK, IndexInv, ListMapped
<1> QED
  BY <1>1, <1>2 DEF Live

(* Two live tasks never share an identifier, so that Done, which deletes   *)
(* by identifier, removes the entries of its own task only.                *)
THEOREM UniqueOwner == Spec => []OneOwner
<1>1. TypeOK /\ IndexInv => OneOwner
  <2> SUFFICES ASSUME TypeOK, IndexInv, NEW t \in Live, NEW u \in Live,
                      id[t] = id[u]
               PROVE  t = u
    BY DEF OneOwner
  <2> QED
    BY LiveMapped
<1> QED
  BY <1>1, TypeCorrect, IndexCorrect, PTL

(* CancelTask finds every queued and every running task by its identifier. *)
THEOREM CancelFindsOwner == Spec => []CancelReaches
<1>1. TypeOK /\ IndexInv => CancelReaches
  <2> SUFFICES ASSUME TypeOK, IndexInv, NEW t \in Live
               PROVE  Lookup(id[t]) = t
    BY DEF CancelReaches
  <2> QED
    BY LiveMapped DEF Lookup
<1> QED
  BY <1>1, TypeCorrect, IndexCorrect, PTL

(* A live task that is not cancelled is in exactly one of the two listings *)
(* the bot shows.                                                          *)
THEOREM ListedExactlyOnce == Spec => []ListedOnce
<1>1. TypeOK /\ IndexInv => ListedOnce
  <2> SUFFICES ASSUME TypeOK, IndexInv, NEW t \in Live, t \notin cancelled
               PROVE  (t \in QueuedTasks) # (t \in RunningTasks)
    BY DEF ListedOnce
  <2>1. t \in Tasks /\ id[t] \in IDs
    BY LiveMapped
  <2>2. CASE t \in Held
    <3>1. runningTaskMap[id[t]] = t /\ t \notin Range(tasks)
      BY <2>1, <2>2, LiveMapped
    <3> QED
      BY <2>1, <3>1 DEF QueuedTasks, RunningTasks
  <2>3. CASE t \in Range(tasks)
    <3>1. ASSUME NEW i \in IDs
          PROVE  runningTaskMap[i] # t
      <4>1. runningTaskMap[id[t]] = None
        BY <2>3, LiveMapped
      <4> QED
        BY <2>1, <4>1 DEF IndexInv, RunningHeld
    <3> QED
      BY <2>3, <3>1 DEF QueuedTasks, RunningTasks
  <2> QED
    BY <2>2, <2>3 DEF Live
<1> QED
  BY <1>1, TypeCorrect, IndexCorrect, PTL

-----------------------------------------------------------------------------
(* Wake-ups. Signal adds a worker to Woken for the task Add appends; a     *)
(* worker that leaves Woken takes at least one task from the list.         *)
LEMMA WokenFinite == IsFiniteSet(Woken) /\ Cardinality(Woken) \in Nat
  BY WorkersAssumption, FS_Subset, FS_CardinalityType
     DEF Woken, WorkersAssumption

LEMMA WakeupAdd ==
  ASSUME TypeOK, NoLostWakeup, NEW t \in Tasks, AddAccepted(t)
  PROVE  NoLostWakeup'
<1>1. /\ Len(tasks') = Len(tasks) + 1
      /\ Len(tasks) \in Nat
      /\ closed' = closed
      /\ ~closed
      /\ Signal
      /\ getter \in [Workers -> GetterStates]
  BY DEF AddAccepted, Addable, TypeOK
<1>2. CASE Waiting = {}
  <2>1. Waiting' = {}
    BY <1>1, <1>2 DEF Signal, Waiting
  <2> QED
    BY <2>1 DEF NoLostWakeup
<1>3. CASE Waiting # {}
  <2>1. PICK w \in Waiting : getter' = [getter EXCEPT ![w] = "woken"]
    BY <1>1, <1>3 DEF Signal
  <2>2. w \notin Woken /\ Woken' = Woken \cup {w}
    BY <1>1, <2>1 DEF Woken, Waiting
  <2>3. Cardinality(Woken') = Cardinality(Woken) + 1
    BY <2>2, WokenFinite, FS_AddElement
  <2>4. Len(tasks) <= Cardinality(Woken)
    BY <1>3 DEF NoLostWakeup
  <2> QED
    BY <1>1, <2>3, <2>4, WokenFinite DEF NoLostWakeup
<1> QED
  BY <1>2, <1>3

LEMMA WakeupGetTask ==
  ASSUME TypeOK, NoLostWakeup, NEW w \in Workers, GetTask(w)
  PROVE  NoLostWakeup'
<1>1. PICK k \in DOMAIN tasks : /\ tasks' = SubSeq(tasks, k + 1, Len(tasks))
                               /\ getter' = [getter EXCEPT ![w] = "out"]
                               /\ InGet(w)
                               /\ closed' = closed
  BY DEF GetTask
<1>2. /\ Len(tasks') <= Len(tasks) - 1
      /\ Len(tasks) \in Nat
      /\ Len(tasks') \in Nat
  BY <1>1, DropPrefix DEF TypeOK
<1>3. /\ Waiting' = Waiting
      /\ Woken' = Woken \ {w}
  BY <1>1 DEF Waiting, Woken, InGet, TypeOK
<1>4. Cardinality(Woken') >= Cardinality(Woken) - 1
  <2>1. Cardinality(Woken \ {w}) = IF w \in Woken THEN Cardinality(Woken) - 1
                                                  ELSE Cardinality(Woken)
    BY WokenFinite, FS_RemoveElement
  <2> QED
    BY <1>3, <2>1, WokenFinite
<1>5. Cardinality(Woken') \in Nat
  BY <1>3, WokenFinite, FS_RemoveElement, FS_CardinalityType
<1> QED
  BY <1>1, <1>2, <1>3, <1>4, <1>5, WokenFinite DEF NoLostWakeup

LEMMA WakeupGetNothing ==
  ASSUME TypeOK, NoLostWakeup, NEW w \in Workers, GetWait(w) \/ GetClosed(w)
  PROVE  NoLostWakeup'
<1>1. Len(tasks') = 0 /\ closed' = closed
  BY DEF GetWait, GetClosed, GetNothing
<1>2. CASE GetWait(w)
  <2>1. IsFiniteSet(Woken') /\ Woken' \subseteq Woken
    BY <1>2, WokenFinite, FS_Subset DEF GetWait, GetNothing, Woken, TypeOK
  <2>2. Cardinality(Woken') \in Nat
    BY <2>1, FS_CardinalityType
  <2> QED
    BY <1>1, <1>2, <2>2 DEF GetWait, NoLostWakeup
<1>3. CASE GetClosed(w)
  <2>1. Waiting' = {}
    BY <1>3 DEF GetClosed, GetNothing, Waiting, NoLostWakeup, TypeOK
  <2> QED
    BY <2>1 DEF NoLostWakeup
<1> QED
  BY <1>2, <1>3

(* No wake-up is lost: while a worker sleeps in Get there are as many      *)
(* signalled workers as listed tasks, and after Close no worker sleeps.    *)
THEOREM WakeupsSuffice == Spec => []NoLostWakeup
<1>1. Init => NoLostWakeup
  BY DEF Init, NoLostWakeup, Waiting
<1>2. ASSUME TypeOK, NoLostWakeup, [Next]_qvars
      PROVE  NoLostWakeup'
  <2>1. ASSUME NEW t \in Tasks, AddAccepted(t)
        PROVE  NoLostWakeup'
    BY <1>2, <2>1, WakeupAdd
  <2>2. ASSUME NEW w \in Workers, Get(w)
        PROVE  NoLostWakeup'
    BY <1>2, <2>2, WakeupGetTask, WakeupGetNothing DEF Get
  <2>3. CASE Close
    <3>1. Waiting' = {}
      BY <1>2, <2>3 DEF Close, Waiting, TypeOK
    <3> QED
      BY <3>1 DEF NoLostWakeup
  <2>4. CASE UNCHANGED <<tasks, getter, closed>>
    BY <1>2, <2>4 DEF NoLostWakeup, Waiting, Woken
  <2> QED
    BY <1>2, <2>1, <2>2, <2>3, <2>4
       DEF Next, TaskStep, AddRefused, CancelApply, ContextDone, CancelFind,
           Done, qvars
<1> QED
  BY <1>1, <1>2, TypeCorrect, PTL DEF Spec

-----------------------------------------------------------------------------
(* Refinement. A worker in Get has no task, so that fewer tasks are running*)
(* than there are workers: held maps a part of the others onto Held.       *)
LEMMA FreeSlot ==
  ASSUME TypeOK, NEW w \in Workers, held[w] = None
  PROVE  Cardinality(Held) < Cardinality(Workers)
<1> DEFINE Busy == {v \in Workers : held[v] # None}
           f == [v \in Busy |-> held[v]]
<1>1. /\ IsFiniteSet(Workers \ {w})
      /\ Cardinality(Workers \ {w}) = Cardinality(Workers) - 1
      /\ Cardinality(Workers) \in Nat
  BY WorkersAssumption, FS_RemoveElement, FS_CardinalityType
     DEF WorkersAssumption
<1>2. Busy \subseteq Workers \ {w}
  OBVIOUS
<1>3. IsFiniteSet(Busy) /\ Cardinality(Busy) <= Cardinality(Workers \ {w})
  BY <1>1, <1>2, FS_Subset
<1>4. f \in Surjection(Busy, Held)
  BY DEF Surjection, Held
<1>5. Cardinality(Held) <= Cardinality(Busy) /\ IsFiniteSet(Held)
  BY <1>3, <1>4, FS_Surjection
<1>6. Cardinality(Held) \in Nat /\ Cardinality(Busy) \in Nat
  BY <1>3, <1>5, FS_CardinalityType
<1> QED
  BY <1>1, <1>3, <1>5, <1>6

(* The operators the pool borrows from the libraries are the same ones.    *)
LEMMA PoolCardinality == \A S : Pool!Cardinality(S) = Cardinality(S)
  BY DEF Pool!Cardinality, Cardinality

LEMMA PoolRange == \A f : Pool!Range(f) = Range(f)
  BY DEF Pool!Range, Range

LEMMA PoolAccept ==
  ASSUME TypeOK, IndexInv, NEW t \in Tasks, AddAccepted(t)
  PROVE  Pool!Accept(t)
<1>1. \A u \in Live : id[u] # id[t]
  BY LiveMapped DEF AddAccepted, Addable, TypeOK
<1> QED
  BY <1>1, PoolRange DEF AddAccepted, Addable, Pool!Accept, Pool!Live, Live, Held

LEMMA PoolStart ==
  ASSUME TypeOK, NEW w \in Workers, GetTask(w)
  PROVE  Pool!Start
<1>1. PICK k \in DOMAIN tasks :
        /\ held[w] = None
        /\ FirstLive(k)
        /\ tasks' = SubSeq(tasks, k + 1, Len(tasks))
        /\ held' = [held EXCEPT ![w] = tasks[k]]
        /\ UNCHANGED <<cancelled, closed>>
  BY DEF GetTask, InGet
<1>2. tasks[k] \in Tasks
  BY DEF TypeOK
<1>3. Held' = Held \cup {tasks[k]}
  <2>1. /\ held'[w] = tasks[k]
        /\ \A v \in Workers : v # w => held'[v] = held[v]
    BY <1>1 DEF TypeOK
  <2> QED
    BY <1>1, <1>2, <2>1 DEF Held
<1>4. Cardinality(Held) < Cardinality(Workers)
  BY <1>1, FreeSlot
<1> QED
  BY <1>1, <1>3, <1>4, PoolCardinality DEF Pool!Start, Pool!StartAt, FirstLive

LEMMA PoolDiscard ==
  ASSUME TypeOK, NEW w \in Workers, NEW next, GetNothing(w, next)
  PROVE  Pool!Discard \/ UNCHANGED Pool!vars
<1>1. /\ tasks' = <<>>
      /\ \A k \in DOMAIN tasks : tasks[k] \in cancelled
      /\ UNCHANGED <<cancelled, closed>>
      /\ Held' = Held
  BY DEF GetNothing, AllCancelled, Held
<1>2. CASE tasks = <<>>
  BY <1>1, <1>2 DEF Pool!vars
<1>3. CASE tasks # <<>>
  <2>1. Range(tasks) \subseteq cancelled
    BY <1>1, RangeElements DEF TypeOK
  <2> QED
    BY <1>1, <1>3, <2>1, PoolRange DEF Pool!Discard
<1> QED
  BY <1>2, <1>3

LEMMA PoolFinish ==
  ASSUME TypeOK, IndexInv, NEW w \in Workers, Done(w)
  PROVE  Pool!Finish(held[w]) /\ held[w] \in Tasks
<1>1. /\ held[w] # None
      /\ held' = [held EXCEPT ![w] = None]
      /\ UNCHANGED <<tasks, closed, cancelled>>
  BY DEF Done
<1>2. /\ held'[w] = None
      /\ \A v \in Workers : v # w => held'[v] = held[v] /\ held[v] # held[w]
  BY <1>1 DEF TypeOK, IndexInv, NoDuplicate
<1>3. Held' = Held \ {held[w]}
  BY <1>2 DEF Held
<1>4. held[w] \in Held /\ held[w] \in Tasks
  BY <1>1 DEF Held, TypeOK
<1> QED
  BY <1>1, <1>3, <1>4 DEF Pool!Finish

(* Every step of the queue is a step of the pool or leaves it alone. This  *)
(* is the safety part of ImplementsPool; the fairness part is checked.     *)
THEOREM ImplementsPoolSafety == Spec => Pool!Spec
<1>1. Init => Pool!Init
  BY DEF Init, Pool!Init, Held
<1>2. ASSUME TypeOK, IndexInv, [Next]_qvars
      PROVE  [Pool!Next]_(Pool!vars)
  <2>1. ASSUME NEW t \in Tasks, AddAccepted(t)
        PROVE  Pool!Next
    BY <1>2, <2>1, PoolAccept DEF Pool!Next
  <2>2. ASSUME NEW t \in Tasks, AddRefused(t)
        PROVE  UNCHANGED Pool!vars
    BY <2>2 DEF AddRefused, Pool!vars, Held
  <2>3. ASSUME NEW t \in Tasks, ContextDone(t)
        PROVE  Pool!Next
    <3>1. Pool!Cancel(t)
      BY <2>3 DEF ContextDone, Pool!Cancel, Held
    <3> QED
      BY <3>1 DEF Pool!Next
  <2>4. ASSUME NEW c \in Callers, CancelApply(c)
        PROVE  Pool!Next
    <3>1. Pool!Cancel(found[c]) /\ found[c] \in Tasks
      BY <1>2, <2>4 DEF CancelApply, Pool!Cancel, Held, TypeOK
    <3> QED
      BY <3>1 DEF Pool!Next
  <2>5. ASSUME NEW c \in Callers, NEW i \in IDs, CancelFind(c, i)
        PROVE  UNCHANGED Pool!vars
    BY <2>5 DEF CancelFind, Pool!vars, Held
  <2>6. ASSUME NEW w \in Workers, Get(w)
        PROVE  [Pool!Next]_(Pool!vars)
    BY <1>2, <2>6, PoolStart, PoolDiscard
       DEF Get, GetWait, GetClosed, Pool!Next
  <2>7. ASSUME NEW w \in Workers, Done(w)
        PROVE  Pool!Next
    BY <1>2, <2>7, PoolFinish DEF Pool!Next
  <2>8. CASE Close
    <3>1. Pool!Close
      BY <2>8 DEF Close, Pool!Close, Held
    <3> QED
      BY <3>1 DEF Pool!Next
  <2>9. CASE UNCHANGED qvars
    BY <2>9 DEF qvars, Pool!vars, Held
  <2> QED
    BY <1>2, <2>1, <2>2, <2>3, <2>4, <2>5, <2>6, <2>7, <2>8, <2>9
       DEF Next, TaskStep
<1> QED
  BY <1>1, <1>2, TypeCorrect, IndexCorrect, PTL DEF Spec, Pool!Spec
(* The indexes of the queue agree and no wake-up is lost: what a caller of the API and a worker *)
(* rely on together.                                                                            *)
THEOREM QueueCorrect == Spec => []QueueInv
<1>1. IndexInv /\ NoLostWakeup => QueueInv
  BY DEF QueueInv
<1> QED
  BY <1>1, IndexCorrect, WakeupsSuffice, PTL

=============================================================================
