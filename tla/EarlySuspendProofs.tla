------------------------- MODULE EarlySuspendProofs -------------------------
(* Proofs about EarlySuspend, for every set of handlers and all levels.    *)
EXTENDS EarlySuspend, TLAPS, WellFoundedInduction

-----------------------------------------------------------------------------
(* The inductive invariant.                                                *)

\* The worker holds early_suspend_lock exactly while it calls handlers, and a
\* registration that holds it has seen SUSPENDED.
MutexInv ==
  /\ mutex = Worker <=> pc \in {"early_call", "late_call"}
  /\ mutex # Worker => pos = 0
  /\ mutex \in Handlers => suspended

\* A handler is on the list once, and the list is sorted by level.
ListInv ==
  \A i, j \in 1 .. Len(handlers) :
    /\ handlers[i] = handlers[j] => i = j
    /\ i < j => Level[handlers[i]] <= Level[handlers[j]]

\* How far the calls have come, for each holder of the mutex.
CallInv ==
  /\ mutex = Free =>
       \A i \in 1 .. Len(handlers) :
         down[handlers[i]] = IF suspended THEN 1 ELSE 0
  /\ mutex \in Handlers =>
       \A i \in 1 .. Len(handlers) :
         down[handlers[i]] = IF handlers[i] = mutex THEN 0 ELSE 1
  /\ pc = "early_call" =>
       /\ suspended /\ pos >= 1
       /\ \A i \in 1 .. Len(handlers) :
            down[handlers[i]] = IF i < pos THEN 1 ELSE 0
  /\ pc = "late_call" =>
       /\ ~suspended /\ pos <= Len(handlers)
       /\ \A i \in 1 .. Len(handlers) :
            down[handlers[i]] = IF i <= pos THEN 1 ELSE 0

\* The system falls asleep without main_wake_lock and nobody takes it then.
AsleepInv == pc = "asleep" => ~main_held

\* What main_wake_lock stands for.
HoldInv == OnMeansHeld /\ ReleasedMeansDown /\ AsleepInv

-----------------------------------------------------------------------------
(* The list operations.                                                    *)

\* The natural numbers have no infinite descent: a set of positions that is
\* not empty has a first one.
LEMMA FirstPosition ==
  ASSUME NEW S \in SUBSET Nat, S # {}
  PROVE  \E i \in S : \A j \in S : i <= j
<1>1. PICK i \in S : \A j \in S : ~(<<j, i>> \in OpToRel(<, Nat))
  BY NatLessThanWellFounded, WFMin
<1>2. \A j \in S : ~(j < i)
  BY <1>1 DEF OpToRel
<1>3. \A j \in S : i <= j
  BY <1>2
<1> QED
  BY <1>3

\* register_early_suspend finds a position behind every handler of a level
\* that is not greater, up to the first of a greater level.
LEMMA InsertionPosition ==
  ASSUME NEW list \in Seq(Handlers), NEW h \in Handlers
  PROVE  /\ Insertion(list, h) \in 1 .. (Len(list) + 1)
         /\ \A j \in 1 .. Len(list) :
              j < Insertion(list, h) => Level[list[j]] <= Level[h]
         /\ Insertion(list, h) <= Len(list) =>
              Level[list[Insertion(list, h)]] > Level[h]
<1> DEFINE greater == {i \in 1 .. Len(list) : Level[list[i]] > Level[h]}
<1>1. \A j \in 1 .. Len(list) : Level[list[j]] \in Nat
  BY LevelAssumption
<1>2. CASE greater = {}
  BY <1>1, <1>2, LevelAssumption DEF Insertion
<1>3. CASE greater # {}
  <2>0. greater \in SUBSET Nat
    OBVIOUS
  <2>1. \E i \in greater : \A j \in greater : i <= j
    <3> HIDE DEF greater
    <3> QED
      BY <1>3, <2>0, FirstPosition
  <2>2. Insertion(list, h) = CHOOSE i \in greater : \A j \in greater : i <= j
    BY <1>3 DEF Insertion
  <2>3. /\ Insertion(list, h) \in greater
        /\ \A j \in greater : Insertion(list, h) <= j
    BY <2>1, <2>2
  <2> QED
    BY <1>1, <2>3, LevelAssumption
<1> QED
  BY <1>2, <1>3

\* The list after an insertion: the old handlers and the new one, in order.
LEMMA InsertList ==
  ASSUME NEW list \in Seq(Handlers), NEW h \in Handlers
  PROVE  /\ Insert(list, h) \in Seq(Handlers)
         /\ Len(Insert(list, h)) = Len(list) + 1
         /\ \A j \in 1 .. (Len(list) + 1) :
              Insert(list, h)[j] = IF j < Insertion(list, h) THEN list[j]
                                   ELSE IF j = Insertion(list, h) THEN h
                                        ELSE list[j - 1]
<1>1. Insertion(list, h) \in 1 .. (Len(list) + 1)
  BY InsertionPosition
<1>2. \A j \in 1 .. (Len(list) + 1) :
        (IF j < Insertion(list, h) THEN list[j]
         ELSE IF j = Insertion(list, h) THEN h ELSE list[j - 1]) \in Handlers
  BY <1>1
<1>3. Len(list) + 1 \in Nat
  OBVIOUS
<1> QED
  BY <1>2, <1>3 DEF Insert

\* An insertion keeps the list free of duplicates and sorted by level.
LEMMA InsertKeepsList ==
  ASSUME NEW h \in Handlers, handlers \in Seq(Handlers), ListInv,
         h \notin Listed, handlers' = Insert(handlers, h)
  PROVE  ListInv'
<1> DEFINE n == Insertion(handlers, h)
<1>1. /\ Len(handlers') = Len(handlers) + 1
      /\ \A j \in 1 .. (Len(handlers) + 1) :
           handlers'[j] = IF j < n THEN handlers[j]
                          ELSE IF j = n THEN h ELSE handlers[j - 1]
  BY InsertList
<1>2. /\ n \in 1 .. (Len(handlers) + 1)
      /\ \A j \in 1 .. Len(handlers) :
           j < n => Level[handlers[j]] <= Level[h]
      /\ n <= Len(handlers) => Level[handlers[n]] > Level[h]
  BY InsertionPosition
<1>3. /\ Level[h] \in Nat
      /\ \A j \in 1 .. Len(handlers) : Level[handlers[j]] \in Nat
  BY LevelAssumption
<1>4. \A j \in 1 .. Len(handlers) : handlers[j] # h
  BY DEF Listed
<1>5. \A j \in 1 .. Len(handlers) : j >= n => Level[handlers[j]] >= Level[h]
  BY <1>2, <1>3 DEF ListInv
<1> HIDE DEF n
<1> SUFFICES ASSUME NEW i \in 1 .. Len(handlers'), NEW j \in 1 .. Len(handlers')
             PROVE  /\ handlers'[i] = handlers'[j] => i = j
                    /\ i < j => Level[handlers'[i]] <= Level[handlers'[j]]
  BY DEF ListInv
<1> DEFINE old(k) == IF k < n THEN k ELSE k - 1
<1>6. \A k \in 1 .. Len(handlers') :
        k # n => old(k) \in 1 .. Len(handlers) /\ handlers'[k] = handlers[old(k)]
  BY <1>1, <1>2
<1>7. handlers'[n] = h
  BY <1>1, <1>2
<1>8. handlers'[i] = handlers'[j] => i = j
  <2>1. CASE i = n \/ j = n
    BY <2>1, <1>4, <1>6, <1>7
  <2>2. CASE i # n /\ j # n
    <3>1. handlers'[i] = handlers'[j] => old(i) = old(j)
      BY <2>2, <1>6 DEF ListInv
    <3> QED
      BY <3>1, <2>2, <1>1, <1>2
  <2> QED
    BY <2>1, <2>2
<1>9. ASSUME i < j
      PROVE  Level[handlers'[i]] <= Level[handlers'[j]]
  <2>1. CASE i = n
    <3>1. old(j) >= n /\ j # n
      BY <2>1, <1>1, <1>2, <1>9
    <3> QED
      BY <2>1, <3>1, <1>3, <1>5, <1>6, <1>7
  <2>2. CASE j = n
    <3>1. old(i) < n /\ i # n
      BY <2>2, <1>1, <1>2, <1>9
    <3> QED
      BY <2>2, <3>1, <1>2, <1>3, <1>6, <1>7
  <2>3. CASE i # n /\ j # n
    <3>1. old(i) < old(j)
      BY <2>3, <1>1, <1>2, <1>9
    <3> QED
      BY <2>3, <3>1, <1>6 DEF ListInv
  <2> QED
    BY <2>1, <2>2, <2>3
<1> QED
  BY <1>8, <1>9

\* list_del leaves the other handlers, in their order.
LEMMA DeleteList ==
  ASSUME NEW h \in Handlers, handlers \in Seq(Handlers), h \in Listed
  PROVE  /\ list_del(handlers, h) \in Seq(Handlers)
         /\ Len(list_del(handlers, h)) = Len(handlers) - 1
         /\ Len(handlers) \in Nat \ {0}
         /\ \E n \in 1 .. Len(handlers) :
              \A j \in 1 .. (Len(handlers) - 1) :
                list_del(handlers, h)[j] =
                  IF j < n THEN handlers[j] ELSE handlers[j + 1]
<1> DEFINE n == CHOOSE k \in 1 .. Len(handlers) : handlers[k] = h
<1>1. \E k \in 1 .. Len(handlers) : handlers[k] = h
  BY DEF Listed
<1>2. n \in 1 .. Len(handlers)
  BY <1>1
<1>3. list_del(handlers, h) =
        [j \in 1 .. (Len(handlers) - 1) |->
           IF j < n THEN handlers[j] ELSE handlers[j + 1]]
  BY DEF list_del
<1> HIDE DEF n
<1>4. Len(handlers) \in Nat \ {0} /\ Len(handlers) - 1 \in Nat
  BY <1>2
<1>5. \A j \in 1 .. (Len(handlers) - 1) :
        (IF j < n THEN handlers[j] ELSE handlers[j + 1]) \in Handlers
  BY <1>2, <1>4
<1> QED
  BY <1>2, <1>3, <1>4, <1>5

\* A removal keeps the list free of duplicates and sorted by level.
LEMMA DeleteKeepsList ==
  ASSUME NEW h \in Handlers, handlers \in Seq(Handlers), ListInv, h \in Listed,
         handlers' = list_del(handlers, h)
  PROVE  ListInv'
<1>1. PICK n \in 1 .. Len(handlers) :
        \A j \in 1 .. (Len(handlers) - 1) :
          handlers'[j] = IF j < n THEN handlers[j] ELSE handlers[j + 1]
  BY DeleteList
<1>2. Len(handlers') = Len(handlers) - 1 /\ Len(handlers) \in Nat
  BY DeleteList
<1> DEFINE old(k) == IF k < n THEN k ELSE k + 1
<1>3. \A k \in 1 .. Len(handlers') :
        old(k) \in 1 .. Len(handlers) /\ handlers'[k] = handlers[old(k)]
  BY <1>1, <1>2
<1> SUFFICES ASSUME NEW i \in 1 .. Len(handlers'), NEW j \in 1 .. Len(handlers')
             PROVE  /\ handlers'[i] = handlers'[j] => i = j
                    /\ i < j => Level[handlers'[i]] <= Level[handlers'[j]]
  BY DEF ListInv
<1>4. (old(i) = old(j) => i = j) /\ (i < j => old(i) < old(j))
  BY <1>2
<1> HIDE DEF old
<1> QED
  BY <1>3, <1>4 DEF ListInv

-----------------------------------------------------------------------------
(* Types and the mutex.                                                    *)

\* Queueing an item keeps every item on the list at most once.
LEMMA QueueType ==
  ASSUME TypeOK, NEW w \in Works, worklist' = queue_work(worklist, w)
  PROVE  /\ worklist' \in Seq(Works)
         /\ \A i, j \in 1 .. Len(worklist') : worklist'[i] = worklist'[j] => i = j
<1>1. CASE \E i \in 1 .. Len(worklist) : worklist[i] = w
  BY <1>1 DEF TypeOK, queue_work
<1>2. CASE ~\E i \in 1 .. Len(worklist) : worklist[i] = w
  <2>1. worklist' = Append(worklist, w)
    BY <1>2 DEF queue_work
  <2>2. worklist \in Seq(Works)
    BY DEF TypeOK
  <2>3. /\ worklist' \in Seq(Works)
        /\ Len(worklist') = Len(worklist) + 1
        /\ \A i \in 1 .. Len(worklist) : worklist'[i] = worklist[i]
        /\ worklist'[Len(worklist) + 1] = w
    BY <2>1, <2>2
  <2>4. \A i, j \in 1 .. Len(worklist') : worklist'[i] = worklist'[j] => i = j
    BY <1>2, <2>2, <2>3 DEF TypeOK
  <2> QED
    BY <2>3, <2>4
<1> QED
  BY <1>1, <1>2

\* Taking the first item keeps every item on the list at most once.
LEMMA TailType ==
  ASSUME TypeOK, worklist # <<>>, worklist' = Tail(worklist)
  PROVE  /\ worklist' \in Seq(Works)
         /\ \A i, j \in 1 .. Len(worklist') : worklist'[i] = worklist'[j] => i = j
<1>1. worklist \in Seq(Works)
  BY DEF TypeOK
<1>2. /\ worklist' \in Seq(Works)
      /\ Len(worklist') = Len(worklist) - 1
      /\ \A i \in 1 .. Len(worklist') : worklist'[i] = worklist[i + 1]
  BY <1>1
<1> QED
  BY <1>1, <1>2 DEF TypeOK

\* The boot state satisfies the whole invariant.
LEMMA InitInv == Init => TypeOK /\ MutexInv /\ ListInv /\ CallInv /\ HoldInv
<1> SUFFICES ASSUME Init
             PROVE  TypeOK /\ MutexInv /\ ListInv /\ CallInv /\ HoldInv
  OBVIOUS
<1> USE HandlersAssumption DEF Init, Free, Worker
<1>1. TypeOK
  <2>1. /\ handlers \in Seq(Handlers) /\ worklist \in Seq(Works)
        /\ \A i, j \in 1 .. Len(worklist) : worklist[i] = worklist[j] => i = j
        /\ pos \in 0 .. (Len(handlers) + 1)
    OBVIOUS
  <2>2. down \in [Handlers -> Int]
    OBVIOUS
  <2> QED
    BY <2>1, <2>2 DEF TypeOK, Places
<1>2. MutexInv
  BY DEF MutexInv
<1>3. ListInv /\ CallInv
  BY DEF ListInv, CallInv
<1>4. HoldInv
  BY DEF HoldInv, OnMeansHeld, ReleasedMeansDown, AsleepInv
<1> QED
  BY <1>1, <1>2, <1>3, <1>4

\* Every step keeps the types, and who holds the mutex when.
LEMMA TypeStep ==
  ASSUME TypeOK, MutexInv, [Next]_vars
  PROVE  TypeOK' /\ MutexInv'
<1> USE HandlersAssumption DEF Free, Worker, MutexInv
<1>1. ASSUME NEW s \in {"on"} \cup valid_states, state_store(s)
      PROVE  TypeOK' /\ MutexInv'
  <2>1. \/ worklist' = worklist
        \/ \E w \in Works : worklist' = queue_work(worklist, w)
    BY <1>1 DEF state_store, request_suspend_state, Works
  <2>2. /\ worklist' \in Seq(Works)
        /\ \A i, j \in 1 .. Len(worklist') : worklist'[i] = worklist'[j] => i = j
    BY <2>1, QueueType DEF TypeOK
  <2>3. requested' \in BOOLEAN /\ main_held' \in BOOLEAN
    BY <1>1 DEF state_store, request_suspend_state, TypeOK
  <2>4. MutexInv'
    BY <1>1 DEF state_store
  <2> QED
    BY <1>1, <2>2, <2>3, <2>4
    DEF state_store, request_suspend_state, valid_states, TypeOK
<1>2. ASSUME NEW h \in Handlers, register_early_suspend(h)
      PROVE  TypeOK' /\ MutexInv'
  <2>1. handlers' \in Seq(Handlers)
    BY <1>2, InsertList DEF register_early_suspend, TypeOK
  <2>2. MutexInv' /\ mutex' \in {Free, Worker} \cup Handlers
    BY <1>2 DEF register_early_suspend, TypeOK
  <2>3. down' \in [Handlers -> Int]
    BY <1>2 DEF register_early_suspend, TypeOK
  <2>4. pos' \in 0 .. (Len(handlers') + 1)
    BY <1>2, <2>1 DEF register_early_suspend, TypeOK
  <2> QED
    BY <1>2, <2>1, <2>2, <2>3, <2>4
    DEF register_early_suspend, requestVars, TypeOK
<1>3. ASSUME NEW h \in Handlers, register_call(h)
      PROVE  TypeOK' /\ MutexInv'
  <2>1. MutexInv'
    BY <1>3 DEF register_call, TypeOK
  <2>2. down' \in [Handlers -> Int]
    BY <1>3 DEF register_call, TypeOK
  <2> QED
    BY <1>3, <2>1, <2>2 DEF register_call, requestVars, TypeOK
<1>4. ASSUME NEW h \in Handlers, unregister_early_suspend(h)
      PROVE  TypeOK' /\ MutexInv'
  <2>1. handlers' \in Seq(Handlers)
    BY <1>4, DeleteList DEF unregister_early_suspend, TypeOK
  <2>2. MutexInv'
    BY <1>4 DEF unregister_early_suspend, TypeOK
  <2>3. pos' \in 0 .. (Len(handlers') + 1)
    BY <1>4, <2>1 DEF unregister_early_suspend, TypeOK
  <2> QED
    BY <1>4, <2>1, <2>2, <2>3 DEF unregister_early_suspend, requestVars, TypeOK
<1>5. CASE run_workqueue
  <2>1. /\ worklist' \in Seq(Works)
        /\ \A i, j \in 1 .. Len(worklist') : worklist'[i] = worklist'[j] => i = j
    BY <1>5, TailType DEF run_workqueue
  <2>2. MutexInv' /\ pc' \in Places
    BY <1>5 DEF run_workqueue, Places
  <2> QED
    BY <1>5, <2>1, <2>2 DEF run_workqueue, requestVars, TypeOK
<1>6. CASE early_suspend \/ late_resume
  <2>1. MutexInv' /\ pc' \in Places
    BY <1>6 DEF early_suspend, late_resume, Places, TypeOK
  <2>2. pos' \in 0 .. (Len(handlers') + 1)
    BY <1>6 DEF early_suspend, late_resume, TypeOK
  <2>3. mutex' \in {Free, Worker} \cup Handlers /\ suspended' \in BOOLEAN
    BY <1>6 DEF early_suspend, late_resume, TypeOK
  <2> QED
    BY <1>6, <2>1, <2>2, <2>3 DEF early_suspend, late_resume, requestVars, TypeOK
<1>7. CASE early_suspend_call \/ late_resume_call
  <2>1. MutexInv' /\ pc' \in Places
    BY <1>7 DEF early_suspend_call, late_resume_call, Places, TypeOK
  <2>2. pos' \in 0 .. (Len(handlers') + 1)
    BY <1>7 DEF early_suspend_call, late_resume_call, TypeOK
  <2>3. mutex' \in {Free, Worker} \cup Handlers
    BY <1>7 DEF early_suspend_call, late_resume_call, TypeOK
  <2>4. down' \in [Handlers -> Int]
    BY <1>7 DEF early_suspend_call, late_resume_call, TypeOK
  <2> QED
    BY <1>7, <2>1, <2>2, <2>3, <2>4
    DEF early_suspend_call, late_resume_call, requestVars, TypeOK
<1>8. CASE suspend \/ pm_suspend \/ wake
  <2>1. MutexInv' /\ pc' \in Places
    BY <1>8 DEF suspend, pm_suspend, wake, Places
  <2> QED
    BY <1>8, <2>1 DEF suspend, pm_suspend, wake, requestVars, TypeOK
<1>9. CASE queue_suspend
  <2>1. /\ worklist' \in Seq(Works)
        /\ \A i, j \in 1 .. Len(worklist') : worklist'[i] = worklist'[j] => i = j
    BY <1>9, QueueType DEF queue_suspend, Works
  <2>2. MutexInv'
    BY <1>9 DEF queue_suspend
  <2> QED
    BY <1>9, <2>1, <2>2 DEF queue_suspend, requestVars, TypeOK
<1>10. CASE early_suspend_done
  <2>1. worklist' = worklist \/ worklist' = queue_work(worklist, "suspend")
    BY <1>10 DEF early_suspend_done
  <2>2. /\ worklist' \in Seq(Works)
        /\ \A i, j \in 1 .. Len(worklist') : worklist'[i] = worklist'[j] => i = j
    BY <2>1, QueueType DEF Works, TypeOK
  <2>3. MutexInv' /\ pc' \in Places
    BY <1>10 DEF early_suspend_done, Places
  <2>4. main_held' \in BOOLEAN
    BY <1>10 DEF early_suspend_done, TypeOK
  <2> QED
    BY <1>10, <2>2, <2>3, <2>4 DEF early_suspend_done, requestVars, TypeOK
<1>11. CASE UNCHANGED vars
  BY <1>11 DEF vars, TypeOK
<1> QED
  BY <1>1, <1>2, <1>3, <1>4, <1>5, <1>6, <1>7, <1>8, <1>9, <1>10, <1>11
  DEF Next, Request, Registration, Work

-----------------------------------------------------------------------------
(* main_wake_lock and the calls of the handlers.                           *)

\* Every step keeps what main_wake_lock stands for.
LEMMA HoldStep ==
  ASSUME TypeOK, HoldInv, [Next]_vars
  PROVE  HoldInv'
<1> USE DEF HoldInv, OnMeansHeld, ReleasedMeansDown, AsleepInv, TypeOK
<1>1. ASSUME NEW s \in {"on"} \cup valid_states, state_store(s)
      PROVE  HoldInv'
  BY <1>1 DEF state_store, request_suspend_state, Awake
<1>2. ASSUME NEW h \in Handlers,
             \/ register_early_suspend(h) \/ register_call(h)
             \/ unregister_early_suspend(h)
      PROVE  HoldInv'
  BY <1>2 DEF register_early_suspend, register_call, unregister_early_suspend,
              requestVars
<1>3. CASE run_workqueue
  BY <1>3 DEF run_workqueue, requestVars
<1>4. CASE early_suspend \/ late_resume
  BY <1>4 DEF early_suspend, late_resume, requestVars
<1>5. CASE early_suspend_call \/ late_resume_call
  BY <1>5 DEF early_suspend_call, late_resume_call, requestVars
<1>6. CASE early_suspend_done
  BY <1>6 DEF early_suspend_done, requestVars
<1>7. CASE suspend \/ pm_suspend \/ wake \/ queue_suspend
  BY <1>7 DEF suspend, pm_suspend, wake, queue_suspend, requestVars
<1>8. CASE UNCHANGED vars
  BY <1>8 DEF vars
<1> QED
  BY <1>1, <1>2, <1>3, <1>4, <1>5, <1>6, <1>7, <1>8
  DEF Next, Request, Registration, Work

\* Every step keeps the list sorted and the account of the calls.
LEMMA CallStep ==
  ASSUME TypeOK, MutexInv, ListInv, CallInv, [Next]_vars
  PROVE  ListInv' /\ CallInv'
<1> USE HandlersAssumption DEF Free, Worker
<1>0. /\ handlers \in Seq(Handlers)
      /\ \A i \in 1 .. Len(handlers) : handlers[i] \in Handlers
      /\ down \in [Handlers -> Int]
  BY DEF TypeOK
<1>1. ASSUME NEW h \in Handlers, register_early_suspend(h)
      PROVE  ListInv' /\ CallInv'
  <2>1. ListInv'
    BY <1>0, <1>1, InsertKeepsList DEF register_early_suspend
  <2>2. \A i \in 1 .. Len(handlers') :
          handlers'[i] = h \/ \E j \in 1 .. Len(handlers) : handlers'[i] = handlers[j]
    <3>1. /\ Len(handlers') = Len(handlers) + 1
          /\ \A j \in 1 .. (Len(handlers) + 1) :
               handlers'[j] = IF j < Insertion(handlers, h) THEN handlers[j]
                              ELSE IF j = Insertion(handlers, h) THEN h
                                   ELSE handlers[j - 1]
      BY <1>0, <1>1, InsertList DEF register_early_suspend
    <3>2. Insertion(handlers, h) \in 1 .. (Len(handlers) + 1)
      BY <1>0, InsertionPosition
    <3> QED
      BY <1>0, <3>1, <3>2
  <2>3. \A i \in 1 .. Len(handlers) : handlers[i] # h
    BY <1>1 DEF register_early_suspend, Listed
  <2>4. /\ down'[h] = 0
        /\ \A i \in 1 .. Len(handlers) :
             down'[handlers[i]] = IF suspended THEN 1 ELSE 0
    BY <1>0, <1>1, <2>3 DEF register_early_suspend, CallInv
  <2>5. pc' = pc /\ pc \notin {"early_call", "late_call"}
    BY <1>1 DEF register_early_suspend, MutexInv
  <2>6. suspended' = suspended /\ mutex' = IF suspended THEN h ELSE Free
    BY <1>1 DEF register_early_suspend
  <2>7. CallInv'
    BY <2>2, <2>3, <2>4, <2>5, <2>6 DEF CallInv
  <2> QED
    BY <2>1, <2>7
<1>2. ASSUME NEW h \in Handlers, register_call(h)
      PROVE  ListInv' /\ CallInv'
  <2>1. ListInv'
    BY <1>2 DEF register_call, ListInv
  <2>2. pc' = pc /\ pc \notin {"early_call", "late_call"} /\ suspended
    BY <1>2 DEF register_call, MutexInv
  <2>3. \A i \in 1 .. Len(handlers) : down'[handlers[i]] = 1
    BY <1>0, <1>2 DEF register_call, CallInv
  <2>4. CallInv'
    BY <1>2, <2>2, <2>3 DEF register_call, CallInv
  <2> QED
    BY <2>1, <2>4
<1>3. ASSUME NEW h \in Handlers, unregister_early_suspend(h)
      PROVE  ListInv' /\ CallInv'
  <2>1. ListInv'
    BY <1>0, <1>3, DeleteKeepsList DEF unregister_early_suspend
  <2>2. \A i \in 1 .. Len(handlers') :
          \E j \in 1 .. Len(handlers) : handlers'[i] = handlers[j]
    <3>1. PICK n \in 1 .. Len(handlers) :
            \A j \in 1 .. (Len(handlers) - 1) :
              handlers'[j] = IF j < n THEN handlers[j] ELSE handlers[j + 1]
      BY <1>0, <1>3, DeleteList DEF unregister_early_suspend
    <3>2. Len(handlers') = Len(handlers) - 1 /\ Len(handlers) \in Nat
      BY <1>0, <1>3, DeleteList DEF unregister_early_suspend
    <3> QED
      BY <3>1, <3>2
  <2>3. pc' = pc /\ pc \notin {"early_call", "late_call"}
    BY <1>3 DEF unregister_early_suspend, MutexInv
  <2>4. CallInv'
    BY <1>3, <2>2, <2>3 DEF unregister_early_suspend, CallInv
  <2> QED
    BY <2>1, <2>4
<1>4. CASE early_suspend \/ late_resume
  <2>1. ListInv'
    BY <1>4 DEF early_suspend, late_resume, ListInv
  <2>2. CallInv'
    BY <1>0, <1>4 DEF early_suspend, late_resume, CallInv, MutexInv, TypeOK
  <2> QED
    BY <2>1, <2>2
<1>5. CASE early_suspend_call
  <2>1. ListInv'
    BY <1>5 DEF early_suspend_call, ListInv
  <2>2. CASE pos <= Len(handlers)
    <3>1. pos \in 1 .. Len(handlers)
      BY <1>0, <1>5, <2>2 DEF TypeOK, CallInv, early_suspend_call
    <3>2. \A i \in 1 .. Len(handlers) :
            down'[handlers[i]] = IF i < pos' THEN 1 ELSE 0
      BY <1>0, <1>5, <2>2, <3>1 DEF early_suspend_call, CallInv, ListInv
    <3> QED
      BY <1>5, <2>1, <2>2, <3>1, <3>2 DEF early_suspend_call, CallInv, MutexInv
  <2>3. CASE pos > Len(handlers)
    BY <1>0, <1>5, <2>1, <2>3 DEF early_suspend_call, CallInv, TypeOK
  <2> QED
    BY <1>0, <2>2, <2>3 DEF TypeOK
<1>6. CASE late_resume_call
  <2>1. ListInv'
    BY <1>6 DEF late_resume_call, ListInv
  <2>2. CASE pos >= 1
    <3>1. pos \in 1 .. Len(handlers)
      BY <1>0, <1>6, <2>2 DEF TypeOK, CallInv, late_resume_call
    <3>2. \A i \in 1 .. Len(handlers) :
            down'[handlers[i]] = IF i <= pos' THEN 1 ELSE 0
      BY <1>0, <1>6, <2>2, <3>1 DEF late_resume_call, CallInv, ListInv
    <3> QED
      BY <1>6, <2>1, <2>2, <3>1, <3>2 DEF late_resume_call, CallInv, MutexInv
  <2>3. CASE pos < 1
    BY <1>0, <1>6, <2>1, <2>3 DEF late_resume_call, CallInv, TypeOK
  <2> QED
    BY <1>0, <2>2, <2>3 DEF TypeOK
<1>7. CASE \/ \E s \in {"on"} \cup valid_states : state_store(s)
           \/ run_workqueue \/ early_suspend_done \/ suspend \/ pm_suspend
           \/ wake \/ queue_suspend \/ UNCHANGED vars
  <2>1. /\ UNCHANGED <<handlers, down, mutex, suspended, pos>>
        /\ pc' \in {"early_call", "late_call"} => pc' = pc
    BY <1>7 DEF state_store, run_workqueue, early_suspend_done, suspend,
                pm_suspend, wake, queue_suspend, vars
  <2> QED
    BY <2>1 DEF ListInv, CallInv
<1> QED
  BY <1>1, <1>2, <1>3, <1>4, <1>5, <1>6, <1>7
  DEF Next, Request, Registration, Work

-----------------------------------------------------------------------------
(* The theorems.                                                           *)

\* The whole invariant, of which the theorems below are consequences.
IInv == TypeOK /\ MutexInv /\ ListInv /\ CallInv /\ HoldInv

\* Every reachable state satisfies the inductive invariant.
LEMMA Invariance == Spec => []IInv
<1>1. Init => IInv
  BY InitInv DEF IInv
<1>2. IInv /\ [Next]_vars => IInv'
  BY TypeStep, HoldStep, CallStep DEF IInv
<1> QED
  BY <1>1, <1>2, PTL DEF Spec

\* The variables of early suspend keep their types and no work item is queued
\* twice.
THEOREM TypesCorrect == Spec => []TypeOK
<1>1. IInv => TypeOK
  BY DEF IInv
<1> QED
  BY <1>1, Invariance, PTL

\* While the user wants the system on, main_wake_lock is held, for every
\* interleaving of requests with early_suspend and late_resume.
THEOREM OnHolds == Spec => []OnMeansHeld
<1>1. IInv => OnMeansHeld
  BY DEF IInv, HoldInv
<1> QED
  BY <1>1, Invariance, PTL

\* main_wake_lock is released only after the handlers have been called.
THEOREM ReleaseIsLate == Spec => []ReleasedMeansDown
<1>1. IInv => ReleasedMeansDown
  BY DEF IInv, HoldInv
<1> QED
  BY <1>1, Invariance, PTL

\* Whoever holds the mutex, every listed handler is suspended once or not.
LEMMA CallsInvariant == IInv => CallsAlternate
<1> SUFFICES ASSUME IInv, NEW h \in Listed PROVE down[h] \in {0, 1}
  BY DEF CallsAlternate
<1>1. PICK i \in 1 .. Len(handlers) : h = handlers[i]
  BY DEF Listed
<1>2. mutex = Free \/ mutex \in Handlers \/ pc \in {"early_call", "late_call"}
  BY DEF IInv, TypeOK, MutexInv
<1> QED
  BY <1>1, <1>2 DEF IInv, CallInv

\* No handler is suspended twice or resumed twice.
THEOREM CallsCorrect == Spec => []CallsAlternate
BY CallsInvariant, Invariance, PTL

\* Between two runs of calls the handlers agree with SUSPENDED, also the ones
\* registered while the system was suspended.
THEOREM HandlersAgree == Spec => []HandlersFollowState
<1>1. IInv => HandlersFollowState
  BY DEF IInv, CallInv, HandlersFollowState, Listed, TypeOK
<1> QED
  BY <1>1, Invariance, PTL

\* The system sleeps only with its handlers suspended.
LEMMA AsleepInvariant == IInv => AsleepMeansDown
<1> SUFFICES ASSUME IInv, pc = "asleep", NEW h \in Listed \ {mutex}
             PROVE  down[h] = 1
  BY DEF AsleepMeansDown
<1>1. suspended
  BY DEF IInv, HoldInv, AsleepInv, ReleasedMeansDown, TypeOK
<1>2. mutex = Free \/ mutex \in Handlers
  BY DEF IInv, TypeOK, MutexInv
<1>3. PICK i \in 1 .. Len(handlers) : h = handlers[i]
  BY DEF Listed
<1> QED
  BY <1>1, <1>2, <1>3 DEF IInv, CallInv

\* Early suspend has been completed whenever the system sleeps.
THEOREM AsleepIsDown == Spec => []AsleepMeansDown
BY AsleepInvariant, Invariance, PTL

\* In the middle of the calls a handler of a smaller level is down first and
\* up last, because the list is sorted and the calls go along it.
LEMMA OrderInvariant == IInv => LevelOrder
<1> SUFFICES ASSUME IInv, mutex = Worker, NEW h \in Listed, NEW k \in Listed,
                    Level[h] < Level[k], down[k] = 1
             PROVE  down[h] = 1
  BY DEF LevelOrder
<1>0. /\ handlers \in Seq(Handlers) /\ Level[h] \in Nat /\ Level[k] \in Nat
      /\ pos \in Nat
  BY LevelAssumption DEF IInv, TypeOK, Listed
<1>1. PICK i \in 1 .. Len(handlers) : h = handlers[i]
  BY DEF Listed
<1>2. PICK j \in 1 .. Len(handlers) : k = handlers[j]
  BY DEF Listed
<1>3. i < j
  <2>1. ~(j < i)
    BY <1>0, <1>1, <1>2 DEF IInv, ListInv
  <2>2. i # j
    BY <1>0, <1>1, <1>2
  <2> QED
    BY <1>0, <2>1, <2>2
<1>4. pc \in {"early_call", "late_call"}
  BY DEF IInv, MutexInv
<1> QED
  BY <1>0, <1>1, <1>2, <1>3, <1>4 DEF IInv, CallInv

\* The handlers are suspended in the order of their levels and resumed in the
\* opposite order, however they were registered.
THEOREM LevelsRespected == Spec => []LevelOrder
BY OrderInvariant, Invariance, PTL
=============================================================================
