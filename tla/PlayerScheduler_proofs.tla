------------------------ MODULE PlayerScheduler_proofs ------------------------
(***************************************************************************)
(* Proofs about PlayerScheduler for every number of clients and tasks.      *)
(* The flags and the other variables are typed apart: the SMT backend keeps *)
(* Boolean-valued variables and the rest in different sorts.                *)
(***************************************************************************)
EXTENDS PlayerScheduler, SequenceTheorems, TLAPS

LEMMA FlagsTyping == FlagsOK /\ DataOK /\ [Next]_vars => FlagsOK'
<1> SUFFICES ASSUME FlagsOK, DataOK, [Next]_vars PROVE FlagsOK'
  OBVIOUS
<1> USE DEF FlagsOK, queueVars, workerVars, lockVars, callVars, clientVars
<1>1. CASE Worker \/ WorkerSpuriousWake
  BY <1>1 DEF Worker, WorkerEnterLoop, WorkerLockEx, WorkerTakeTask,
              WorkerFindsNothing, WorkerFinishTask, WorkerSpuriousWake
<1>2. ASSUME NEW c \in Clients,
             SchedulePush(c) \/ ScheduleSkip(c) \/ ScheduleTest(c)
               \/ \E id \in DEFAULT..(MaxId - 1) : RemoveTask(c, id)
      PROVE FlagsOK'
  BY <1>2 DEF SchedulePush, ScheduleSkip, ScheduleTest, RemoveTask
<1>3. ASSUME NEW c \in Clients,
             ExLock(c) \/ ExLockThrows(c) \/ SetLockOut(c) \/ RemoveAllTasks(c)
               \/ ExUnlock(c) \/ ExUnlockThrows(c) \/ ClearLockOut(c)
      PROVE FlagsOK'
  BY <1>3 DEF ExLock, ExLockThrows, SetLockOut, RemoveAllTasks, EmptyQueue,
              ExUnlock, ExUnlockThrows, ClearLockOut
<1>4. ASSUME NEW c \in Clients,
             StopTest(c) \/ StopNotify(c) \/ StopJoin(c) \/ StartScheduler(c)
               \/ SuspendScheduler(c) \/ EnableScheduleTask(c) \/ StopScheduler(c)
      PROVE FlagsOK'
  BY <1>4 DEF StopTest, StopNotify, StopJoin, StartScheduler,
              SuspendScheduler, EnableScheduleTask, StopScheduler
<1>5. CASE UNCHANGED vars
  BY <1>5 DEF vars
<1> QED
  BY <1>1, <1>2, <1>3, <1>4, <1>5, ClientsAssumption
     DEF Next, Continue, Call, Control

LEMMA LoopTopType == ASSUME LoopTop PROVE worker' \in WorkerPcs
BY DEF LoopTop, WorkerPcs

LEMMA NotifyType == ASSUME Notify, worker \in WorkerPcs PROVE worker' \in WorkerPcs
BY DEF Notify, WorkerPcs

LEMMA GotoType ==
  ASSUME NEW c \in Clients, NEW from, NEW to \in ClientPcs,
         pc \in [Clients -> ClientPcs], Goto(c, from, to)
  PROVE  pc' \in [Clients -> ClientPcs]
BY DEF Goto

\* The queue entry made by ScheduleTask, and the id the next one gets.
LEMMA NextIdType ==
  ASSUME DataOK
  PROVE  /\ [num |-> accepted + 1, id |-> mNextTaskId] \in Tasks
         /\ (IF mNextTaskId + 1 >= MaxId THEN DEFAULT ELSE mNextTaskId + 1)
               \in DEFAULT..(MaxId - 1)
BY BoundsAssumption DEF DataOK, Tasks, DEFAULT

LEMMA QueuedType ==
  ASSUME DataOK
  PROVE  /\ \A i \in 1..Len(mTaskQueue) : mTaskQueue[i].num \in Nat \ {0}
         /\ Queued \subseteq Nat
<1>1. ASSUME NEW i \in 1..Len(mTaskQueue) PROVE mTaskQueue[i].num \in Nat \ {0}
  <2>1. mTaskQueue[i] \in Tasks
    BY DEF DataOK
  <2> QED BY <2>1 DEF Tasks
<1> QED BY <1>1 DEF Queued

\* A sequence without its element i.
LEMMA WithoutProperties ==
  ASSUME NEW S, NEW q \in Seq(S), NEW i \in 1..Len(q)
  PROVE  LET r == SubSeq(q, 1, i - 1) \o SubSeq(q, i + 1, Len(q)) IN
         /\ r \in Seq(S)
         /\ Len(r) = Len(q) - 1
         /\ \A j \in 1..(i - 1) : r[j] = q[j]
         /\ \A j \in i..(Len(q) - 1) : r[j] = q[j + 1]
<1>1. /\ SubSeq(q, 1, i - 1) \in Seq(S)
      /\ Len(SubSeq(q, 1, i - 1)) = i - 1
      /\ \A j \in 1..(i - 1) : SubSeq(q, 1, i - 1)[j] = q[j]
  OBVIOUS
<1>2. /\ SubSeq(q, i + 1, Len(q)) \in Seq(S)
      /\ Len(SubSeq(q, i + 1, Len(q))) = Len(q) - i
      /\ \A j \in 1..(Len(q) - i) : SubSeq(q, i + 1, Len(q))[j] = q[i + j]
  OBVIOUS
<1>3. PICK A : A = SubSeq(q, 1, i - 1)
  OBVIOUS
<1>4. PICK B : B = SubSeq(q, i + 1, Len(q))
  OBVIOUS
<1>5. /\ A \in Seq(S) /\ Len(A) = i - 1
      /\ \A j \in 1..(i - 1) : A[j] = q[j]
  BY <1>1, <1>3
<1>6. /\ B \in Seq(S) /\ Len(B) = Len(q) - i
      /\ \A j \in 1..(Len(q) - i) : B[j] = q[i + j]
  BY <1>2, <1>4
<1>7. /\ A \o B \in Seq(S)
      /\ Len(A \o B) = Len(q) - 1
      /\ \A j \in 1..(i - 1) : (A \o B)[j] = q[j]
      /\ \A j \in i..(Len(q) - 1) : (A \o B)[j] = q[j + 1]
  <2>1. Len(q) \in Nat /\ i \in Nat /\ 1 <= i /\ i <= Len(q)
    OBVIOUS
  <2>2. /\ A \o B \in Seq(S) /\ Len(A \o B) = Len(A) + Len(B)
        /\ \A j \in 1..(Len(A) + Len(B)) :
             (A \o B)[j] = IF j <= Len(A) THEN A[j] ELSE B[j - Len(A)]
    BY <1>5, <1>6, ConcatProperties
  <2>3. ASSUME NEW j \in i..(Len(q) - 1) PROVE (A \o B)[j] = q[j + 1]
    <3>1. j \in 1..(Len(A) + Len(B)) /\ ~(j <= Len(A))
      BY <1>5, <1>6, <2>1
    <3>2. j - Len(A) \in 1..(Len(q) - i) /\ i + (j - Len(A)) = j + 1
      BY <1>5, <2>1
    <3> QED BY <1>6, <2>2, <3>1, <3>2
  <2> QED BY <1>5, <1>6, <2>1, <2>2, <2>3
<1> QED BY <1>3, <1>4, <1>7

LEMMA DataTyping == ASSUME DataOK, [Next]_vars PROVE DataOK'
<1> USE DEF DataOK, queueVars, workerVars, lockVars, callVars, clientVars
<1>1. CASE WorkerEnterLoop
  BY <1>1, LoopTopType DEF WorkerEnterLoop
<1>2. CASE WorkerSpuriousWake
  BY <1>2 DEF WorkerSpuriousWake, WorkerPcs
<1>3. CASE WorkerLockEx
  BY <1>3 DEF WorkerLockEx, WorkerPcs
<1>4. CASE WorkerTakeTask
  <2>1. Head(mTaskQueue) \in Tasks /\ Tail(mTaskQueue) \in Seq(Tasks)
    BY <1>4 DEF WorkerTakeTask
  <2>2. Head(mTaskQueue).num \in Nat /\ Head(mTaskQueue).id \in INVALID..(MaxId - 1)
    BY <2>1, BoundsAssumption DEF Tasks, INVALID, DEFAULT
  <2>3. worker' \in WorkerPcs
    BY <1>4 DEF WorkerTakeTask, WorkerPcs
  <2> QED BY <1>4, <2>1, <2>2, <2>3 DEF WorkerTakeTask
<1>5. CASE WorkerFindsNothing
  BY <1>5, LoopTopType DEF WorkerFindsNothing
<1>6. CASE WorkerFinishTask
  BY <1>6, LoopTopType DEF WorkerFinishTask
<1>7. ASSUME NEW c \in Clients, SchedulePush(c) PROVE DataOK'
  BY <1>7, NextIdType, NotifyType, GotoType DEF SchedulePush, ClientPcs
<1>8. ASSUME NEW c \in Clients, ScheduleSkip(c) PROVE DataOK'
  BY <1>8, GotoType DEF ScheduleSkip, ClientPcs
<1>9. ASSUME NEW c \in Clients, ScheduleTest(c) PROVE DataOK'
  BY <1>9, GotoType DEF ScheduleTest, ClientPcs
<1>10. ASSUME NEW c \in Clients, NEW id, RemoveTask(c, id) PROVE DataOK'
  <2>1. PICK i \in 1..Len(mTaskQueue) :
          /\ mTaskQueue' = SubSeq(mTaskQueue, 1, i - 1)
                             \o SubSeq(mTaskQueue, i + 1, Len(mTaskQueue))
          /\ removed' = removed \union {mTaskQueue[i].num}
    BY <1>10 DEF RemoveTask
  <2>3. mTaskQueue' \in Seq(Tasks)
    BY <2>1, WithoutProperties
  <2>4. removed' \subseteq Nat
    BY <2>1, QueuedType
  <2> QED BY <1>10, <2>3, <2>4 DEF RemoveTask
<1>11. ASSUME NEW c \in Clients, ExLock(c) PROVE DataOK'
  BY <1>11, GotoType DEF ExLock, ClientPcs
<1>12. ASSUME NEW c \in Clients, ExLockThrows(c) PROVE DataOK'
  BY <1>12, GotoType DEF ExLockThrows, ClientPcs
<1>13. ASSUME NEW c \in Clients, SetLockOut(c) PROVE DataOK'
  BY <1>13, GotoType DEF SetLockOut, ClientPcs
<1>14. ASSUME NEW c \in Clients, RemoveAllTasks(c) PROVE DataOK'
  <2>1. pc' \in [Clients -> ClientPcs]
    BY <1>14, GotoType DEF RemoveAllTasks, ClientPcs
  <2>2. removed' \subseteq Nat
    BY <1>14, QueuedType DEF RemoveAllTasks, EmptyQueue
  <2>3. mTaskQueue' \in Seq(Tasks)
    BY <1>14 DEF RemoveAllTasks, EmptyQueue
  <2> QED BY <1>14, <2>1, <2>2, <2>3 DEF RemoveAllTasks, EmptyQueue
<1>15. ASSUME NEW c \in Clients, ExUnlock(c) PROVE DataOK'
  BY <1>15 DEF ExUnlock, Resumes, ClientPcs
<1>16. ASSUME NEW c \in Clients, ExUnlockThrows(c) PROVE DataOK'
  BY <1>16 DEF ExUnlockThrows, Resumes, ClientPcs
<1>17. ASSUME NEW c \in Clients, ClearLockOut(c) PROVE DataOK'
  BY <1>17, GotoType DEF ClearLockOut, ClientPcs
<1>18. ASSUME NEW c \in Clients, StopTest(c) PROVE DataOK'
  BY <1>18, GotoType DEF StopTest, ClientPcs
<1>19. ASSUME NEW c \in Clients, StopNotify(c) PROVE DataOK'
  BY <1>19, GotoType, NotifyType DEF StopNotify, ClientPcs
<1>20. ASSUME NEW c \in Clients, StopJoin(c) PROVE DataOK'
  BY <1>20, GotoType DEF StopJoin, ClientPcs, WorkerPcs
<1>21. ASSUME NEW c \in Clients, StartScheduler(c) PROVE DataOK'
  BY <1>21 DEF StartScheduler, WorkerPcs
<1>22. ASSUME NEW c \in Clients, SuspendScheduler(c) PROVE DataOK'
  BY <1>22, GotoType DEF SuspendScheduler, ClientPcs
<1>23. ASSUME NEW c \in Clients, EnableScheduleTask(c) PROVE DataOK'
  BY <1>23 DEF EnableScheduleTask
<1>24. ASSUME NEW c \in Clients, StopScheduler(c) PROVE DataOK'
  BY <1>24, GotoType DEF StopScheduler, ClientPcs
<1>25. CASE UNCHANGED vars
  BY <1>25 DEF vars
<1> QED
  BY <1>1, <1>2, <1>3, <1>4, <1>5, <1>6, <1>7, <1>8, <1>9, <1>10, <1>11,
     <1>12, <1>13, <1>14, <1>15, <1>16, <1>17, <1>18, <1>19, <1>20, <1>21,
     <1>22, <1>23, <1>24, <1>25, ClientsAssumption
  DEF Next, Worker, Continue, Call, Control

\* Every variable keeps its type: mNextTaskId, and with it every id that
\* ScheduleTask returns, stays within 1..MaxId-1 across the wrap (line 81).
THEOREM Typing == Spec => []TypeOK
<1>1. Init => FlagsOK
  BY DEF Init, FlagsOK
<1>2. Init => DataOK
  BY BoundsAssumption DEF Init, DataOK, WorkerPcs, ClientPcs, DEFAULT, INVALID
<1>3. TypeOK /\ [Next]_vars => TypeOK'
  BY FlagsTyping, DataTyping DEF TypeOK
<1> QED BY <1>1, <1>2, <1>3, PTL DEF Spec, TypeOK

-----------------------------------------------------------------------------
(* No task is lost, duplicated, or run after it was removed.               *)

\* ExactlyOnce alone does not survive WorkerTakeTask or RemoveTask: that the
\* task taken out is not also further back in the queue follows from the
\* order of acceptance.
Ordered ==
  \A i, j \in 1..Len(mTaskQueue) : i < j => mTaskQueue[i].num < mTaskQueue[j].num

OnceInv == ExactlyOnce /\ Ordered

LEMMA TakeEffect ==
  ASSUME DataOK, Ordered, mTaskQueue # <<>>, mTaskQueue' = Tail(mTaskQueue)
  PROVE  /\ Head(mTaskQueue).num \in Queued
         /\ Queued' = Queued \ {Head(mTaskQueue).num}
         /\ Ordered'
<1>1. /\ Len(mTaskQueue) \in Nat \ {0}
      /\ Head(mTaskQueue) = mTaskQueue[1]
      /\ Len(mTaskQueue') = Len(mTaskQueue) - 1
      /\ \A i \in 1..(Len(mTaskQueue) - 1) : mTaskQueue'[i] = mTaskQueue[i + 1]
  BY DEF DataOK
<1>2. Head(mTaskQueue).num \in Queued
  BY <1>1 DEF Queued
<1>3. ASSUME NEW n PROVE n \in Queued' <=> n \in Queued /\ n # mTaskQueue[1].num
  <2>1. ASSUME n \in Queued' PROVE n \in Queued /\ n # mTaskQueue[1].num
    <3>1. PICK i \in 1..(Len(mTaskQueue) - 1) : n = mTaskQueue[i + 1].num
      BY <1>1, <2>1 DEF Queued
    <3>2. i + 1 \in 1..Len(mTaskQueue) /\ 1 \in 1..Len(mTaskQueue) /\ 1 < i + 1
      BY <1>1
    <3>3. mTaskQueue[1].num < mTaskQueue[i + 1].num
      BY <3>2 DEF Ordered
    <3>4. mTaskQueue[1].num \in Nat
      BY <3>2, QueuedType
    <3> QED BY <3>1, <3>2, <3>3, <3>4 DEF Queued
  <2>2. ASSUME n \in Queued, n # mTaskQueue[1].num PROVE n \in Queued'
    <3>1. PICK i \in 1..Len(mTaskQueue) : n = mTaskQueue[i].num
      BY <2>2 DEF Queued
    <3>2. i - 1 \in 1..(Len(mTaskQueue) - 1) /\ (i - 1) + 1 = i
      BY <1>1, <2>2, <3>1
    <3>3. mTaskQueue'[i - 1] = mTaskQueue[i]
      BY <1>1, <3>2
    <3> QED BY <1>1, <3>1, <3>2, <3>3 DEF Queued
  <2> QED BY <2>1, <2>2
<1>4. Ordered'
  BY <1>1 DEF Ordered
<1> QED BY <1>1, <1>2, <1>3, <1>4

LEMMA RemoveEffect ==
  ASSUME DataOK, Ordered, NEW i \in 1..Len(mTaskQueue),
         mTaskQueue' = SubSeq(mTaskQueue, 1, i - 1)
                         \o SubSeq(mTaskQueue, i + 1, Len(mTaskQueue))
  PROVE  /\ Queued' = Queued \ {mTaskQueue[i].num}
         /\ Ordered'
<1> DEFINE L == Len(mTaskQueue)
<1>1. /\ L \in Nat
      /\ Len(mTaskQueue') = L - 1
      /\ \A j \in 1..(i - 1) : mTaskQueue'[j] = mTaskQueue[j]
      /\ \A j \in i..(L - 1) : mTaskQueue'[j] = mTaskQueue[j + 1]
  <2>1. mTaskQueue \in Seq(Tasks) /\ L \in Nat
    BY DEF DataOK
  <2> QED BY <2>1, WithoutProperties
<1>2. ASSUME NEW n PROVE n \in Queued' <=> n \in Queued /\ n # mTaskQueue[i].num
  <2>1. ASSUME n \in Queued' PROVE n \in Queued /\ n # mTaskQueue[i].num
    <3>1. PICK j \in 1..(L - 1) : n = mTaskQueue'[j].num
      BY <1>1, <2>1 DEF Queued
    <3>2. PICK k \in 1..L : n = mTaskQueue[k].num /\ k # i
      <4>1. CASE j < i
        <5>1. j \in 1..(i - 1) /\ j \in 1..L /\ j # i
          BY <1>1, <4>1
        <5>2. mTaskQueue'[j] = mTaskQueue[j]
          BY <1>1, <5>1
        <5> QED BY <3>1, <5>1, <5>2
      <4>2. CASE ~(j < i)
        <5>1. j + 1 \in 1..L /\ j + 1 # i /\ j \in i..(L - 1)
          BY <1>1, <4>2
        <5>2. mTaskQueue'[j] = mTaskQueue[j + 1]
          BY <1>1, <5>1
        <5> QED BY <3>1, <5>1, <5>2
      <4> QED BY <4>1, <4>2
    <3>3. mTaskQueue[k].num # mTaskQueue[i].num
      <4>1. mTaskQueue[k].num \in Nat /\ mTaskQueue[i].num \in Nat
        BY QueuedType
      <4>2. k < i \/ i < k
        BY <1>1, <3>2
      <4>3. mTaskQueue[k].num < mTaskQueue[i].num \/ mTaskQueue[i].num < mTaskQueue[k].num
        BY <4>2 DEF Ordered
      <4> QED BY <4>1, <4>3
    <3> QED BY <3>2, <3>3 DEF Queued
  <2>2. ASSUME n \in Queued, n # mTaskQueue[i].num PROVE n \in Queued'
    <3>1. PICK k \in 1..L : n = mTaskQueue[k].num /\ k # i
      BY <2>2 DEF Queued
    <3>2. PICK j \in 1..(L - 1) : n = mTaskQueue'[j].num
      <4>1. CASE k < i
        <5>1. k \in 1..(i - 1) /\ k \in 1..(L - 1)
          BY <1>1, <4>1
        <5>2. mTaskQueue'[k] = mTaskQueue[k]
          BY <1>1, <5>1
        <5> QED BY <3>1, <5>1, <5>2
      <4>2. CASE ~(k < i)
        <5>1. k - 1 \in i..(L - 1) /\ k - 1 \in 1..(L - 1) /\ (k - 1) + 1 = k
          BY <1>1, <3>1, <4>2
        <5>2. mTaskQueue'[k - 1] = mTaskQueue[k]
          BY <1>1, <5>1
        <5> QED BY <3>1, <5>1, <5>2
      <4> QED BY <4>1, <4>2
    <3> QED BY <1>1, <3>2 DEF Queued
  <2> QED BY <2>1, <2>2
<1>3. Ordered'
  <2> SUFFICES ASSUME NEW j \in 1..(L - 1), NEW k \in 1..(L - 1), j < k
               PROVE  mTaskQueue'[j].num < mTaskQueue'[k].num
    BY <1>1 DEF Ordered
  <2>1. PICK jj \in 1..L, kk \in 1..L :
          /\ jj < kk
          /\ mTaskQueue'[j] = mTaskQueue[jj]
          /\ mTaskQueue'[k] = mTaskQueue[kk]
    <3>1. CASE k < i
      <4>1. j \in 1..(i - 1) /\ k \in 1..(i - 1) /\ j \in 1..L /\ k \in 1..L
        BY <1>1, <3>1
      <4> QED BY <1>1, <4>1
    <3>2. CASE j < i /\ ~(k < i)
      <4>1. j \in 1..(i - 1) /\ k \in i..(L - 1) /\ j \in 1..L /\ k + 1 \in 1..L /\ j < k + 1
        BY <1>1, <3>2
      <4> QED BY <1>1, <4>1
    <3>3. CASE ~(j < i)
      <4>1. /\ j \in i..(L - 1) /\ k \in i..(L - 1)
            /\ j + 1 \in 1..L /\ k + 1 \in 1..L /\ j + 1 < k + 1
        BY <1>1, <3>3
      <4> QED BY <1>1, <4>1
    <3> QED BY <3>1, <3>2, <3>3
  <2> QED BY <2>1 DEF Ordered
<1> QED BY <1>2, <1>3

LEMMA PushEffect ==
  ASSUME DataOK, OnceInv,
         mTaskQueue' = Append(mTaskQueue, [num |-> accepted + 1, id |-> mNextTaskId])
  PROVE  /\ Queued' = Queued \union {accepted + 1}
         /\ Ordered'
<1>1. /\ Len(mTaskQueue) \in Nat
      /\ Len(mTaskQueue') = Len(mTaskQueue) + 1
      /\ \A j \in 1..Len(mTaskQueue) : mTaskQueue'[j] = mTaskQueue[j]
      /\ mTaskQueue'[Len(mTaskQueue) + 1].num = accepted + 1
  BY DEF DataOK
<1>2. Queued' = Queued \union {accepted + 1}
  BY <1>1 DEF Queued
<1>3. \A j \in 1..Len(mTaskQueue) : mTaskQueue[j].num < accepted + 1
  <2> SUFFICES ASSUME NEW j \in 1..Len(mTaskQueue)
               PROVE  mTaskQueue[j].num < accepted + 1
    OBVIOUS
  <2>1. mTaskQueue[j].num \in Queued
    BY DEF Queued
  <2>2. mTaskQueue[j].num \in 1..accepted /\ accepted \in Nat
    BY <2>1 DEF OnceInv, ExactlyOnce, DataOK
  <2> QED BY <2>2
<1>4. Ordered'
  <2> SUFFICES ASSUME NEW j \in 1..(Len(mTaskQueue) + 1),
                      NEW k \in 1..(Len(mTaskQueue) + 1), j < k
               PROVE  mTaskQueue'[j].num < mTaskQueue'[k].num
    BY <1>1 DEF Ordered
  <2>1. j \in 1..Len(mTaskQueue) /\ mTaskQueue'[j] = mTaskQueue[j]
    BY <1>1
  <2>2. CASE k = Len(mTaskQueue) + 1
    BY <1>1, <1>3, <2>1, <2>2
  <2>3. CASE k # Len(mTaskQueue) + 1
    <3>1. k \in 1..Len(mTaskQueue) /\ mTaskQueue'[k] = mTaskQueue[k]
      BY <1>1, <2>3
    <3> QED BY <2>1, <3>1 DEF OnceInv, Ordered
  <2> QED BY <2>2, <2>3
<1> QED BY <1>2, <1>4

\* All the other steps leave the tasks where they are.
LEMMA TasksStay ==
  ASSUME [Next]_vars
  PROVE  \/ UNCHANGED <<mTaskQueue, accepted, started, removed>>
         \/ WorkerTakeTask
         \/ \E c \in Clients : \/ SchedulePush(c)
                              \/ RemoveAllTasks(c)
                              \/ \E id \in DEFAULT..(MaxId - 1) : RemoveTask(c, id)
<1> USE DEF queueVars, workerVars, lockVars, callVars, clientVars
<1>1. CASE Worker \/ WorkerSpuriousWake
  BY <1>1 DEF Worker, WorkerEnterLoop, WorkerLockEx, WorkerFindsNothing,
              WorkerFinishTask, WorkerSpuriousWake
<1>2. ASSUME NEW c \in Clients,
             ScheduleSkip(c) \/ ScheduleTest(c) \/ ExLock(c) \/ ExLockThrows(c)
               \/ SetLockOut(c) \/ ExUnlock(c) \/ ExUnlockThrows(c) \/ ClearLockOut(c)
      PROVE UNCHANGED <<mTaskQueue, accepted, started, removed>>
  BY <1>2 DEF ScheduleSkip, ScheduleTest, ExLock, ExLockThrows, SetLockOut,
              ExUnlock, ExUnlockThrows, ClearLockOut
<1>3. ASSUME NEW c \in Clients,
             StopTest(c) \/ StopNotify(c) \/ StopJoin(c) \/ StartScheduler(c)
               \/ SuspendScheduler(c) \/ EnableScheduleTask(c) \/ StopScheduler(c)
      PROVE UNCHANGED <<mTaskQueue, accepted, started, removed>>
  BY <1>3 DEF StopTest, StopNotify, StopJoin, StartScheduler,
              SuspendScheduler, EnableScheduleTask, StopScheduler
<1>4. CASE UNCHANGED vars
  BY <1>4 DEF vars
<1> QED
  BY <1>1, <1>2, <1>3, <1>4, ClientsAssumption
     DEF Next, Worker, Continue, Call, Control

LEMMA OnceStep == TypeOK /\ OnceInv /\ [Next]_vars => OnceInv'
<1> SUFFICES ASSUME DataOK, OnceInv, [Next]_vars PROVE OnceInv'
  BY DEF TypeOK
<1> USE DEF queueVars, workerVars, lockVars, callVars, clientVars
<1>1. CASE UNCHANGED <<mTaskQueue, accepted, started, removed>>
  BY <1>1 DEF OnceInv, ExactlyOnce, Ordered, Queued
<1>2. CASE WorkerTakeTask
  <2>1. /\ Head(mTaskQueue).num \in Queued
        /\ Queued' = Queued \ {Head(mTaskQueue).num}
        /\ Ordered'
    BY <1>2, TakeEffect DEF WorkerTakeTask, OnceInv
  <2>2. /\ started' = started \union {Head(mTaskQueue).num}
        /\ UNCHANGED <<accepted, removed>>
    BY <1>2 DEF WorkerTakeTask
  <2> QED BY <2>1, <2>2 DEF OnceInv, ExactlyOnce
<1>3. ASSUME NEW c \in Clients, SchedulePush(c) PROVE OnceInv'
  <2>1. Queued' = Queued \union {accepted + 1} /\ Ordered'
    BY <1>3, PushEffect DEF SchedulePush
  <2>2. accepted' = accepted + 1 /\ UNCHANGED <<started, removed>>
    BY <1>3 DEF SchedulePush
  <2>3. 1..(accepted + 1) = (1..accepted) \union {accepted + 1} /\ accepted + 1 \notin 1..accepted
    BY DEF DataOK
  <2> QED BY <2>1, <2>2, <2>3 DEF OnceInv, ExactlyOnce
<1>4. ASSUME NEW c \in Clients, RemoveAllTasks(c) PROVE OnceInv'
  <2>1. /\ mTaskQueue' = <<>> /\ removed' = removed \union Queued
        /\ UNCHANGED <<accepted, started>>
    BY <1>4 DEF RemoveAllTasks, EmptyQueue
  <2>2. Queued' = {} /\ Ordered'
    BY <2>1 DEF Queued, Ordered
  <2> QED BY <2>1, <2>2 DEF OnceInv, ExactlyOnce
<1>5. ASSUME NEW c \in Clients, NEW id, RemoveTask(c, id) PROVE OnceInv'
  <2>1. PICK i \in 1..Len(mTaskQueue) :
          /\ mTaskQueue' = SubSeq(mTaskQueue, 1, i - 1)
                             \o SubSeq(mTaskQueue, i + 1, Len(mTaskQueue))
          /\ removed' = removed \union {mTaskQueue[i].num}
    BY <1>5 DEF RemoveTask
  <2>2. Queued' = Queued \ {mTaskQueue[i].num} /\ Ordered'
    BY <2>1, RemoveEffect DEF OnceInv
  <2>3. mTaskQueue[i].num \in Queued
    BY DEF Queued
  <2>4. UNCHANGED <<accepted, started>>
    BY <1>5 DEF RemoveTask
  <2> QED BY <2>1, <2>2, <2>3, <2>4 DEF OnceInv, ExactlyOnce
<1> QED BY <1>1, <1>2, <1>3, <1>4, <1>5, TasksStay

\* Each accepted task is queued, started or removed, and only one of these,
\* whatever the threads and with any number of controllers.
THEOREM TasksExactlyOnce == Spec => []ExactlyOnce
<1>1. Init => OnceInv
  BY DEF Init, OnceInv, ExactlyOnce, Ordered, Queued
<1>2. OnceInv => ExactlyOnce
  BY DEF OnceInv
<1> QED BY <1>1, <1>2, OnceStep, Typing, PTL DEF Spec

-----------------------------------------------------------------------------
(* Who holds the locks, and what that keeps out.                           *)

\* mExLock owns mExMutex exactly while a client holds it, and the worker is
\* between locks 122 and 141 exactly while it holds it.
OwnerInv ==
  /\ mExLock <=> mExMutex = "client"
  /\ worker \in {"holdsEx", "running"} <=> mExMutex = "worker"
  /\ running # 0 => worker = "running"

LEMMA OwnerInit == Init => OwnerInv
BY DEF Init, OwnerInv

LEMMA OwnerStep == TypeOK /\ OwnerInv /\ [Next]_vars => OwnerInv'
<1> SUFFICES ASSUME FlagsOK, OwnerInv, [Next]_vars PROVE OwnerInv'
  BY DEF TypeOK
<1> USE DEF OwnerInv, queueVars, workerVars, lockVars, callVars, clientVars
<1>1. CASE WorkerEnterLoop \/ WorkerFindsNothing \/ WorkerFinishTask
  <2>1. worker' \in {"exited", "waiting", "wantEx"}
    BY <1>1 DEF LoopTop, WorkerEnterLoop, WorkerFindsNothing, WorkerFinishTask
  <2> QED BY <1>1, <2>1 DEF WorkerEnterLoop, WorkerFindsNothing, WorkerFinishTask
<1>2. CASE WorkerLockEx \/ WorkerTakeTask \/ WorkerSpuriousWake
  BY <1>2 DEF WorkerLockEx, WorkerTakeTask, WorkerSpuriousWake
<1>3. ASSUME NEW c \in Clients, SchedulePush(c) \/ StopNotify(c) PROVE OwnerInv'
  BY <1>3 DEF SchedulePush, StopNotify, Notify
<1>4. ASSUME NEW c \in Clients,
             ScheduleSkip(c) \/ ScheduleTest(c) \/ SetLockOut(c) \/ RemoveAllTasks(c)
               \/ ClearLockOut(c) \/ ExLockThrows(c) \/ ExUnlockThrows(c)
      PROVE OwnerInv'
  BY <1>4 DEF ScheduleSkip, ScheduleTest, SetLockOut, RemoveAllTasks,
              ClearLockOut, ExLockThrows, ExUnlockThrows
<1>5. ASSUME NEW c \in Clients, NEW id, RemoveTask(c, id) PROVE OwnerInv'
  BY <1>5 DEF RemoveTask
<1>6. ASSUME NEW c \in Clients, ExLock(c) PROVE OwnerInv'
  BY <1>6 DEF ExLock
<1>7. ASSUME NEW c \in Clients, ExUnlock(c) PROVE OwnerInv'
  BY <1>7 DEF ExUnlock
<1>8. ASSUME NEW c \in Clients,
             StopTest(c) \/ StopJoin(c) \/ StartScheduler(c)
               \/ SuspendScheduler(c) \/ EnableScheduleTask(c) \/ StopScheduler(c)
      PROVE OwnerInv'
  BY <1>8 DEF StopTest, StopJoin, StartScheduler, SuspendScheduler,
              EnableScheduleTask, StopScheduler
<1>9. CASE UNCHANGED vars
  BY <1>9 DEF vars
<1> QED
  BY <1>1, <1>2, <1>3, <1>4, <1>5, <1>6, <1>7, <1>8, <1>9, ClientsAssumption
     DEF Next, Worker, Continue, Call, Control

\* While a scheduler is drained its lock is held, its intake closed, and nobody
\* is on the way to open it: the only way out is mExLock.unlock().
DrainInv ==
  drained => /\ mExLock /\ mLockOut /\ mTaskQueue = <<>>
             /\ \A c \in Clients : pc[c] # "clearLockOut"

LEMMA DrainStep == TypeOK /\ OwnerInv /\ DrainInv /\ [Next]_vars => DrainInv'
<1> SUFFICES ASSUME FlagsOK, pc \in [Clients -> ClientPcs], OwnerInv, DrainInv, [Next]_vars
             PROVE  DrainInv'
  BY DEF TypeOK, DataOK
<1> USE DEF DrainInv, queueVars, workerVars, lockVars, callVars, clientVars
<1>1. CASE Worker \/ WorkerSpuriousWake
  <2>1. UNCHANGED <<pc, mExLock, mLockOut, drained>>
    BY <1>1 DEF Worker, WorkerEnterLoop, WorkerLockEx, WorkerTakeTask,
                WorkerFindsNothing, WorkerFinishTask, WorkerSpuriousWake
  <2>2. mTaskQueue = <<>> => mTaskQueue' = <<>>
    BY <1>1 DEF Worker, WorkerEnterLoop, WorkerLockEx, WorkerTakeTask,
                WorkerFindsNothing, WorkerFinishTask, WorkerSpuriousWake
  <2> QED BY <2>1, <2>2
<1>2. ASSUME NEW c \in Clients, SchedulePush(c) PROVE DrainInv'
  BY <1>2 DEF SchedulePush, Goto
<1>3. ASSUME NEW c \in Clients, NEW id, RemoveTask(c, id) PROVE DrainInv'
  <2>1. mTaskQueue # <<>>
    BY <1>3 DEF RemoveTask
  <2> QED BY <1>3, <2>1 DEF RemoveTask
<1>4. ASSUME NEW c \in Clients, RemoveAllTasks(c) PROVE DrainInv'
  BY <1>4 DEF RemoveAllTasks, EmptyQueue, Goto, OwnerInv
<1>5. ASSUME NEW c \in Clients, ExUnlock(c) PROVE DrainInv'
  BY <1>5 DEF ExUnlock
<1>6. ASSUME NEW c \in Clients, ExLock(c) \/ SetLockOut(c) PROVE DrainInv'
  BY <1>6 DEF ExLock, SetLockOut, Goto
<1>7. ASSUME NEW c \in Clients, ClearLockOut(c) PROVE DrainInv'
  BY <1>7 DEF ClearLockOut, Goto
<1>8. ASSUME NEW c \in Clients, EnableScheduleTask(c) \/ StartScheduler(c) PROVE DrainInv'
  BY <1>8 DEF EnableScheduleTask, StartScheduler
<1>9. ASSUME NEW c \in Clients,
             \/ ScheduleTest(c) \/ ScheduleSkip(c) \/ SuspendScheduler(c) \/ ExLockThrows(c)
             \/ StopScheduler(c) \/ StopTest(c) \/ StopNotify(c) \/ StopJoin(c)
      PROVE DrainInv'
  BY <1>9 DEF ScheduleTest, ScheduleSkip, SuspendScheduler, ExLockThrows,
              StopScheduler, StopTest, StopNotify, StopJoin, Goto
<1>10. ASSUME NEW c \in Clients, ExUnlockThrows(c) PROVE DrainInv'
  BY <1>10 DEF ExUnlockThrows, Resumes
<1>11. CASE UNCHANGED vars
  BY <1>11 DEF vars
<1> QED
  BY <1>1, <1>2, <1>3, <1>4, <1>5, <1>6, <1>7, <1>8, <1>9, <1>10, <1>11, ClientsAssumption
     DEF Next, Continue, Call, Control

\* After RemoveAllTasks on a suspended scheduler nothing runs and nothing is
\* queued until ResumeScheduler: no client, and not the worker, can hold a
\* task out of the queue (comment of lines 116-120).
THEOREM SuspendedAndEmptied == Spec => []DrainedIsQuiet
<1>1. OwnerInv /\ DrainInv => DrainedIsQuiet
  BY DEF OwnerInv, DrainInv, DrainedIsQuiet
<1>2. Init => DrainInv
  BY DEF Init, DrainInv
<1> QED BY <1>1, <1>2, OwnerInit, OwnerStep, DrainStep, Typing, PTL DEF Spec

-----------------------------------------------------------------------------
(* With a single controller.                                               *)

\* What the controller knows of mExLock and mLockOut at each of its steps.
\* Only between lines 200 and 202 and lines 210 and 212 do the two differ.
Knows(c) ==
  /\ pc[c] \in {"setLockOut", "removeAll", "exUnlock"} => mExLock
  /\ pc[c] \in {"exLock", "clearLockOut", "notify", "join"} => ~mExLock
  /\ pc[c] \notin {"setLockOut", "clearLockOut"} => (mLockOut <=> mExLock)
  /\ pc[c] # "threw"
  /\ c \in suspendedBy => mExLock

ControlInv ==
  /\ \A c \in Controllers : Knows(c)
  /\ \A c \in Clients \ Controllers : pc[c] \in {"idle", "schedule"}

LEMMA ControlStep ==
  ASSUME \A c, d \in Controllers : c = d
  PROVE  TypeOK /\ OwnerInv /\ ControlInv /\ [Next]_vars => ControlInv'
<1> SUFFICES ASSUME FlagsOK, pc \in [Clients -> ClientPcs],
                    OwnerInv, ControlInv, [Next]_vars
             PROVE  ControlInv'
  BY DEF TypeOK, DataOK
<1> USE ClientsAssumption
    DEF ControlInv, Knows, queueVars, workerVars, lockVars, callVars, clientVars
<1>1. CASE Worker \/ WorkerSpuriousWake
  <2>1. UNCHANGED <<pc, mExLock, mLockOut, suspendedBy>>
    BY <1>1 DEF Worker, WorkerEnterLoop, WorkerLockEx, WorkerTakeTask,
                WorkerFindsNothing, WorkerFinishTask, WorkerSpuriousWake
  <2> QED BY <2>1
<1>2. ASSUME NEW c \in Clients, SchedulePush(c) PROVE ControlInv'
  BY <1>2 DEF SchedulePush, Goto
<1>3. ASSUME NEW c \in Clients, ScheduleSkip(c) \/ ScheduleTest(c) PROVE ControlInv'
  BY <1>3 DEF ScheduleSkip, ScheduleTest, Goto
<1>4. ASSUME NEW c \in Clients, NEW id, RemoveTask(c, id) PROVE ControlInv'
  BY <1>4 DEF RemoveTask
<1>5. ASSUME NEW c \in Clients, ExLock(c) PROVE ControlInv'
  BY <1>5 DEF ExLock, Goto
<1>6. ASSUME NEW c \in Clients, ExLockThrows(c) PROVE ControlInv'
  BY <1>6 DEF ExLockThrows, Goto
<1>7. ASSUME NEW c \in Clients, SetLockOut(c) PROVE ControlInv'
  BY <1>7 DEF SetLockOut, Goto
<1>8. ASSUME NEW c \in Clients, c \in Controllers \/ pc[c] # "idle",
             RemoveAllTasks(c) PROVE ControlInv'
  BY <1>8 DEF RemoveAllTasks, Goto
<1>9. ASSUME NEW c \in Clients, c \in Controllers \/ pc[c] # "idle",
             ExUnlock(c) PROVE ControlInv'
  BY <1>9 DEF ExUnlock, Resumes
<1>10. ASSUME NEW c \in Clients, c \in Controllers \/ pc[c] # "idle",
              ExUnlockThrows(c) PROVE ControlInv'
  BY <1>10 DEF ExUnlockThrows, Resumes
<1>11. ASSUME NEW c \in Clients, ClearLockOut(c) PROVE ControlInv'
  BY <1>11 DEF ClearLockOut, Goto
<1>12. ASSUME NEW c \in Clients, StopTest(c) PROVE ControlInv'
  BY <1>12 DEF StopTest, Goto
<1>13. ASSUME NEW c \in Clients, StopNotify(c) PROVE ControlInv'
  BY <1>13 DEF StopNotify, Goto
<1>14. ASSUME NEW c \in Clients, StopJoin(c) PROVE ControlInv'
  BY <1>14 DEF StopJoin, Goto
<1>15. ASSUME NEW c \in Controllers, StartScheduler(c) PROVE ControlInv'
  BY <1>15 DEF StartScheduler
<1>16. ASSUME NEW c \in Controllers, SuspendScheduler(c) PROVE ControlInv'
  BY <1>16 DEF SuspendScheduler, Goto
<1>17. ASSUME NEW c \in Controllers, EnableScheduleTask(c) PROVE ControlInv'
  BY <1>17 DEF EnableScheduleTask
<1>18. ASSUME NEW c \in Controllers, StopScheduler(c) PROVE ControlInv'
  BY <1>18 DEF StopScheduler, Goto
<1>19. CASE UNCHANGED vars
  BY <1>19 DEF vars
<1> QED
  BY <1>1, <1>2, <1>3, <1>4, <1>5, <1>6, <1>7, <1>8, <1>9, <1>10, <1>11,
     <1>12, <1>13, <1>14, <1>15, <1>16, <1>17, <1>18, <1>19
  DEF Next, Continue, Call, Control

LEMMA ControlInit == Init => OwnerInv /\ ControlInv
BY ClientsAssumption DEF Init, OwnerInv, ControlInv, Knows

\* A single controller never makes mExLock throw, in whatever order it
\* suspends, resumes, empties, stops and starts the scheduler.
THEOREM LockNeverMisused ==
  ASSUME \A c, d \in Controllers : c = d
  PROVE  Spec => []NoLockMisuse
<1>1. ControlInv => NoLockMisuse
  BY ClientsAssumption DEF ControlInv, Knows, NoLockMisuse
<1> QED BY <1>1, ControlInit, OwnerStep, ControlStep, Typing, PTL DEF Spec

-----------------------------------------------------------------------------
(* The scheduler implements AsyncExecutor, whatever the controllers do.    *)

\* The numbers of the tasks of a queue, as the mapping of pending has them.
Nums(q) == [i \in 1..Len(q) |-> q[i].num]

LEMMA NumsType ==
  ASSUME NEW q \in Seq(Tasks)
  PROVE  /\ Nums(q) \in Seq(Nat)
         /\ Len(Nums(q)) = Len(q)
         /\ Len(q) \in Nat
         /\ \A i \in 1..Len(q) : Nums(q)[i] = q[i].num
<1>1. Len(q) \in Nat
  OBVIOUS
<1>2. ASSUME NEW i \in 1..Len(q) PROVE q[i].num \in Nat
  <2>1. q[i] \in Tasks
    OBVIOUS
  <2> QED BY <2>1 DEF Tasks
<1>3. Nums(q) \in [1..Len(q) -> Nat]
  BY <1>2 DEF Nums
<1>4. Nums(q) \in Seq(Nat)
  BY <1>1, <1>3, SeqDef
<1>5. Len(Nums(q)) = Len(q)
  BY <1>1, <1>3, <1>4, LenProperties
<1> QED BY <1>1, <1>4, <1>5 DEF Nums

LEMMA NumsOfAppend ==
  ASSUME NEW q \in Seq(Tasks), NEW t \in Tasks
  PROVE  Nums(Append(q, t)) = Append(Nums(q), t.num)
<1>1. t.num \in Nat
  BY DEF Tasks
<1>2. /\ Append(q, t) \in Seq(Tasks)
      /\ Len(Append(q, t)) = Len(q) + 1
      /\ \A i \in 1..(Len(q) + 1) : Append(q, t)[i] = IF i <= Len(q) THEN q[i] ELSE t
  OBVIOUS
<1>3. PICK a : a = Append(q, t)
  OBVIOUS
<1>4. PICK b : b = Append(Nums(q), t.num)
  OBVIOUS
<1>5. /\ b \in Seq(Nat) /\ Len(b) = Len(q) + 1
      /\ \A i \in 1..(Len(q) + 1) : b[i] = IF i <= Len(q) THEN q[i].num ELSE t.num
  BY <1>1, <1>4, NumsType
<1>6. /\ Nums(a) \in Seq(Nat) /\ Len(Nums(a)) = Len(q) + 1
      /\ \A i \in 1..(Len(q) + 1) : Nums(a)[i] = IF i <= Len(q) THEN q[i].num ELSE t.num
  BY <1>2, <1>3, NumsType
<1>7. Nums(a) = b
  BY <1>5, <1>6, SeqEqual
<1> QED BY <1>3, <1>4, <1>7

LEMMA NumsOfTail ==
  ASSUME NEW q \in Seq(Tasks), q # <<>>
  PROVE  /\ Nums(q) # <<>>
         /\ Head(Nums(q)) = Head(q).num
         /\ Nums(Tail(q)) = Tail(Nums(q))
<1>1. Len(q) \in Nat \ {0}
  OBVIOUS
<1>2. Nums(q) \in Seq(Nat) /\ Nums(q) # <<>> /\ Head(Nums(q)) = Head(q).num
  BY <1>1, NumsType
<1>3. /\ Tail(q) \in Seq(Tasks) /\ Len(Tail(q)) = Len(q) - 1
      /\ \A i \in 1..(Len(q) - 1) : Tail(q)[i] = q[i + 1]
  BY HeadTailProperties
<1>4. PICK a : a = Tail(q)
  OBVIOUS
<1>5. PICK b : b = Tail(Nums(q))
  OBVIOUS
<1>6. /\ b \in Seq(Nat) /\ Len(b) = Len(q) - 1
      /\ \A i \in 1..(Len(q) - 1) : b[i] = q[i + 1].num
  <2>1. /\ b \in Seq(Nat) /\ Len(b) = Len(Nums(q)) - 1
        /\ \A i \in 1..Len(b) : b[i] = Nums(q)[i + 1]
    BY <1>2, <1>5, HeadTailProperties
  <2> QED BY <2>1, <1>1, NumsType
<1>7. /\ Nums(a) \in Seq(Nat) /\ Len(Nums(a)) = Len(q) - 1
      /\ \A i \in 1..(Len(q) - 1) : Nums(a)[i] = q[i + 1].num
  <2>1. /\ a \in Seq(Tasks) /\ Len(a) = Len(q) - 1
        /\ \A i \in 1..(Len(q) - 1) : a[i] = q[i + 1]
    BY <1>3, <1>4
  <2>2. /\ Nums(a) \in Seq(Nat) /\ Len(Nums(a)) = Len(a)
        /\ \A i \in 1..Len(a) : Nums(a)[i] = a[i].num
    BY <2>1, NumsType
  <2> QED
    BY <2>1, <2>2
<1>8. Nums(a) = b
  BY <1>6, <1>7, SeqEqual
<1> QED BY <1>2, <1>4, <1>5, <1>8

LEMMA NumsOfRest ==
  ASSUME NEW q \in Seq(Tasks), NEW i \in 1..Len(q)
  PROVE  /\ i \in 1..Len(Nums(q))
         /\ Nums(SubSeq(q, 1, i - 1) \o SubSeq(q, i + 1, Len(q)))
              = SubSeq(Nums(q), 1, i - 1) \o SubSeq(Nums(q), i + 1, Len(Nums(q)))
<1>1. /\ Nums(q) \in Seq(Nat) /\ Len(Nums(q)) = Len(q) /\ Len(q) \in Nat
      /\ \A j \in 1..Len(q) : Nums(q)[j] = q[j].num
  BY NumsType
<1>2. PICK a : a = SubSeq(q, 1, i - 1) \o SubSeq(q, i + 1, Len(q))
  OBVIOUS
<1>3. PICK b : b = SubSeq(Nums(q), 1, i - 1) \o SubSeq(Nums(q), i + 1, Len(Nums(q)))
  OBVIOUS
<1>4. /\ a \in Seq(Tasks) /\ Len(a) = Len(q) - 1
      /\ \A j \in 1..(i - 1) : a[j] = q[j]
      /\ \A j \in i..(Len(q) - 1) : a[j] = q[j + 1]
  BY <1>2, WithoutProperties
<1>5. /\ b \in Seq(Nat) /\ Len(b) = Len(q) - 1
      /\ \A j \in 1..(i - 1) : b[j] = Nums(q)[j]
      /\ \A j \in i..(Len(q) - 1) : b[j] = Nums(q)[j + 1]
  <2>1. i \in 1..Len(Nums(q))
    BY <1>1
  <2>2. /\ b \in Seq(Nat) /\ Len(b) = Len(Nums(q)) - 1
        /\ \A j \in 1..(i - 1) : b[j] = Nums(q)[j]
        /\ \A j \in i..(Len(Nums(q)) - 1) : b[j] = Nums(q)[j + 1]
    BY <1>1, <1>3, <2>1, WithoutProperties
  <2> QED BY <1>1, <2>2
<1>6. Nums(a) \in Seq(Nat) /\ Len(Nums(a)) = Len(b)
  BY <1>4, <1>5, NumsType
<1>7. ASSUME NEW j \in 1..Len(b) PROVE Nums(a)[j] = b[j]
  <2>1. Nums(a)[j] = a[j].num
    BY <1>4, <1>5, NumsType
  <2>2. CASE j < i
    <3>1. j \in 1..(i - 1) /\ j \in 1..Len(q)
      BY <1>1, <1>5, <2>2
    <3> QED BY <1>1, <1>4, <1>5, <2>1, <3>1
  <2>3. CASE ~(j < i)
    <3>1. j \in i..(Len(q) - 1) /\ j + 1 \in 1..Len(q)
      BY <1>1, <1>5, <2>3
    <3> QED BY <1>1, <1>4, <1>5, <2>1, <3>1
  <2> QED BY <2>2, <2>3
<1>8. Nums(a) = b
  BY <1>5, <1>6, <1>7, SeqEqual
<1> QED BY <1>1, <1>2, <1>3, <1>8

LEMMA AbstractInit == Init => Abstract!Init
BY DEF Init, Abstract!Init

\* The worker: taking a task starts it, the rest of its loop is not seen.
LEMMA WorkerRefines ==
  ASSUME TypeOK, OwnerInv, Worker \/ WorkerSpuriousWake
  PROVE  [Abstract!Next]_(Abstract!vars)
<1> USE DEF queueVars, lockVars, clientVars, callVars
<1>1. CASE WorkerEnterLoop \/ WorkerSpuriousWake \/ WorkerLockEx \/ WorkerFindsNothing
  <2>1. UNCHANGED <<mTaskQueue, running, accepted, mLockOut, mExLock>>
    BY <1>1 DEF WorkerEnterLoop, WorkerSpuriousWake, WorkerLockEx, WorkerFindsNothing
  <2> QED BY <2>1 DEF Abstract!vars
<1>2. CASE WorkerTakeTask
  <2>1. /\ mTaskQueue \in Seq(Tasks) /\ mTaskQueue # <<>>
        /\ running' = Head(mTaskQueue).num /\ mTaskQueue' = Tail(mTaskQueue)
    BY <1>2 DEF WorkerTakeTask, TypeOK, DataOK
  <2>2. /\ Nums(mTaskQueue) # <<>> /\ running' = Head(Nums(mTaskQueue))
        /\ Nums(mTaskQueue)' = Tail(Nums(mTaskQueue))
    BY <2>1, NumsOfTail DEF Nums
  <2>3. running = 0
    BY <1>2 DEF OwnerInv, WorkerTakeTask
  <2>4. ~mExLock
    BY <1>2 DEF OwnerInv, WorkerTakeTask
  <2>5. UNCHANGED <<accepted, mLockOut, mExLock>>
    BY <1>2 DEF WorkerTakeTask
  <2>6. Abstract!Start
    BY <2>2, <2>3, <2>4, <2>5 DEF Abstract!Start, Nums
  <2> QED BY <2>6 DEF Abstract!Next
<1>3. CASE WorkerFinishTask
  <2>1. running' = 0 /\ UNCHANGED <<mTaskQueue, accepted, mLockOut, mExLock>>
    BY <1>3 DEF WorkerFinishTask
  <2>2. CASE running = 0
    BY <2>1, <2>2 DEF Abstract!vars
  <2>3. CASE running # 0
    BY <2>1, <2>3 DEF Abstract!Finish, Abstract!Next
  <2> QED BY <2>2, <2>3
<1> QED BY <1>1, <1>2, <1>3 DEF Worker

\* The queue as the clients change it.
LEMMA QueueRefines ==
  ASSUME TypeOK, NEW c \in Clients,
         \/ SchedulePush(c) \/ RemoveAllTasks(c)
         \/ \E id \in DEFAULT..(MaxId - 1) : RemoveTask(c, id)
  PROVE  [Abstract!Next]_(Abstract!vars)
<1> USE DEF queueVars, lockVars, workerVars, clientVars, callVars
<1>1. mTaskQueue \in Seq(Tasks)
  BY DEF TypeOK, DataOK
<1>2. CASE SchedulePush(c)
  <2> DEFINE task == [num |-> accepted + 1, id |-> mNextTaskId]
  <2>1. task \in Tasks
    BY NextIdType DEF TypeOK
  <2>2. task.num = accepted + 1
    OBVIOUS
  <2>3. /\ mTaskQueue' = Append(mTaskQueue, task) /\ accepted' = accepted + 1
        /\ UNCHANGED <<running, mLockOut, mExLock>>
    BY <1>2 DEF SchedulePush
  <2>4. Nums(mTaskQueue)' = Append(Nums(mTaskQueue), accepted')
    <3> HIDE DEF task
    <3> QED BY <1>1, <2>1, <2>2, <2>3, NumsOfAppend DEF Nums
  <2>5. ~mLockOut
    BY <1>2 DEF SchedulePush
  <2>6. Abstract!Accept
    BY <2>3, <2>4, <2>5 DEF Abstract!Accept, Nums
  <2> QED BY <2>6 DEF Abstract!Next
<1>3. CASE RemoveAllTasks(c)
  <2>1. mTaskQueue' = <<>> /\ UNCHANGED <<running, accepted, mLockOut, mExLock>>
    BY <1>3 DEF RemoveAllTasks, EmptyQueue
  <2> QED BY <2>1 DEF Abstract!CancelAll, Abstract!Next
<1>4. ASSUME NEW id \in DEFAULT..(MaxId - 1), RemoveTask(c, id)
      PROVE  [Abstract!Next]_(Abstract!vars)
  <2>1. PICK i \in 1..Len(mTaskQueue) :
          mTaskQueue' = SubSeq(mTaskQueue, 1, i - 1)
                          \o SubSeq(mTaskQueue, i + 1, Len(mTaskQueue))
    BY <1>4 DEF RemoveTask
  <2>2. UNCHANGED <<running, accepted, mLockOut, mExLock>>
    BY <1>4 DEF RemoveTask
  <2>3. /\ i \in 1..Len(Nums(mTaskQueue))
        /\ Nums(mTaskQueue)' = SubSeq(Nums(mTaskQueue), 1, i - 1)
                                 \o SubSeq(Nums(mTaskQueue), i + 1, Len(Nums(mTaskQueue)))
    BY <1>1, <2>1, NumsOfRest DEF Nums
  <2>4. Abstract!Cancel
    BY <2>2, <2>3 DEF Abstract!Cancel, Nums
  <2> QED BY <2>4 DEF Abstract!Next
<1> QED BY <1>2, <1>3, <1>4

\* Suspending and resuming, and the lock-out.
LEMMA ControlRefines ==
  ASSUME TypeOK, OwnerInv, NEW c \in Clients,
         \/ ExLock(c) \/ ExUnlock(c) \/ SetLockOut(c) \/ ClearLockOut(c)
         \/ EnableScheduleTask(c)
  PROVE  [Abstract!Next]_(Abstract!vars)
<1> USE DEF queueVars, lockVars, workerVars, clientVars, callVars
<1>1. CASE ExLock(c)
  <2>1. running = 0
    BY <1>1 DEF OwnerInv, ExLock
  <2>2. ~mExLock /\ mExLock' = TRUE /\ UNCHANGED mLockOut
    BY <1>1 DEF ExLock
  <2>3. UNCHANGED <<mTaskQueue, running, accepted>>
    BY <1>1 DEF ExLock
  <2>4. Abstract!Freeze
    BY <2>1, <2>2, <2>3 DEF Abstract!Freeze
  <2> QED BY <2>4 DEF Abstract!Next
<1>2. CASE ExUnlock(c)
  <2>1. mExLock /\ mExLock' = FALSE /\ UNCHANGED mLockOut
    BY <1>2 DEF ExUnlock
  <2>2. UNCHANGED <<mTaskQueue, running, accepted>>
    BY <1>2 DEF ExUnlock
  <2>3. Abstract!Thaw
    BY <2>1, <2>2 DEF Abstract!Thaw
  <2> QED BY <2>3 DEF Abstract!Next
<1>3. CASE SetLockOut(c) \/ ClearLockOut(c) \/ EnableScheduleTask(c)
  <2>1. UNCHANGED mExLock
    BY <1>3 DEF SetLockOut, ClearLockOut, EnableScheduleTask
  <2>2. UNCHANGED <<mTaskQueue, running, accepted>>
    BY <1>3 DEF SetLockOut, ClearLockOut, EnableScheduleTask
  <2>3. mLockOut' = mLockOut \/ mLockOut' = ~mLockOut
    BY <1>3 DEF SetLockOut, ClearLockOut, EnableScheduleTask, TypeOK, FlagsOK
  <2>4. CASE mLockOut' = mLockOut
    BY <2>1, <2>2, <2>4 DEF Abstract!vars
  <2>5. CASE mLockOut' = ~mLockOut
    <3>1. Abstract!SetIntake
      BY <2>1, <2>2, <2>5 DEF Abstract!SetIntake
    <3> QED BY <3>1 DEF Abstract!Next
  <2> QED BY <2>3, <2>4, <2>5
<1> QED BY <1>1, <1>2, <1>3

\* The steps that AsyncExecutor does not see.
LEMMA OthersStutter ==
  ASSUME NEW c \in Clients,
         \/ ScheduleTest(c) \/ ScheduleSkip(c) \/ SuspendScheduler(c) \/ StartScheduler(c)
         \/ ExLockThrows(c) \/ ExUnlockThrows(c) \/ StopScheduler(c)
         \/ StopTest(c) \/ StopNotify(c) \/ StopJoin(c)
  PROVE  [Abstract!Next]_(Abstract!vars)
<1> USE DEF queueVars, lockVars, workerVars, clientVars, callVars
<1>1. UNCHANGED <<mTaskQueue, running, accepted, mLockOut, mExLock>>
  BY DEF ScheduleTest, ScheduleSkip, SuspendScheduler, StartScheduler, ExLockThrows,
         ExUnlockThrows, StopScheduler, StopTest, StopNotify, StopJoin
<1> QED BY <1>1 DEF Abstract!vars

LEMMA AbstractStep == TypeOK /\ OwnerInv /\ [Next]_vars => [Abstract!Next]_(Abstract!vars)
<1> SUFFICES ASSUME TypeOK, OwnerInv, [Next]_vars PROVE [Abstract!Next]_(Abstract!vars)
  OBVIOUS
<1>1. CASE Worker \/ WorkerSpuriousWake
  BY <1>1, WorkerRefines
<1>2. ASSUME NEW c \in Clients, Continue(c) \/ Call(c) PROVE [Abstract!Next]_(Abstract!vars)
  BY <1>2, QueueRefines, ControlRefines, OthersStutter DEF Continue, Call
<1>3. ASSUME NEW c \in Clients, Control(c) PROVE [Abstract!Next]_(Abstract!vars)
  BY <1>3, QueueRefines, ControlRefines, OthersStutter DEF Control
<1>4. CASE UNCHANGED vars
  BY <1>4 DEF vars, queueVars, lockVars, workerVars, clientVars, callVars, Abstract!vars
<1> QED BY <1>1, <1>2, <1>3, <1>4, ClientsAssumption DEF Next

\* The scheduler implements AsyncExecutor: tasks start one at a time in the
\* order in which ScheduleTask accepted them, and none starts or runs between
\* mExLock.lock() and mExLock.unlock(), with any number of controllers.
THEOREM ImplementsAsyncExecutor == Spec => RunsTasksInOrder
<1> QED BY AbstractInit, OwnerInit, OwnerStep, AbstractStep, Typing, PTL
        DEF Spec, RunsTasksInOrder, Abstract!Spec
=============================================================================
