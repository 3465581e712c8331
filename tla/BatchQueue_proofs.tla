--------------------------- MODULE BatchQueue_proofs ---------------------------
(***************************************************************************)
(* Proofs about BatchQueue, for any number of jobs, workers and faults: no *)
(* queued job is lost, and the queue keeps what BatchQueuePromise says.    *)
(*                                                                         *)
(* A job that has not strayed is in one place only, and a worker that is   *)
(* busy with it finds it among the active ones, so nobody else can reserve *)
(* it.  A punctual worker holds its lock; so whoever takes a job's lock    *)
(* meets late workers at most.                                             *)
(***************************************************************************)
EXTENDS BatchQueue, SequenceTheorems, TLAPS

USE NamesAssumption

-----------------------------------------------------------------------------
(* The ready list. *)

\* LPUSH puts the job in, and moves the others.
LEMMA PushList ==
  ASSUME ready \in Seq(Jobs), NEW j \in Jobs, Push(j)
  PROVE  /\ ready' \in Seq(Jobs)
         /\ Listed' = Listed \cup {j}
         /\ \A k : Once(k) /\ (k # j \/ j \notin Listed) => Once(k)'
<1>1. <<j>> \in Seq(Jobs) /\ Len(<<j>>) = 1 /\ <<j>>[1] = j
  OBVIOUS
<1>2. /\ ready' \in Seq(Jobs) /\ Len(ready') = 1 + Len(ready)
      /\ \A i \in 1..(1 + Len(ready)) : ready'[i] = IF i <= 1 THEN <<j>>[i] ELSE ready[i - 1]
  BY <1>1, ConcatProperties DEF Push
<1>3. /\ DOMAIN ready = 1..Len(ready) /\ DOMAIN ready' = 1..(1 + Len(ready))
      /\ Len(ready) \in Nat
  BY <1>2
<1>4. ready'[1] = j /\ \A i \in DOMAIN ready : i + 1 \in DOMAIN ready' /\ ready'[i + 1] = ready[i]
  BY <1>1, <1>2, <1>3
<1>5. \A i \in DOMAIN ready' : i = 1 \/ (i - 1 \in DOMAIN ready /\ ready'[i] = ready[i - 1])
  BY <1>2, <1>3
<1>6. Listed' = Listed \cup {j}
  <2>1. \A x \in Listed' : x \in Listed \cup {j}
    BY <1>4, <1>5 DEF Listed
  <2>2. \A x \in Listed : x \in Listed'
    BY <1>4 DEF Listed
  <2>3. j \in Listed'
    BY <1>3, <1>4 DEF Listed
  <2> QED
    BY <2>1, <2>2, <2>3
<1>7. ASSUME NEW k, Once(k), k # j \/ j \notin Listed,
             NEW m \in DOMAIN ready', NEW n \in DOMAIN ready', ready'[m] = k, ready'[n] = k
      PROVE  m = n
  <2>1. \A i \in DOMAIN ready : ready[i] \in Listed
    BY DEF Listed
  <2>2. CASE k = j
    BY <1>5, <1>7, <2>1, <2>2
  <2>3. CASE k # j
    <3>1. m - 1 \in DOMAIN ready /\ n - 1 \in DOMAIN ready /\ ready[m - 1] = ready[n - 1]
          /\ ready[m - 1] = k
      BY <1>4, <1>5, <1>7, <2>3
    <3>2. m - 1 = n - 1
      BY <1>7, <3>1 DEF Once
    <3> QED
      BY <1>3, <3>2
  <2> QED
    BY <2>2, <2>3
<1> QED
  BY <1>2, <1>6, <1>7 DEF Once

\* RPOP takes one job out, for good if it was in the list once.
LEMMA PopList ==
  ASSUME ready \in Seq(Jobs), ready # <<>>, Pop
  PROVE  /\ ready' \in Seq(Jobs) /\ NextJob \in Jobs /\ NextJob \in Listed
         /\ Listed' \subseteq Listed /\ Listed \subseteq Listed' \cup {NextJob}
         /\ \A k : Once(k) => Once(k)'
         /\ Once(NextJob) => NextJob \notin Listed'
<1> DEFINE L == Len(ready)
<1>1. L \in Nat /\ DOMAIN ready = 1..L /\ L # 0
  BY EmptySeq
<1>2. \A i \in 1..(L - 1) : ready[i] \in Jobs
  BY <1>1
<1>3. /\ ready' \in Seq(Jobs) /\ Len(ready') = IF 1 <= L - 1 THEN L - 1 - 1 + 1 ELSE 0
      /\ \A i \in 1..(L - 1 - 1 + 1) : ready'[i] = ready[1 + i - 1]
  <2>1. 1 \in Int /\ L - 1 \in Int
    BY <1>1
  <2> QED
    BY <1>2, <2>1, SubSeqProperties DEF Pop
<1>4. /\ DOMAIN ready' = 1..(L - 1)
      /\ \A i \in 1..(L - 1) : ready'[i] = ready[i]
  <2>1. L - 1 - 1 + 1 = L - 1 /\ \A i \in 1..(L - 1) : 1 + i - 1 = i
    BY <1>1
  <2>2. Len(ready') = L - 1
    <3>1. CASE 1 <= L - 1
      BY <1>3, <2>1, <3>1
    <3>2. CASE ~(1 <= L - 1)
      <4>1. L - 1 = 0
        BY <1>1, <3>2
      <4>2. Len(ready') = 0
        BY <1>3, <3>2
      <4> QED
        BY <4>1, <4>2
    <3> QED
      BY <3>1, <3>2
  <2>3. DOMAIN ready' = 1..(L - 1)
    BY <1>3, <2>2
  <2> QED
    BY <1>3, <2>1, <2>3
<1>5. NextJob \in Jobs /\ NextJob \in Listed
  BY <1>1 DEF NextJob, Listed
<1>6. Listed' \subseteq Listed
  BY <1>1, <1>4 DEF Listed
<1>7. Listed \subseteq Listed' \cup {NextJob}
  <2>1. \A i \in DOMAIN ready : i \in 1..(L - 1) \/ i = L
    BY <1>1
  <2> QED
    BY <1>4, <2>1 DEF Listed, NextJob
<1>8. \A k : Once(k) => Once(k)'
  BY <1>1, <1>4 DEF Once
<1>9. ASSUME Once(NextJob) PROVE NextJob \notin Listed'
  BY <1>1, <1>4, <1>9 DEF Once, Listed, NextJob
<1> QED
  BY <1>3, <1>5, <1>6, <1>7, <1>8, <1>9

\* The list is not touched.
LEMMA SameList ==
  ASSUME UNCHANGED ready PROVE Listed' = Listed /\ \A k : Once(k)' <=> Once(k)
  BY DEF Listed, Once

-----------------------------------------------------------------------------
(* The invariant, action by action. *)

\* What Goto and Return do to the workers.
LEMMA GotoWorker ==
  ASSUME TypeOK, NEW w \in Workers, NEW s \in Steps, Goto(w, s)
  PROVE  /\ pc' \in [Workers -> Steps] /\ pc'[w] = s
         /\ \A v \in Workers \ {w} : pc'[v] = pc[v]
         /\ UNCHANGED <<job, late, strayed>>
  BY DEF TypeOK, Goto

LEMMA ReturnWorker ==
  ASSUME TypeOK, NEW w \in Workers, Return(w)
  PROVE  /\ pc' \in [Workers -> Steps] /\ job' \in [Workers -> Jobs \cup {None}]
         /\ pc'[w] = "idle" /\ job'[w] = None
         /\ \A v \in Workers \ {w} : pc'[v] = pc[v] /\ job'[v] = job[v]
         /\ late' = late \ {w} /\ UNCHANGED strayed
  BY DEF TypeOK, Return, Steps

LEMMA InitQueueInv == Init => QueueInv
<1> SUFFICES ASSUME Init PROVE QueueInv
  OBVIOUS
<1>1. TypeOK
  BY BoundAssumption DEF Init, TypeOK, Steps
<1>2. Listed = {} /\ \A k : Once(k)
  BY DEF Init, Listed, Once
<1>3. NothingLost /\ PlaceInv
  BY <1>2 DEF Init, NothingLost, PlaceInv
<1>4. WorkerInv /\ LockInv /\ ReservedInv
  BY DEF Init, WorkerInv, LockInv, ReservedInv, Busy
<1> QED
  BY <1>1, <1>3, <1>4 DEF QueueInv

LEMMA EnqueueStep == ASSUME QueueInv, NEW j \in Jobs, Enqueue(j) PROVE QueueInv'
<1>1. /\ ready' \in Seq(Jobs) /\ Listed' = Listed \cup {j}
      /\ \A k : Once(k) /\ (k # j \/ j \notin Listed) => Once(k)'
  BY PushList DEF QueueInv, TypeOK, Enqueue
<1>2. j \notin strayed => j \notin Listed \cup delayed \cup active
  BY DEF QueueInv, PlaceInv, Enqueue
<1>3. TypeOK'
  BY <1>1 DEF QueueInv, TypeOK, Enqueue, worker
<1>4. NothingLost' /\ PlaceInv'
  BY <1>1, <1>2 DEF QueueInv, NothingLost, PlaceInv, Enqueue, worker
<1>5. WorkerInv' /\ LockInv' /\ ReservedInv'
  BY DEF QueueInv, WorkerInv, LockInv, ReservedInv, Busy, Enqueue, worker
<1> QED
  BY <1>3, <1>4, <1>5 DEF QueueInv

LEMMA InflightExpiresStep ==
  ASSUME QueueInv, NEW j \in Jobs, InflightExpires(j) PROVE QueueInv'
<1>1. Listed' = Listed /\ \A k : Once(k)' <=> Once(k)
  BY SameList DEF InflightExpires
<1>2. TypeOK'
  BY BoundAssumption DEF QueueInv, TypeOK, InflightExpires, Fault
<1>3. NothingLost' /\ PlaceInv'
  BY <1>1 DEF QueueInv, NothingLost, PlaceInv, InflightExpires
<1>4. WorkerInv' /\ LockInv' /\ ReservedInv'
  BY DEF QueueInv, WorkerInv, LockInv, ReservedInv, Busy, InflightExpires
<1> QED
  BY <1>2, <1>3, <1>4 DEF QueueInv

LEMMA LockExpiresStep == ASSUME QueueInv, NEW j \in Jobs, LockExpires(j) PROVE QueueInv'
<1>1. Listed' = Listed /\ \A k : Once(k)' <=> Once(k)
  BY SameList DEF LockExpires, queue
<1>2. lock' \in [Jobs -> Workers \cup {None, Orphan}] /\ lock'[j] = None
      /\ \A k \in Jobs \ {j} : lock'[k] = lock[k]
  BY DEF QueueInv, TypeOK, LockExpires
<1>3. TypeOK'
  BY <1>2 DEF QueueInv, TypeOK, LockExpires, queue, worker
<1>4. NothingLost' /\ PlaceInv'
  BY <1>1 DEF QueueInv, NothingLost, PlaceInv, LockExpires, queue, worker
<1>5. WorkerInv' /\ ReservedInv'
  BY DEF QueueInv, WorkerInv, ReservedInv, Busy, LockExpires, queue, worker
<1>6. LockInv'
  BY <1>2 DEF QueueInv, TypeOK, WorkerInv, LockInv, LockExpires, worker
<1> QED
  BY <1>3, <1>4, <1>5, <1>6 DEF QueueInv

LEMMA MoveDueDelayedStep ==
  ASSUME QueueInv, NEW j \in Jobs, MoveDueDelayed(j) PROVE QueueInv'
<1>1. /\ ready' \in Seq(Jobs) /\ Listed' = Listed \cup {j}
      /\ \A k : Once(k) /\ (k # j \/ j \notin Listed) => Once(k)'
  BY PushList DEF QueueInv, TypeOK, MoveDueDelayed
<1>2. j \notin strayed => j \in inflight /\ j \notin Listed \cup active
  BY DEF QueueInv, PlaceInv, MoveDueDelayed
<1>3. TypeOK'
  BY <1>1 DEF QueueInv, TypeOK, MoveDueDelayed, worker
<1>4. NothingLost' /\ PlaceInv'
  BY <1>1, <1>2 DEF QueueInv, NothingLost, PlaceInv, MoveDueDelayed, worker
<1>5. WorkerInv' /\ LockInv' /\ ReservedInv'
  BY DEF QueueInv, WorkerInv, LockInv, ReservedInv, Busy, MoveDueDelayed, worker
<1> QED
  BY <1>3, <1>4, <1>5 DEF QueueInv

LEMMA RecoverStaleActiveStep ==
  ASSUME QueueInv, NEW j \in Jobs, RecoverStaleActive(j) PROVE QueueInv'
<1>1. /\ ready' \in Seq(Jobs) /\ Listed' = Listed \cup {j}
      /\ \A k : Once(k) /\ (k # j \/ j \notin Listed) => Once(k)'
  BY PushList DEF QueueInv, TypeOK, RecoverStaleActive
<1>2. j \notin strayed => j \in inflight /\ j \notin Listed \cup delayed
  BY DEF QueueInv, PlaceInv, RecoverStaleActive
<1>3. \A v \in Workers : Busy(v) /\ job[v] = j => j \in strayed
  BY DEF QueueInv, WorkerInv, Busy, RecoverStaleActive
<1>4. TypeOK'
  BY <1>1 DEF QueueInv, TypeOK, RecoverStaleActive, worker
<1>5. NothingLost' /\ PlaceInv'
  BY <1>1, <1>2 DEF QueueInv, NothingLost, PlaceInv, RecoverStaleActive, worker
<1>6. WorkerInv' /\ LockInv' /\ ReservedInv'
  BY <1>3 DEF QueueInv, WorkerInv, LockInv, ReservedInv, Busy, RecoverStaleActive, worker
<1> QED
  BY <1>4, <1>5, <1>6 DEF QueueInv

LEMMA ReserveStep == ASSUME QueueInv, NEW w \in Workers, Reserve(w) PROVE QueueInv'
<1> DEFINE n == NextJob
<1>1. /\ ready' \in Seq(Jobs) /\ n \in Jobs /\ n \in Listed
      /\ Listed' \subseteq Listed /\ Listed \subseteq Listed' \cup {n}
      /\ \A k : Once(k) => Once(k)'
      /\ Once(n) => n \notin Listed'
  BY PopList DEF QueueInv, TypeOK, Reserve
<1>2. /\ pc[w] = "idle" /\ active' = active \cup {n}
      /\ UNCHANGED <<delayed, inflight, lock, late, strayed>>
      /\ \/ UNCHANGED <<pc, job>>
         \/ pc' = [pc EXCEPT ![w] = "lock"] /\ job' = [job EXCEPT ![w] = n]
  BY DEF Reserve
<1>3. n \notin strayed => n \in inflight /\ n \notin delayed \cup active /\ n \notin Listed'
  BY <1>1 DEF QueueInv, PlaceInv
<1> HIDE DEF n
<1>4. /\ pc' \in [Workers -> Steps] /\ job' \in [Workers -> Jobs \cup {None}]
      /\ \A v \in Workers \ {w} : pc'[v] = pc[v] /\ job'[v] = job[v]
      /\ \/ pc'[w] = "lock" /\ job'[w] = n
         \/ pc'[w] = "idle" /\ job'[w] = job[w]
  BY <1>1, <1>2 DEF QueueInv, TypeOK, Steps
<1>5. w \notin late /\ \A j \in Jobs : lock[j] # w
  BY <1>2 DEF QueueInv, WorkerInv, LockInv
<1>6. TypeOK'
  <2>1. faults' \in 0..MaxFaults
    BY BoundAssumption DEF QueueInv, TypeOK, Reserve, Fault
  <2> QED
    BY <1>1, <1>2, <1>4, <1>5, <2>1 DEF QueueInv, TypeOK
<1>7. NothingLost' /\ PlaceInv'
  BY <1>1, <1>2, <1>3 DEF QueueInv, NothingLost, PlaceInv
<1>8. WorkerInv' /\ LockInv'
  BY <1>1, <1>2, <1>4, <1>5 DEF QueueInv, WorkerInv, LockInv
<1>9. ReservedInv'
  <2>1. \A v \in Workers \ {w} : (Busy(v))' <=> Busy(v)
    BY <1>4 DEF Busy
  <2>2. ~Busy(w) /\ (Busy(w)' => job'[w] = n)
    BY <1>2, <1>4 DEF Busy
  <2>3. \A v \in Workers : Busy(v) /\ n \notin strayed => job[v] # n
    BY <1>3 DEF QueueInv, ReservedInv
  <2> QED
    BY <1>2, <1>4, <2>1, <2>2, <2>3 DEF QueueInv, ReservedInv
<1> QED
  BY <1>6, <1>7, <1>8, <1>9 DEF QueueInv

\* No step but those of the lists moves a job that a worker is busy with.
LEMMA TryAcquireJobLockStep ==
  ASSUME QueueInv, NEW w \in Workers, TryAcquireJobLock(w) PROVE QueueInv'
<1> DEFINE j == job[w]
<1>1. pc[w] = "lock" /\ j \in Jobs /\ UNCHANGED <<ready, delayed, active, inflight>>
  BY DEF QueueInv, TypeOK, WorkerInv, TryAcquireJobLock, queue
<1>2. /\ pc' \in [Workers -> Steps] /\ pc'[w] \in {"process", "putback"}
      /\ \A v \in Workers \ {w} : pc'[v] = pc[v]
      /\ UNCHANGED <<job, late, strayed>>
  BY DEF QueueInv, TypeOK, TryAcquireJobLock, Goto, Steps
<1>3. \A k \in Jobs : lock[k] # w
  BY <1>1 DEF QueueInv, LockInv
<1>4. /\ lock' \in [Jobs -> Workers \cup {None, Orphan}]
      /\ \A k \in Jobs \ {j} : lock'[k] = lock[k]
      /\ \/ lock[j] = None /\ lock'[j] = w
         \/ lock[j] = None /\ lock'[j] = Orphan /\ pc'[w] = "putback"
         \/ lock'[j] = lock[j] /\ pc'[w] = "putback"
  BY <1>1 DEF QueueInv, TypeOK, TryAcquireJobLock, NotCalled, Goto
<1> HIDE DEF j
<1>5. faults' \in 0..MaxFaults
  BY BoundAssumption DEF QueueInv, TypeOK, TryAcquireJobLock, NotCalled, Fault
<1>6. j = job[w] /\ (lock'[j] = w => pc'[w] = "process")
  <2>1. lock'[j] = w => lock[j] = None
    BY <1>1, <1>3, <1>4
  <2> QED
    BY <1>1, <1>3, <2>1 DEF TryAcquireJobLock, NotCalled, Goto, QueueInv, TypeOK, j
<1>7. TypeOK'
  BY <1>1, <1>2, <1>4, <1>5, <1>6 DEF QueueInv, TypeOK
<1>8. Listed' = Listed /\ \A k : Once(k)' <=> Once(k)
  BY <1>1, SameList
<1>9. NothingLost' /\ PlaceInv'
  BY <1>1, <1>2, <1>8 DEF QueueInv, NothingLost, PlaceInv
<1>10. WorkerInv'
  BY <1>1, <1>2 DEF QueueInv, WorkerInv
<1>11. LockInv'
  BY <1>1, <1>2, <1>3, <1>4, <1>6 DEF QueueInv, TypeOK, WorkerInv, LockInv
<1>12. ReservedInv'
  <2>1. \A v \in Workers : Busy(v)' <=> Busy(v)
    BY <1>1, <1>2 DEF Busy
  <2> QED
    BY <1>1, <1>2, <2>1 DEF QueueInv, ReservedInv
<1> QED
  BY <1>7, <1>9, <1>10, <1>11, <1>12 DEF QueueInv

\* What Postpone and Remove do to the lists, and to the workers that are busy.
LEMMA PostponeStep ==
  ASSUME QueueInv, NEW j \in inflight \cup strayed, j \in Jobs, Postpone(j),
         UNCHANGED strayed, j \notin strayed => j \in active
  PROVE  NothingLost' /\ PlaceInv'
<1>1. Listed' = Listed /\ \A k : Once(k)' <=> Once(k)
  BY SameList DEF Postpone
<1> QED
  BY <1>1 DEF QueueInv, NothingLost, PlaceInv, Postpone

LEMMA RemoveStep ==
  ASSUME QueueInv, NEW j \in Jobs, Remove(j), UNCHANGED strayed, j \in Listed => j \in strayed
  PROVE  NothingLost' /\ PlaceInv'
<1>1. Listed' = Listed /\ \A k : Once(k)' <=> Once(k)
  BY SameList DEF Remove
<1> QED
  BY <1>1 DEF QueueInv, NothingLost, PlaceInv, Remove

LEMMA StayStep ==
  ASSUME QueueInv, UNCHANGED queue, strayed \subseteq strayed'
  PROVE  NothingLost' /\ PlaceInv'
<1>1. Listed' = Listed /\ \A k : Once(k)' <=> Once(k)
  BY SameList DEF queue
<1> QED
  BY <1>1 DEF QueueInv, NothingLost, PlaceInv, queue

\* A worker that is not busy any more leaves the others their reservations.
LEMMA QuitStep ==
  ASSUME QueueInv, NEW w \in Workers, ~Busy(w)', Busy(w),
         active' \in {active, active \ {job[w]}}, UNCHANGED strayed,
         \A v \in Workers \ {w} : pc'[v] = pc[v] /\ job'[v] = job[v]
  PROVE  ReservedInv'
<1>1. \A v \in Workers \ {w} : Busy(v)' <=> Busy(v)
  BY DEF Busy
<1> QED
  BY <1>1 DEF QueueInv, ReservedInv

LEMMA PutBackStep == ASSUME QueueInv, NEW w \in Workers, PutBack(w) PROVE QueueInv'
<1> DEFINE j == job[w]
<1>1. pc[w] = "putback" /\ j \in Jobs /\ UNCHANGED lock /\ Return(w)
  BY DEF QueueInv, TypeOK, WorkerInv, PutBack
<1>2. /\ pc' \in [Workers -> Steps] /\ job' \in [Workers -> Jobs \cup {None}]
      /\ pc'[w] = "idle" /\ job'[w] = None
      /\ \A v \in Workers \ {w} : pc'[v] = pc[v] /\ job'[v] = job[v]
      /\ late' = late \ {w} /\ UNCHANGED strayed
  BY <1>1, ReturnWorker DEF QueueInv
<1>3. Postpone(j) \/ UNCHANGED queue
  BY DEF PutBack, Called, NotCalled
<1>4. /\ active' \in {active, active \ {j}} /\ delayed' \in {delayed, delayed \cup {j}}
      /\ UNCHANGED <<ready, inflight>>
  BY <1>3 DEF Postpone, queue
<1>5. faults' \in 0..MaxFaults
  BY BoundAssumption DEF QueueInv, TypeOK, PutBack, Called, NotCalled, Fault
<1>6. \A k \in Jobs : lock[k] # w
  BY <1>1 DEF QueueInv, LockInv
<1>7. TypeOK'
  BY <1>1, <1>2, <1>4, <1>5, <1>6 DEF QueueInv, TypeOK
<1>8. NothingLost' /\ PlaceInv'
  <2>1. CASE UNCHANGED queue
    BY <1>2, <2>1, StayStep
  <2>2. CASE Postpone(j)
    <3>1. j \notin strayed => j \in active /\ j \in inflight
      BY <1>1 DEF QueueInv, ReservedInv, PlaceInv, Busy
    <3> QED
      BY <1>1, <1>2, <2>2, <3>1, PostponeStep
  <2> QED
    BY <1>3, <2>1, <2>2
<1>9. WorkerInv' /\ LockInv'
  BY <1>1, <1>2, <1>6 DEF QueueInv, WorkerInv, LockInv
<1>10. ReservedInv'
  <2>1. ~Busy(w)' /\ Busy(w)
    BY <1>1, <1>2 DEF Busy
  <2> QED
    BY <1>2, <1>4, <2>1, QuitStep
<1> QED
  BY <1>7, <1>8, <1>9, <1>10 DEF QueueInv

LEMMA ProcessStep == ASSUME QueueInv, NEW w \in Workers, Process(w) PROVE QueueInv'
<1>1. /\ pc[w] = "process" /\ pc' \in [Workers -> Steps] /\ pc'[w] \in {"ack", "requeue"}
      /\ \A v \in Workers \ {w} : pc'[v] = pc[v]
      /\ UNCHANGED <<queue, job, late, strayed, lock, faults>>
  BY DEF QueueInv, TypeOK, Process, Goto, Steps
<1>2. TypeOK'
  BY <1>1 DEF QueueInv, TypeOK, queue
<1>3. NothingLost' /\ PlaceInv'
  BY <1>1, StayStep
<1>4. WorkerInv' /\ LockInv'
  BY <1>1 DEF QueueInv, WorkerInv, LockInv
<1>5. ReservedInv'
  <2>1. \A v \in Workers : Busy(v)' <=> Busy(v)
    BY <1>1 DEF Busy
  <2> QED
    BY <1>1, <2>1 DEF QueueInv, ReservedInv, queue
<1> QED
  BY <1>2, <1>3, <1>4, <1>5 DEF QueueInv

LEMMA RequeueAfterStep == ASSUME QueueInv, NEW w \in Workers, RequeueAfter(w) PROVE QueueInv'
<1> DEFINE j == job[w]
<1>1. pc[w] = "requeue" /\ j \in Jobs /\ UNCHANGED lock /\ Goto(w, "release")
  BY DEF QueueInv, TypeOK, WorkerInv, RequeueAfter
<1>2. /\ pc' \in [Workers -> Steps] /\ pc'[w] = "release"
      /\ \A v \in Workers \ {w} : pc'[v] = pc[v]
      /\ UNCHANGED <<job, late, strayed>>
  BY <1>1, GotoWorker DEF QueueInv, Steps
<1>3. Postpone(j) \/ UNCHANGED queue
  BY DEF RequeueAfter, Called, NotCalled
<1>4. /\ active' \in {active, active \ {j}} /\ delayed' \in {delayed, delayed \cup {j}}
      /\ UNCHANGED <<ready, inflight>>
  BY <1>3 DEF Postpone, queue
<1>5. faults' \in 0..MaxFaults
  BY BoundAssumption DEF QueueInv, TypeOK, RequeueAfter, Called, NotCalled, Fault
<1>6. TypeOK'
  BY <1>1, <1>2, <1>4, <1>5 DEF QueueInv, TypeOK
<1>7. NothingLost' /\ PlaceInv'
  <2>1. CASE UNCHANGED queue
    BY <1>2, <2>1, StayStep
  <2>2. CASE Postpone(j)
    <3>1. j \notin strayed => j \in active /\ j \in inflight
      BY <1>1 DEF QueueInv, ReservedInv, PlaceInv, Busy
    <3> QED
      BY <1>1, <1>2, <2>2, <3>1, PostponeStep
  <2> QED
    BY <1>3, <2>1, <2>2
<1>8. WorkerInv' /\ LockInv'
  BY <1>1, <1>2 DEF QueueInv, WorkerInv, LockInv
<1>9. ReservedInv'
  <2>1. ~Busy(w)' /\ Busy(w)
    BY <1>1, <1>2 DEF Busy
  <2> QED
    BY <1>2, <1>4, <2>1, QuitStep
<1> QED
  BY <1>6, <1>7, <1>8, <1>9 DEF QueueInv

LEMMA AckStep == ASSUME QueueInv, NEW w \in Workers, Ack(w) PROVE QueueInv'
<1> DEFINE j == job[w]
<1>1. pc[w] = "ack" /\ j \in Jobs /\ UNCHANGED lock /\ Goto(w, "release")
  BY DEF QueueInv, TypeOK, WorkerInv, Ack
<1>2. /\ pc' \in [Workers -> Steps] /\ pc'[w] = "release"
      /\ \A v \in Workers \ {w} : pc'[v] = pc[v]
      /\ UNCHANGED <<job, late, strayed>>
  BY <1>1, GotoWorker DEF QueueInv, Steps
<1>3. Remove(j) \/ UNCHANGED queue
  BY DEF Ack, Called, NotCalled
<1>4. /\ active' \in {active, active \ {j}} /\ delayed' \in {delayed, delayed \ {j}}
      /\ inflight' \in {inflight, inflight \ {j}} /\ UNCHANGED ready
  BY <1>3 DEF Remove, queue
<1>5. faults' \in 0..MaxFaults
  BY BoundAssumption DEF QueueInv, TypeOK, Ack, Called, NotCalled, Fault
<1>6. TypeOK'
  BY <1>1, <1>2, <1>4, <1>5 DEF QueueInv, TypeOK
<1>7. NothingLost' /\ PlaceInv'
  <2>1. CASE UNCHANGED queue
    BY <1>2, <2>1, StayStep
  <2>2. CASE Remove(j)
    <3>1. j \in Listed => j \in strayed
      BY <1>1 DEF QueueInv, ReservedInv, PlaceInv, Busy
    <3> QED
      BY <1>1, <1>2, <2>2, <3>1, RemoveStep
  <2> QED
    BY <1>3, <2>1, <2>2
<1>8. WorkerInv' /\ LockInv'
  BY <1>1, <1>2 DEF QueueInv, WorkerInv, LockInv
<1>9. ReservedInv'
  <2>1. ~Busy(w)' /\ Busy(w)
    BY <1>1, <1>2 DEF Busy
  <2> QED
    BY <1>2, <1>4, <2>1, QuitStep
<1> QED
  BY <1>6, <1>7, <1>8, <1>9 DEF QueueInv

\* A worker returns from its job, and its lock is free or nobody's.
LEMMA LeaveStep ==
  ASSUME QueueInv, NEW w \in Workers, pc[w] # "idle", Return(w), UNCHANGED queue,
         NEW x \in {None, Orphan},
         lock' = [lock EXCEPT ![job[w]] = IF @ = w THEN x ELSE @],
         faults' \in 0..MaxFaults
  PROVE  QueueInv'
<1>1. /\ pc' \in [Workers -> Steps] /\ job' \in [Workers -> Jobs \cup {None}]
      /\ pc'[w] = "idle" /\ job'[w] = None
      /\ \A v \in Workers \ {w} : pc'[v] = pc[v] /\ job'[v] = job[v]
      /\ late' = late \ {w} /\ UNCHANGED strayed
  BY ReturnWorker DEF QueueInv
<1>2. /\ lock' \in [Jobs -> Workers \cup {None, Orphan}]
      /\ \A k \in Jobs : lock[k] # w => lock'[k] = lock[k]
      /\ \A k \in Jobs : lock'[k] # w
  <2>1. \A k \in Jobs : lock[k] = w => k = job[w]
    BY DEF QueueInv, LockInv
  <2>2. job[w] \in Jobs
    BY DEF QueueInv, TypeOK, WorkerInv
  <2>3. /\ lock' \in [Jobs -> Workers \cup {None, Orphan}]
        /\ \A k \in Jobs \ {job[w]} : lock'[k] = lock[k]
        /\ lock'[job[w]] = IF lock[job[w]] = w THEN x ELSE lock[job[w]]
    BY <2>2 DEF QueueInv, TypeOK
  <2>4. x # w
    OBVIOUS
  <2> QED
    BY <2>1, <2>3, <2>4
<1>3. \A k \in Jobs : lock'[k] \in Workers => lock'[k] = lock[k] /\ lock'[k] # w
  <2>1. \A k \in Jobs : lock'[k] \in Workers => lock[k] # w \/ lock'[k] = w
    BY DEF QueueInv, TypeOK, WorkerInv, LockInv
  <2> QED
    BY <1>2, <2>1
<1>4. TypeOK'
  BY <1>1, <1>2, <1>3 DEF QueueInv, TypeOK, queue
<1>5. NothingLost' /\ PlaceInv'
  BY <1>1, StayStep
<1>6. WorkerInv'
  BY <1>1 DEF QueueInv, WorkerInv
<1>7. LockInv'
  <2>1. \A v \in Workers, k \in Jobs : lock'[k] = v => v # w /\ lock[k] = v
    BY <1>3
  <2>2. \A v \in Workers \ {w} : pc[v] # "idle" => job[v] \in Jobs
    BY DEF QueueInv, TypeOK, WorkerInv
  <2> QED
    BY <1>1, <1>2, <2>1, <2>2 DEF QueueInv, LockInv
<1>8. ReservedInv'
  <2>1. ~Busy(w)' /\ \A v \in Workers \ {w} : Busy(v)' <=> Busy(v)
    BY <1>1 DEF Busy
  <2> QED
    BY <1>1, <2>1 DEF QueueInv, ReservedInv, queue
<1> QED
  BY <1>4, <1>5, <1>6, <1>7, <1>8 DEF QueueInv

LEMMA ReleaseStep == ASSUME QueueInv, NEW w \in Workers, Release(w) PROVE QueueInv'
<1>1. faults' \in 0..MaxFaults
  BY BoundAssumption DEF QueueInv, TypeOK, Release, Fault
<1> QED
  BY <1>1, LeaveStep DEF Release

LEMMA DieStep == ASSUME QueueInv, NEW w \in Workers, Die(w) PROVE QueueInv'
<1>1. faults' \in 0..MaxFaults
  BY BoundAssumption DEF QueueInv, TypeOK, Die, Fault
<1> QED
  BY <1>1, LeaveStep DEF Die

LEMMA BeLateStep == ASSUME QueueInv, NEW w \in Workers, BeLate(w) PROVE QueueInv'
<1>1. job[w] \in Jobs
  BY DEF QueueInv, TypeOK, WorkerInv, BeLate
<1>2. TypeOK'
  BY <1>1, BoundAssumption DEF QueueInv, TypeOK, BeLate, Fault, queue
<1>3. NothingLost' /\ PlaceInv'
  BY StayStep DEF BeLate
<1>4. WorkerInv' /\ LockInv'
  BY DEF QueueInv, WorkerInv, LockInv, BeLate
<1>5. ReservedInv'
  BY DEF QueueInv, ReservedInv, Busy, BeLate, queue
<1> QED
  BY <1>2, <1>3, <1>4, <1>5 DEF QueueInv

LEMMA NextQueueInv == ASSUME QueueInv, [Next]_vars PROVE QueueInv'
<1>1. CASE UNCHANGED vars
  <2>1. Listed' = Listed /\ \A k : Once(k)' <=> Once(k)
    BY <1>1, SameList DEF vars, queue
  <2> QED
    BY <1>1, <2>1 DEF vars, queue, worker, QueueInv, TypeOK, NothingLost, WorkerInv, LockInv,
       PlaceInv, ReservedInv, Busy
<1>2. ASSUME NEW w \in Workers, Work(w) PROVE QueueInv'
  BY <1>2, ReserveStep, TryAcquireJobLockStep, PutBackStep, ProcessStep, RequeueAfterStep,
     AckStep, ReleaseStep DEF Work
<1>3. ASSUME NEW j \in Jobs,
             \/ Enqueue(j) \/ InflightExpires(j)
             \/ LockExpires(j) \/ MoveDueDelayed(j) \/ RecoverStaleActive(j)
      PROVE  QueueInv'
  BY <1>3, EnqueueStep, InflightExpiresStep, LockExpiresStep, MoveDueDelayedStep,
     RecoverStaleActiveStep
<1> QED
  BY <1>1, <1>2, <1>3, DieStep, BeLateStep DEF Next

-----------------------------------------------------------------------------

\* The queue's inductive invariant, whatever the workers, the recovery, the
\* mover of delayed jobs and the expiry of keys do (batch_image_queue.go).
THEOREM Invariance == Spec => []QueueInv
  BY InitQueueInv, NextQueueInv, PTL DEF Spec

\* The lists, keys, locks and workers are what the code takes them for.
THEOREM TypeCorrect == Spec => []TypeOK
<1>1. QueueInv => TypeOK
  BY DEF QueueInv
<1> QED
  BY <1>1, Invariance, PTL

\* No script, MULTI block, crash or error leaves a queued job outside the lists
\* (batchImageReserveScript, batchImageEnqueueScript, RequeueAfter, Ack).
THEOREM NoJobLost == Spec => []NothingLost
<1>1. QueueInv => NothingLost
  BY DEF QueueInv
<1> QED
  BY <1>1, Invariance, PTL

-----------------------------------------------------------------------------
(* The queue implements BatchQueuePromise: the initial state and every step. *)

\* A step that moves one worker to or from its job, on the mapped state.
LEMMA WorkMove ==
  ASSUME NEW w \in Workers, NEW x, WorksOn(w)' = x,
         \A v \in Workers \ {w} : pc'[v] = pc[v] /\ job'[v] = job[v]
  PROVE  [v \in Workers |-> WorksOn(v)]'
           = [[v \in Workers |-> WorksOn(v)] EXCEPT ![w] = x]
<1>1. \A v \in Workers \ {w} : WorksOn(v)' = WorksOn(v)
  BY DEF WorksOn
<1> QED
  BY <1>1

\* No worker starts on a job or leaves it.
LEMMA WorkStays ==
  ASSUME \A v \in Workers : WorksOn(v)' = WorksOn(v)
  PROVE  [v \in Workers |-> WorksOn(v)]' = [v \in Workers |-> WorksOn(v)]
  OBVIOUS

LEMMA JobStep ==
  ASSUME QueueInv, NEW j \in Jobs,
         \/ Enqueue(j) \/ InflightExpires(j)
         \/ LockExpires(j) \/ MoveDueDelayed(j) \/ RecoverStaleActive(j)
  PROVE  [Promise!Next]_(Promise!vars)
<1>1. UNCHANGED <<pc, job, late>>
  BY DEF Enqueue, InflightExpires, LockExpires, MoveDueDelayed, RecoverStaleActive, worker
<1>2. [v \in Workers |-> WorksOn(v)]' = [v \in Workers |-> WorksOn(v)]
  BY <1>1, WorkStays DEF WorksOn
<1>3. CASE Enqueue(j)
  <2>1. Promise!Put(j)
    BY <1>2, <1>3 DEF Enqueue, worker, Promise!Put
  <2> QED
    BY <2>1 DEF Promise!Next
<1>4. CASE InflightExpires(j)
  <2>1. Promise!Expire(j)
    BY <1>2, <1>4 DEF InflightExpires, Promise!Expire
  <2> QED
    BY <2>1 DEF Promise!Next
<1>5. CASE LockExpires(j) \/ MoveDueDelayed(j) \/ RecoverStaleActive(j)
  BY <1>1, <1>2, <1>5
     DEF LockExpires, MoveDueDelayed, RecoverStaleActive, worker, queue, Promise!vars
<1> QED
  BY <1>3, <1>4, <1>5

\* Whoever gets a job's lock starts on it; a punctual worker on it would have
\* that lock, and the job is queued unless it has strayed.
LEMMA AcquireIsStart ==
  ASSUME QueueInv, NEW w \in Workers, TryAcquireJobLock(w), pc'[w] = "process"
  PROVE  Promise!Start(w, job[w])
<1> DEFINE j == job[w]
<1>1. /\ pc[w] = "lock" /\ j \in Jobs /\ lock[j] = None
      /\ UNCHANGED <<ready, delayed, active, inflight, job, late, strayed>>
      /\ \A v \in Workers \ {w} : pc'[v] = pc[v]
  BY DEF QueueInv, TypeOK, WorkerInv, TryAcquireJobLock, Goto, NotCalled, queue
<1>2. WorksOn(w) = None /\ WorksOn(w)' = j
  BY <1>1 DEF WorksOn
<1>3. j \in inflight \cup strayed
  BY <1>1 DEF QueueInv, ReservedInv, PlaceInv, Busy
<1>4. \A v \in Workers : WorksOn(v) = j => v \in late
  BY <1>1 DEF QueueInv, LockInv, WorksOn
<1>5. [v \in Workers |-> WorksOn(v)]' = [[v \in Workers |-> WorksOn(v)] EXCEPT ![w] = j]
  BY <1>1, <1>2, WorkMove
<1> HIDE DEF j
<1>6. Promise!Start(w, j)
  BY <1>1, <1>2, <1>3, <1>4, <1>5 DEF Promise!Start
<1> QED
  BY <1>6 DEF j

\* A worker that returns is punctual, and leaves the job it may have worked on.
LEMMA ReturnIsLeave ==
  ASSUME QueueInv, NEW w \in Workers, Return(w), UNCHANGED inflight
  PROVE  Promise!Leave(w) \/ Promise!BePunctual(w)
<1>1. /\ pc'[w] = "idle" /\ late' = late \ {w} /\ UNCHANGED strayed
      /\ \A v \in Workers \ {w} : pc'[v] = pc[v] /\ job'[v] = job[v]
  BY ReturnWorker DEF QueueInv
<1>2. WorksOn(w)' = None
  BY <1>1 DEF WorksOn
<1>3. [v \in Workers |-> WorksOn(v)]' = [[v \in Workers |-> WorksOn(v)] EXCEPT ![w] = None]
  BY <1>1, <1>2, WorkMove
<1>4. CASE WorksOn(w) = None
  <2>1. [v \in Workers |-> WorksOn(v)]' = [v \in Workers |-> WorksOn(v)]
    BY <1>3, <1>4
  <2> QED
    BY <1>1, <1>4, <2>1 DEF Promise!BePunctual
<1>5. CASE WorksOn(w) # None
  BY <1>1, <1>3, <1>5 DEF Promise!Leave
<1> QED
  BY <1>4, <1>5

\* A worker that has done its part leaves the job, and takes it out with Ack.
LEMMA DoneIsLeave ==
  ASSUME QueueInv, NEW w \in Workers, Ack(w) \/ RequeueAfter(w)
  PROVE  Promise!Leave(w)
<1>1. pc[w] \in {"ack", "requeue"} /\ Goto(w, "release")
  BY DEF Ack, RequeueAfter
<1>2. /\ pc'[w] = "release" /\ \A v \in Workers \ {w} : pc'[v] = pc[v]
      /\ UNCHANGED <<job, late, strayed>>
  BY <1>1, GotoWorker DEF QueueInv, Steps
<1>3. WorksOn(w) = job[w] /\ WorksOn(w) # None /\ WorksOn(w)' = None
  BY <1>1, <1>2 DEF QueueInv, WorkerInv, WorksOn
<1>4. [v \in Workers |-> WorksOn(v)]' = [[v \in Workers |-> WorksOn(v)] EXCEPT ![w] = None]
  BY <1>2, <1>3, WorkMove
<1>5. inflight' \in {inflight, inflight \ {job[w]}}
  BY DEF Ack, RequeueAfter, Called, NotCalled, Remove, Postpone, queue
<1> QED
  BY <1>2, <1>3, <1>4, <1>5 DEF Promise!Leave

LEMMA WorkerStep ==
  ASSUME QueueInv, NEW w \in Workers, Work(w) \/ Die(w) \/ BeLate(w)
  PROVE  [Promise!Next]_(Promise!vars)
<1>1. CASE BeLate(w)
  <2>1. job[w] \in Jobs
    BY <1>1 DEF QueueInv, TypeOK, WorkerInv, BeLate
  <2>2. [v \in Workers |-> WorksOn(v)]' = [v \in Workers |-> WorksOn(v)]
    BY <1>1, WorkStays DEF WorksOn, BeLate
  <2>3. Promise!BeLate(w, job[w])
    BY <1>1, <2>2 DEF BeLate, queue, Promise!BeLate
  <2> QED
    BY <2>1, <2>3 DEF Promise!Next
<1>2. CASE Die(w) \/ Release(w) \/ PutBack(w)
  <2>1. Return(w) /\ UNCHANGED inflight
    BY <1>2 DEF Die, Release, PutBack, Called, NotCalled, Postpone, queue
  <2> QED
    BY <2>1, ReturnIsLeave DEF Promise!Next
<1>3. CASE Ack(w) \/ RequeueAfter(w)
  BY <1>3, DoneIsLeave DEF Promise!Next
<1>4. CASE TryAcquireJobLock(w) /\ pc'[w] = "process"
  <2>1. job[w] \in Jobs
    BY <1>4 DEF QueueInv, TypeOK, WorkerInv, TryAcquireJobLock
  <2> QED
    BY <1>4, <2>1, AcquireIsStart DEF Promise!Next
<1>5. CASE \/ TryAcquireJobLock(w) /\ pc'[w] # "process"
           \/ Reserve(w) \/ Process(w)
  <2>1. \A v \in Workers : WorksOn(v)' = WorksOn(v)
    BY <1>5 DEF QueueInv, TypeOK, TryAcquireJobLock, Reserve, Process, Goto, NotCalled, WorksOn
  <2>2. UNCHANGED <<inflight, late, strayed>>
    BY <1>5 DEF TryAcquireJobLock, Reserve, Process, Goto, NotCalled, queue
  <2> QED
    BY <2>1, <2>2, WorkStays DEF Promise!vars
<1> QED
  BY <1>1, <1>2, <1>3, <1>4, <1>5 DEF Work

\* The queue of batch image jobs implements what it promises (Enqueue, RunOnce,
\* Ack, the token of the lock and the heartbeats).
THEOREM Refinement == Spec => KeepsPromise
<1>1. Init => Promise!Init
  BY DEF Init, Promise!Init, WorksOn
<1>2. QueueInv /\ [Next]_vars => [Promise!Next]_(Promise!vars)
  <2> SUFFICES ASSUME QueueInv, [Next]_vars PROVE [Promise!Next]_(Promise!vars)
    OBVIOUS
  <2>1. CASE UNCHANGED vars
    <3>1. [v \in Workers |-> WorksOn(v)]' = [v \in Workers |-> WorksOn(v)]
      BY <2>1, WorkStays DEF vars, worker, WorksOn
    <3> QED
      BY <2>1, <3>1 DEF vars, queue, worker, Promise!vars
  <2> QED
    BY <2>1, JobStep, WorkerStep DEF Next
<1> QED
  BY <1>1, <1>2, Invariance, PTL DEF Spec, KeepsPromise, Promise!Spec
=============================================================================
