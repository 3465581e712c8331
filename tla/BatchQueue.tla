------------------------------ MODULE BatchQueue ------------------------------
(***************************************************************************)
(* The Redis queue of batch image jobs (batch_image_queue.go) and the      *)
(* worker loop around it (batch_image_worker.go): a ready list, a sorted   *)
(* set of delayed jobs, a sorted set of active ones with the time they     *)
(* were last heard of, a key per queued job that keeps it from being       *)
(* queued twice, and a lock per job that a worker refreshes.               *)
(*                                                                         *)
(* Scripts and MULTI blocks are one step each.  Times are left out: a      *)
(* delayed job may become due at any moment, a lock whose owner is gone    *)
(* may expire, an active job nobody refreshes may be found stale.  A       *)
(* worker that is late has missed its heartbeats for that long, because it *)
(* stalled or could not reach Redis, and goes on regardless.               *)
(***************************************************************************)
EXTENDS Naturals, Sequences, FiniteSets, Faults

CONSTANTS
  Jobs, Workers,
  None,     \* no worker, no job
  Orphan    \* a lock token whose owner is gone

ASSUME NamesAssumption ==
  None \notin Workers \cup Jobs /\ Orphan \notin Workers \cup {None}
ASSUME BoundAssumption == MaxFaults \in Nat

VARIABLES
  ready,    \* batch_image:queue:ready, the next job last
  delayed,  \* members of batch_image:queue:delayed
  active,   \* members of batch_image:queue:active
  inflight, \* the jobs with a key batch_image:queue:inflight:*
  lock,     \* batch_image:queue:lock:*, by the worker whose token it holds
  pc, job,  \* per worker: next step of RunOnce, and its job
  late,     \* the workers that missed their heartbeats
  strayed   \* history: the jobs a worker was late on, or that stayed for a week

queue  == <<ready, delayed, active, inflight>>
worker == <<pc, job, late, strayed>>
vars   == <<queue, lock, worker, faults>>

Steps == {"idle", "lock", "putback", "process", "requeue", "ack", "release"}

TypeOK ==
  /\ ready \in Seq(Jobs)
  /\ delayed \subseteq Jobs /\ active \subseteq Jobs /\ inflight \subseteq Jobs
  /\ lock \in [Jobs -> Workers \cup {None, Orphan}]
  /\ \A j \in Jobs : lock[j] \in Workers => job[lock[j]] = j
  /\ pc \in [Workers -> Steps]
  /\ job \in [Workers -> Jobs \cup {None}]
  /\ late \subseteq Workers /\ strayed \subseteq Jobs
  /\ faults \in 0..MaxFaults

Init ==
  /\ ready = <<>> /\ delayed = {} /\ active = {} /\ inflight = {}
  /\ lock = [j \in Jobs |-> None]
  /\ pc = [w \in Workers |-> "idle"]
  /\ job = [w \in Workers |-> None]
  /\ late = {} /\ strayed = {} /\ faults = 0

\* A call to Redis succeeds, is not made, or is made and its answer lost.
Called(effect)  == effect /\ (UNCHANGED faults \/ Fault)
NotCalled(what) == UNCHANGED what /\ Fault

Goto(w, s) == pc' = [pc EXCEPT ![w] = s] /\ UNCHANGED <<job, late, strayed>>

\* RunOnce returns.
Return(w) ==
  /\ pc' = [pc EXCEPT ![w] = "idle"]
  /\ job' = [job EXCEPT ![w] = None]
  /\ late' = late \ {w}
  /\ UNCHANGED strayed

-----------------------------------------------------------------------------
(* Queueing a job, by a request or by the recovery of holds. *)

Push(j) == ready' = <<j>> \o ready

Enqueue(j) ==
  /\ j \notin inflight
  /\ inflight' = inflight \cup {j} /\ Push(j)
  /\ UNCHANGED <<delayed, active, lock, worker, faults>>

\* The key of a job that is still queued expires after seven days.
InflightExpires(j) ==
  /\ j \in inflight /\ Fault
  /\ inflight' = inflight \ {j} /\ strayed' = strayed \cup {j}
  /\ UNCHANGED <<ready, delayed, active, lock, pc, job, late>>

-----------------------------------------------------------------------------
(* RunOnce. *)

Pop == ready' = SubSeq(ready, 1, Len(ready) - 1)
NextJob == ready[Len(ready)]

\* Slip: RPOP and ZADD are two calls, and the process dies between them.
ReserveInTwoCalls(w) ==
  /\ pc[w] = "idle" /\ ready # <<>> /\ Pop
  /\ \/ /\ active' = active \cup {NextJob}
        /\ pc' = [pc EXCEPT ![w] = "lock"] /\ job' = [job EXCEPT ![w] = NextJob]
        /\ UNCHANGED faults
     \/ UNCHANGED <<active, pc, job>> /\ Fault
  /\ UNCHANGED <<delayed, inflight, lock, late, strayed>>

Reserve(w) ==
  /\ pc[w] = "idle" /\ ready # <<>> /\ Pop
  /\ active' = active \cup {NextJob}
  /\ \/ /\ pc' = [pc EXCEPT ![w] = "lock"] /\ job' = [job EXCEPT ![w] = NextJob]
        /\ UNCHANGED faults
     \/ UNCHANGED <<pc, job>> /\ Fault
  /\ UNCHANGED <<delayed, inflight, lock, late, strayed>>

\* An error leaves a token behind that nobody releases.
TryAcquireJobLock(w) ==
  /\ pc[w] = "lock"
  /\ LET j == job[w] IN
     \/ /\ lock[j] = None /\ lock' = [lock EXCEPT ![j] = w]
        /\ Goto(w, "process") /\ UNCHANGED faults
     \/ /\ lock[j] = None /\ lock' = [lock EXCEPT ![j] = Orphan]
        /\ Goto(w, "putback") /\ Fault
     \/ lock[j] # None /\ UNCHANGED <<lock, faults>> /\ Goto(w, "putback")
     \/ NotCalled(lock) /\ Goto(w, "putback")
  /\ UNCHANGED queue

\* RequeueAfter; the delay is never zero.
Postpone(j) ==
  /\ active' = active \ {j} /\ delayed' = delayed \cup {j}
  /\ UNCHANGED <<ready, inflight>>

\* A worker that did not get the lock puts the job back and returns.
PutBack(w) ==
  /\ pc[w] = "putback" /\ Return(w)
  /\ Called(Postpone(job[w])) \/ NotCalled(queue)
  /\ UNCHANGED lock

\* Process: the job has ended, or it is to be looked at again.
Process(w) ==
  /\ pc[w] = "process"
  /\ Goto(w, "ack") \/ Goto(w, "requeue")
  /\ UNCHANGED <<queue, lock, faults>>

RequeueAfter(w) ==
  /\ pc[w] = "requeue" /\ Goto(w, "release")
  /\ Called(Postpone(job[w])) \/ NotCalled(queue)
  /\ UNCHANGED lock

Remove(j) ==
  /\ active' = active \ {j} /\ delayed' = delayed \ {j}
  /\ inflight' = inflight \ {j}
  /\ UNCHANGED ready

Ack(w) ==
  /\ pc[w] = "ack" /\ Goto(w, "release")
  /\ Called(Remove(job[w])) \/ NotCalled(queue)
  /\ UNCHANGED lock

\* Slip: the lock is deleted whoever holds it.
ReleaseAnyLock(w) ==
  /\ pc[w] = "release" /\ Return(w)
  /\ lock' = [lock EXCEPT ![job[w]] = None]
  /\ UNCHANGED <<queue, faults>>

\* The deferred release compares the token.
Release(w) ==
  /\ pc[w] = "release" /\ Return(w)
  /\ \/ /\ lock' = [lock EXCEPT ![job[w]] = IF @ = w THEN None ELSE @]
        /\ UNCHANGED faults
     \/ lock' = [lock EXCEPT ![job[w]] = IF @ = w THEN Orphan ELSE @] /\ Fault
  /\ UNCHANGED queue

\* A crash, or a shutdown, whose cancelled context makes the last calls fail.
Die(w) ==
  /\ pc[w] # "idle" /\ Fault /\ Return(w)
  /\ lock' = [lock EXCEPT ![job[w]] = IF @ = w THEN Orphan ELSE @]
  /\ UNCHANGED queue

-----------------------------------------------------------------------------
(* Time.  The heartbeats of a worker keep its lock and its reservation alive *)
(* unless it is late.                                                        *)

BeLate(w) ==
  /\ pc[w] # "idle" /\ w \notin late /\ Fault
  /\ late' = late \cup {w} /\ strayed' = strayed \cup {job[w]}
  /\ UNCHANGED <<queue, lock, pc, job>>

LockExpires(j) ==
  /\ lock[j] \in late \cup {Orphan}
  /\ lock' = [lock EXCEPT ![j] = None]
  /\ UNCHANGED <<queue, worker, faults>>

MoveDueDelayed(j) ==
  /\ j \in delayed
  /\ delayed' = delayed \ {j} /\ Push(j)
  /\ UNCHANGED <<active, inflight, lock, worker, faults>>

RecoverStaleActive(j) ==
  /\ j \in active
  /\ \A w \in Workers : job[w] = j => w \in late \/ pc[w] = "release"
  /\ active' = active \ {j} /\ Push(j)
  /\ UNCHANGED <<delayed, inflight, lock, worker, faults>>

-----------------------------------------------------------------------------
Work(w) ==
  \/ Reserve(w) \/ TryAcquireJobLock(w) \/ PutBack(w) \/ Process(w)
  \/ RequeueAfter(w) \/ Ack(w) \/ Release(w)

Next ==
  \/ \E j \in Jobs :
       \/ Enqueue(j) \/ InflightExpires(j)
       \/ LockExpires(j) \/ MoveDueDelayed(j) \/ RecoverStaleActive(j)
  \/ \E w \in Workers : Work(w) \/ Die(w) \/ BeLate(w)

\* Workers, the mover and the recovery run in endless loops, and time passes.
Fairness ==
  /\ \A w \in Workers : WF_vars(Work(w))
  /\ \A j \in Jobs :
       WF_vars(LockExpires(j)) /\ WF_vars(MoveDueDelayed(j)) /\ WF_vars(RecoverStaleActive(j))

Spec == Init /\ [][Next]_vars /\ Fairness

-----------------------------------------------------------------------------
(* What is checked. *)

Listed == {ready[i] : i \in DOMAIN ready}

\* The queue keeps what its users rely on (Enqueue, RunOnce, the token of the
\* lock and the heartbeats): see BatchQueuePromise.
WorksOn(w) == IF pc[w] \in {"process", "requeue", "ack"} THEN job[w] ELSE None
Promise == INSTANCE BatchQueuePromise WITH
  queued <- inflight, working <- [w \in Workers |-> WorksOn(w)]
KeepsPromise == Promise!Spec

\* A queued job is in one of the lists, where some loop finds it: neither a
\* script nor a MULTI block leaves it outside (batchImageReserveScript,
\* batchImageEnqueueScript, RequeueAfter, Ack, RecoverStaleActive).
NothingLost == inflight \subseteq Listed \cup delayed \cup active

\* A queued job is worked on, whatever dies, expires or goes stale on the way
\* (RunOnce, RunDelayedMover, RunStaleActiveRecovery).
QueuedIsProcessed ==
  \A j \in Jobs :
    j \in inflight ~> j \notin inflight \/ \E w \in Workers : WorksOn(w) = j

-----------------------------------------------------------------------------
(* The inductive invariant behind NothingLost and KeepsPromise.  What it says *)
(* of a job's place holds until the job has strayed, and then no more.        *)

Busy(w) == pc[w] \in {"lock", "putback", "process", "requeue", "ack"}

\* A worker has a job unless it is idle, and is late only on one that strayed.
WorkerInv ==
  \A w \in Workers :
    /\ pc[w] = "idle" <=> job[w] = None
    /\ w \in late => pc[w] # "idle" /\ job[w] \in strayed

\* A punctual worker has its job's lock from the time it got it.
LockInv ==
  \A w \in Workers :
    /\ \A j \in Jobs : lock[j] = w =>
         pc[w] \in {"process", "requeue", "ack", "release"} /\ job[w] = j
    /\ pc[w] \in {"process", "requeue", "ack"} /\ w \notin late => lock[job[w]] = w

Once(j) == \A m, n \in DOMAIN ready : ready[m] = j /\ ready[n] = j => m = n

\* A job is in one place at most, and in none but while it is queued.
PlaceInv ==
  \A j \in Jobs \ strayed :
    /\ j \in Listed \cup delayed \cup active => j \in inflight
    /\ j \in Listed => j \notin delayed \cup active
    /\ j \notin delayed \cap active
    /\ Once(j)

\* One worker at most is busy with a job, which is reserved for it.
ReservedInv ==
  \A w \in Workers : Busy(w) /\ job[w] \notin strayed =>
    /\ job[w] \in active
    /\ \A v \in Workers : Busy(v) /\ job[v] = job[w] => v = w

QueueInv ==
  TypeOK /\ NothingLost /\ WorkerInv /\ LockInv /\ PlaceInv /\ ReservedInv
=============================================================================
