-------------------------- MODULE BatchQueuePromise --------------------------
(* What the queue of batch image jobs promises its users: a job that was     *)
(* put in stays until a worker that has finished with it takes it out, and   *)
(* a worker never starts on a job another one works on unless that one is    *)
(* late, that is, was silent for longer than its lock lasts.                 *)
CONSTANTS Jobs, Workers, None

VARIABLES
  queued,  \* the jobs that are in the queue
  working, \* per worker: the job it works on, or None
  late,    \* the workers that are late
  strayed  \* the jobs a worker was late on, or that stayed for a week

vars == <<queued, working, late, strayed>>

Init ==
  /\ queued = {} /\ late = {} /\ strayed = {}
  /\ working = [w \in Workers |-> None]

Put(j) ==
  /\ queued' = queued \cup {j}
  /\ UNCHANGED <<working, late, strayed>>

Start(w, j) ==
  /\ working[w] = None /\ j \in queued \cup strayed
  /\ \A v \in Workers : working[v] = j => v \in late
  /\ working' = [working EXCEPT ![w] = j]
  /\ UNCHANGED <<queued, late, strayed>>

\* The worker leaves the job, which it takes out if it has finished with it.
Leave(w) ==
  /\ working[w] # None
  /\ \/ UNCHANGED queued
     \/ queued' = queued \ {working[w]}
  /\ working' = [working EXCEPT ![w] = None]
  /\ late' \in {late, late \ {w}}
  /\ UNCHANGED strayed

BeLate(w, j) ==
  /\ late' = late \cup {w} /\ strayed' = strayed \cup {j}
  /\ UNCHANGED <<queued, working>>

BePunctual(w) ==
  /\ working[w] = None /\ late' = late \ {w}
  /\ UNCHANGED <<queued, working, strayed>>

Expire(j) ==
  /\ queued' = queued \ {j} /\ strayed' = strayed \cup {j}
  /\ UNCHANGED <<working, late>>

Next ==
  \/ \E j \in Jobs : Put(j) \/ Expire(j)
  \/ \E w \in Workers :
       Leave(w) \/ BePunctual(w) \/ \E j \in Jobs : Start(w, j) \/ BeLate(w, j)

Spec == Init /\ [][Next]_vars
=============================================================================
