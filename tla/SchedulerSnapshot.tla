--------------------------- MODULE SchedulerSnapshot ---------------------------
(***************************************************************************)
(* The scheduler's view of the upstream accounts:                          *)
(* scheduler_snapshot_service.go, scheduler_cache.go and                   *)
(* scheduler_outbox_repo.go.                                               *)
(*                                                                         *)
(* The accounts that may serve a group are kept in Redis, in buckets, as   *)
(* snapshots with growing version numbers.  A change in the database       *)
(* writes an event to an outbox.  Every process polls the outbox behind a  *)
(* watermark they share, and rebuilds what an event is about; from time to *)
(* time it rebuilds everything; and a request that finds no snapshot loads *)
(* the accounts and publishes them itself.  The buckets of a group that is *)
(* no longer active are retired, and reopened with it.  Retiring moves a   *)
(* bucket to its next epoch, which shuts out writers that began before.    *)
(*                                                                         *)
(* This module follows one bucket of one group.  Event ids are drawn when  *)
(* a transaction writes the event and are seen when it commits.  Any task  *)
(* may fail between two steps, and its process may die there.  A batch of  *)
(* events is handled one event at a time; events about one account, about  *)
(* many and about last use differ only in the buckets they lead to.        *)
(***************************************************************************)
EXTENDS Naturals, Sequences, FiniteSetsExt, SequencesExt, Faults

CONSTANTS
  Pollers,    \* goroutines that poll the outbox
  Rebuilders, \* goroutines that rebuild everything
  Lookups,   \* requests that look for a snapshot
  None,
  MaxChanges  \* bound: how many changes are made

Tasks == Pollers \cup Rebuilders \cup Lookups
Kinds == {"account", "group"}

ASSUME TasksAssumption ==
  /\ Pollers \cap Rebuilders = {} /\ Lookups \cap (Pollers \cup Rebuilders) = {}
  /\ None \notin Tasks
ASSUME BoundsAssumption == MaxChanges \in Nat /\ MaxFaults \in Nat

VARIABLES
  data,      \* the accounts of the group in the database, numbered by their changes
  groupOn,   \* the group is active
  tx,        \* open transaction, by kind: the id of its event, 0 if a pending one stands for it
  events,    \* the outbox, by id: kind and state of the event
  changes,   \* how many changes were begun
  watermark,
  epoch, retired, \* of the bucket
  active,    \* the published snapshot, if any
  lock,      \* somebody rebuilds the bucket
  lease,     \* who decides on the group's buckets
  task, event, strict, \* per task: next step, event it handles, whether it reopened the bucket
  token, loaded, \* per task: epoch and accounts it holds
  numbered,  \* tasks whose snapshot number is above the published one's, ascending
  fresh      \* history: tasks whose accounts were loaded since the bucket was last retired

outbox == <<tx, events, changes, watermark>>
truth  == <<data, groupOn>>
fence  == <<epoch, retired>>
bucket == <<fence, active, lock, lease>>
local  == <<event, strict, token, loaded, numbered, fresh>>
snapshotVars == <<truth, outbox, bucket, task, local, faults>>

Snapshot == [data : Nat, fresh : BOOLEAN]
TaskSteps == {"idle", "capture", "lease", "read", "retire", "reopen", "release",
          "lock", "load", "allocate", "activate", "unlock", "failed", "done"}

SnapshotTypeOK ==
  /\ data \in 0..MaxChanges /\ groupOn \in BOOLEAN
  /\ changes \in 0..MaxChanges
  /\ DOMAIN tx \subseteq Kinds /\ \A k \in DOMAIN tx : tx[k] \in 0..MaxChanges
  /\ DOMAIN events \subseteq 1..MaxChanges
  /\ \A n \in DOMAIN events : events[n] \in [kind : Kinds, state : {"open", "pending", "read"}]
  /\ watermark \in 0..MaxChanges
  /\ epoch \in Nat /\ retired \in BOOLEAN
  /\ active # None => (active \in Snapshot /\ active.data <= data)
  /\ IsInjective(numbered) /\ \A t \in Range(numbered) : task[t] = "activate"
  /\ lock \in BOOLEAN /\ lease \in Tasks \cup {None}
  /\ task \in [Tasks -> TaskSteps] /\ event \in [Tasks -> 0..MaxChanges]
  /\ strict \subseteq Tasks /\ fresh \subseteq Tasks
  /\ token \in [Tasks -> 0..epoch] /\ loaded \in [Tasks -> 0..data \cup {None}]
  /\ faults \in 0..MaxFaults

SnapshotInit ==
  /\ data = 0 /\ groupOn = TRUE
  /\ tx = <<>> /\ events = <<>> /\ changes = 0 /\ watermark = 0
  /\ epoch = 0 /\ retired = FALSE /\ active = None
  /\ lock = FALSE /\ lease = None
  /\ task = [t \in Tasks |-> "idle"] /\ event = [t \in Tasks |-> 0] /\ strict = {}
  /\ token = [t \in Tasks |-> 0] /\ loaded = [t \in Tasks |-> None]
  /\ numbered = <<>> /\ fresh = {} /\ faults = 0

Put(f, x, e) == [y \in DOMAIN f \cup {x} |-> IF y = x THEN e ELSE f[y]]
Cut(f, x)    == [y \in DOMAIN f \ {x} |-> f[y]]
TaskTo(t, s)   == task' = [task EXCEPT ![t] = s]
Set(f, t, e) == [f EXCEPT ![t] = e]

-----------------------------------------------------------------------------
(* Changes, with their events.  *)

Unread(k) == {n \in DOMAIN events : events[n].kind = k /\ events[n].state # "read"}

\* enqueueSchedulerOutbox, in the transaction of the change: an event nobody has
\* read yet stands for the new one.
Begin(k) ==
  /\ changes < MaxChanges /\ changes' = changes + 1
  /\ k \notin DOMAIN tx
  /\ IF Unread(k) # {} THEN tx' = Put(tx, k, 0) /\ UNCHANGED events
     ELSE /\ tx' = Put(tx, k, changes')
          /\ events' = Put(events, changes', [kind |-> k, state |-> "open"])
  /\ UNCHANGED <<truth, watermark, bucket, task, local, faults>>

Commit(k) ==
  /\ k \in DOMAIN tx /\ tx' = Cut(tx, k)
  /\ events' = IF tx[k] = 0 THEN events ELSE [events EXCEPT ![tx[k]].state = "pending"]
  /\ IF k = "account" THEN data' = data + 1 /\ UNCHANGED groupOn
                      ELSE groupOn' = ~groupOn /\ UNCHANGED data
  /\ UNCHANGED <<changes, watermark, bucket, task, local, faults>>

Rollback(k) ==
  /\ k \in DOMAIN tx /\ tx' = Cut(tx, k)
  /\ events' = Cut(events, tx[k])
  /\ UNCHANGED <<truth, changes, watermark, bucket, task, local, faults>>

\* cleanupConsumedOutbox, DeleteConsumedUpTo: old rows up to the watermark,
\* read or not.
CleanOutbox ==
  LET old == {n \in DOMAIN events : n <= watermark /\ events[n].state # "open"} IN
  /\ old # {}
  /\ events' = [n \in DOMAIN events \ old |-> events[n]]
  /\ UNCHANGED <<truth, tx, changes, watermark, bucket, task, local, faults>>

-----------------------------------------------------------------------------
(* Starting a task. *)

\* pollOutbox, ListAfterAndReleaseDedup: the next event behind the watermark.
Poll(t) ==
  LET due == {n \in DOMAIN events : n > watermark /\ events[n].state # "open"} IN
  /\ t \in Pollers /\ task[t] = "idle" /\ due # {}
  /\ LET n == Min(due) IN
     /\ events' = [events EXCEPT ![n].state = "read"]
     /\ event' = Set(event, t, n)
     /\ TaskTo(t, IF events[n].kind = "group" THEN "lease" ELSE "capture")
  /\ UNCHANGED <<truth, tx, changes, watermark, bucket, strict, token, loaded, numbered, fresh, faults>>

\* Slip: the full rebuild looks at active groups only.
FullRebuildOfActive(t) ==
  /\ t \in Rebuilders /\ task[t] = "idle"
  /\ groupOn
  /\ TaskTo(t, "capture")
  /\ UNCHANGED <<truth, outbox, bucket, local, faults>>

\* rebuildFullSnapshot: buckets of active groups, and those published for others.
FullRebuild(t) ==
  /\ t \in Rebuilders /\ task[t] = "idle"
  /\ groupOn \/ active # None
  /\ TaskTo(t, IF groupOn THEN "capture" ELSE "lease")
  /\ UNCHANGED <<truth, outbox, bucket, local, faults>>

\* ListSchedulableAccounts finds no snapshot.
Miss(t) ==
  /\ t \in Lookups /\ task[t] = "idle" /\ active = None
  /\ TaskTo(t, "capture")
  /\ UNCHANGED <<truth, outbox, bucket, local, faults>>

\* A task that has come to its end, well or not, starts over.
Clear(t) ==
  /\ TaskTo(t, "idle")
  /\ event' = Set(event, t, 0) /\ strict' = strict \ {t}
  /\ token' = Set(token, t, 0) /\ loaded' = Set(loaded, t, None)
  /\ numbered' = Remove(numbered, t)
  /\ fresh' = fresh \ {t}

\* An event that was handled moves the watermark, to its own id.
Done(t) ==
  /\ task[t] = "done" /\ Clear(t)
  /\ watermark' = IF t \in Pollers THEN event[t] ELSE watermark
  /\ UNCHANGED <<truth, tx, events, changes, bucket, faults>>

-----------------------------------------------------------------------------
(* prepareGroupLifecycle: under the group's lease. *)

Lease(t) ==
  /\ task[t] = "lease"
  /\ IF lease = None THEN lease' = t /\ TaskTo(t, "read") /\ UNCHANGED local
                     ELSE Clear(t) /\ UNCHANGED lease
  /\ UNCHANGED <<truth, outbox, fence, active, lock, faults>>

ReadGroup(t) ==
  /\ task[t] = "read"
  /\ TaskTo(t, IF groupOn THEN "reopen" ELSE "retire")
  /\ UNCHANGED <<truth, outbox, bucket, local, faults>>

\* Slip: a bucket stays in its epoch.
RetireInPlace ==
  /\ retired' = TRUE /\ epoch' = IF epoch = 0 THEN 1 ELSE epoch
  /\ active' = None

\* retireBucketScript.
RetireBucket ==
  /\ retired' = TRUE /\ epoch' = IF retired THEN epoch ELSE epoch + 1
  /\ active' = None

Retire(t) ==
  /\ task[t] = "retire" /\ TaskTo(t, "release")
  /\ RetireBucket /\ fresh' = {}
  /\ UNCHANGED <<truth, outbox, lock, lease, event, strict, token, loaded, numbered, faults>>

\* reopenBucketScript; its answer is the token of the rebuild that follows.
Reopen(t) ==
  /\ task[t] = "reopen" /\ TaskTo(t, "release")
  /\ retired' = FALSE /\ epoch' = IF epoch = 0 THEN 1 ELSE epoch
  /\ active' = IF retired THEN None ELSE active
  /\ token' = Set(token, t, epoch') /\ strict' = strict \cup {t}
  /\ UNCHANGED <<truth, outbox, lock, lease, event, loaded, numbered, fresh, faults>>

EndLease(t) ==
  /\ task[t] = "release"
  /\ IF lease = t THEN /\ lease' = None /\ UNCHANGED local
                       /\ TaskTo(t, IF t \in strict THEN "lock" ELSE "done")
                  ELSE Clear(t) /\ UNCHANGED lease
  /\ UNCHANGED <<truth, outbox, fence, active, lock, faults>>

-----------------------------------------------------------------------------
(* Rebuilding the bucket. *)

\* CaptureBucketWriteToken.  A retired bucket is left alone, but a full rebuild
\* that knows the group to be active looks at the group again.
Capture(t) ==
  /\ task[t] = "capture"
  /\ IF retired THEN TaskTo(t, IF t \in Rebuilders THEN "lease" ELSE "done")
                     /\ UNCHANGED <<token, epoch>>
     ELSE /\ epoch' = IF epoch = 0 THEN 1 ELSE epoch
          /\ token' = Set(token, t, epoch')
          /\ TaskTo(t, IF t \in Lookups THEN "load" ELSE "lock")
  /\ UNCHANGED <<truth, outbox, retired, active, lock, lease,
                 event, strict, loaded, numbered, fresh, faults>>

\* TryLockBucket: whoever finds the bucket locked leaves it to the other, unless
\* he has reopened it.
LockBucket(t) ==
  /\ task[t] = "lock"
  /\ IF ~lock THEN /\ lock' = TRUE /\ UNCHANGED local
                   /\ TaskTo(t, IF loaded[t] = None THEN "load" ELSE "allocate")
     ELSE IF t \in strict THEN Clear(t) /\ UNCHANGED lock
     ELSE TaskTo(t, "done") /\ UNCHANGED <<lock, local>>
  /\ UNCHANGED <<truth, outbox, fence, active, lease, faults>>

\* loadAccountsForRebuild: buckets that show the same accounts share one query, so
\* the accounts may be older than the lock.
Load(t) ==
  /\ loaded[t] = None
  /\ \/ task[t] = "load" /\ TaskTo(t, "allocate")
     \/ task[t] = "lock" /\ UNCHANGED task
  /\ loaded' = Set(loaded, t, data) /\ fresh' = fresh \cup {t}
  /\ UNCHANGED <<truth, outbox, bucket, event, strict, token, numbered, faults>>

Fenced(t) == retired \/ epoch # token[t]

\* After a fence or a publication: a reopened bucket has to be published.
Leave(t, published) ==
  TaskTo(t, IF t \in strict /\ ~published THEN "failed"
          ELSE IF t \in Lookups THEN "done" ELSE "unlock")

\* allocateSnapshotVersionScript.
Allocate(t) ==
  /\ task[t] = "allocate"
  /\ IF Fenced(t) THEN Leave(t, FALSE) /\ UNCHANGED numbered
     ELSE TaskTo(t, "activate") /\ numbered' = Append(numbered, t)
  /\ UNCHANGED <<truth, outbox, bucket, event, strict, token, loaded, fresh, faults>>

\* activateSnapshotScript: a newer snapshot stays.
Activate(t) ==
  /\ task[t] = "activate" /\ Leave(t, ~Fenced(t))
  /\ IF Fenced(t) \/ ~Contains(numbered, t)
     THEN UNCHANGED active /\ numbered' = Remove(numbered, t)
     ELSE /\ active' = [data |-> loaded[t], fresh |-> t \in fresh]
          /\ LET n == CHOOSE n \in DOMAIN numbered : numbered[n] = t IN
             numbered' = SubSeq(numbered, n + 1, Len(numbered))
  /\ UNCHANGED <<truth, outbox, fence, lock, lease, event, strict, token, loaded, fresh, faults>>

\* UnlockBucket, whoever holds the lock by now.
Unlock(t) ==
  /\ task[t] \in {"unlock", "failed"} /\ lock' = FALSE
  /\ IF task[t] = "failed" THEN Clear(t) ELSE TaskTo(t, "done") /\ UNCHANGED local
  /\ UNCHANGED <<truth, outbox, fence, active, lease, faults>>

-----------------------------------------------------------------------------
(* Failures. *)

\* A task breaks off at any of its steps.  What it held is released behind it, or
\* stays if its process died or Redis did not answer.
Fail(t) ==
  /\ Fault /\ task[t] \notin {"idle", "done"} /\ Clear(t)
  /\ lock' \in IF task[t] \in {"load", "allocate", "activate"} /\ t \notin Lookups
               THEN {lock, FALSE} ELSE {lock}
  /\ lease' \in IF lease = t THEN {lease, None} ELSE {lease}
  /\ UNCHANGED <<truth, outbox, fence, active>>

\* The lock lives as long as a rebuild may take, and no longer.
LockExpires ==
  /\ lock /\ lock' = FALSE
  /\ UNCHANGED <<truth, outbox, fence, active, lease, task, local, faults>>

\* The lease lives longer than the work it covers, so it ends when its holder is gone.
LeaseExpires ==
  /\ lease # None /\ task[lease] \notin {"read", "retire", "reopen", "release"}
  /\ lease' = None
  /\ UNCHANGED <<truth, outbox, fence, active, lock, task, local, faults>>

-----------------------------------------------------------------------------
Lifecycle(t) == Lease(t) \/ ReadGroup(t) \/ Retire(t) \/ Reopen(t) \/ EndLease(t)
Rebuild(t) ==
  \/ Capture(t) \/ LockBucket(t) \/ Load(t) \/ Allocate(t) \/ Activate(t)
  \/ Unlock(t)
Work(t) == Lifecycle(t) \/ Rebuild(t) \/ Done(t)

SnapshotNext ==
  \/ \E k \in Kinds : Begin(k) \/ Commit(k) \/ Rollback(k)
  \/ \E t \in Tasks : Poll(t) \/ FullRebuild(t) \/ Miss(t) \/ Work(t) \/ Fail(t)
  \/ CleanOutbox \/ LockExpires \/ LeaseExpires

\* Transactions end, goroutines run on, the tickers of the poll and of the full
\* rebuild go on, and Redis keys expire.  Nothing is assumed of requests.
SnapshotFairness ==
  /\ \A k \in Kinds : WF_snapshotVars(Commit(k) \/ Rollback(k))
  /\ \A t \in Tasks : WF_snapshotVars(Work(t))
  /\ \A t \in Pollers : WF_snapshotVars(Poll(t))
  /\ \A t \in Rebuilders : WF_snapshotVars(FullRebuild(t))
  /\ WF_snapshotVars(LockExpires) /\ WF_snapshotVars(LeaseExpires)

SnapshotSpec == SnapshotInit /\ [][SnapshotNext]_snapshotVars /\ SnapshotFairness

-----------------------------------------------------------------------------
\* What a bucket shows was read from the database after the bucket was last retired:
\* whoever loaded accounts before, and is late, is shut out by the epoch, when the
\* bucket is still retired and when it was reopened meanwhile (retireBucketScript,
\* allocateSnapshotVersionScript, activateSnapshotScript).
PublishedIsFresh == active # None => ~retired /\ active.fresh

\* In the end the bucket shows the accounts as they are, and nothing once the group
\* is off: whatever was lost on the way - an event whose id the watermark passed
\* before its transaction committed, an event merged into one that was just read,
\* older accounts published under a newer number - the full rebuild makes good
\* (rebuildFullSnapshot, prepareGroupLifecycle).
Heals ==
  <>[](IF groupOn THEN active # None /\ active.data = data ELSE active = None)
-----------------------------------------------------------------------------
(* The inductive invariant that carries PublishedIsFresh. *)

\* A task that has loaded accounts, and may come to publish them.
Loaded(t) == loaded[t] # None \/ task[t] \in {"allocate", "activate"}

\* A token is of an epoch the bucket has reached.  Before a task has a token of a
\* rebuild it has loaded nothing.
TokenInv ==
  /\ epoch \in Nat /\ retired \in BOOLEAN /\ fresh \subseteq Tasks
  /\ task \in [Tasks -> TaskSteps]
  /\ token \in [Tasks -> Nat] /\ \A t \in Tasks : token[t] <= epoch
  /\ DOMAIN loaded = Tasks
  /\ \A t \in Tasks :
       task[t] \in {"idle", "capture", "lease", "read", "retire", "reopen", "release"} =>
         loaded[t] = None

\* A retired bucket has shut out everybody; and whoever is not shut out by the
\* epoch, and has loaded, has done so since the bucket was last retired.
FenceInv ==
  \A t \in Tasks :
    token[t] = epoch => ~retired /\ (Loaded(t) => t \in fresh)

SnapshotInv == TokenInv /\ FenceInv /\ PublishedIsFresh
=============================================================================
