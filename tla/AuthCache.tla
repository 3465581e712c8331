------------------------------- MODULE AuthCache -------------------------------
(***************************************************************************)
(* What the gateway remembers of an API key: api_key_auth_cache_impl.go,   *)
(* auth_cache_invalidation_outbox.go and its repository.                   *)
(*                                                                         *)
(* A key's record is read from the database and kept twice: in the memory  *)
(* of the process that read it (L1) and in Redis (L2).  A change of the    *)
(* record writes a row to an outbox in the same transaction.  The worker   *)
(* of any process claims the row for some time, drops the key from L2,     *)
(* tells all processes to drop it from their L1, and does all of it again  *)
(* a safety delay later: by then a reader that had read the old record     *)
(* just before the change has stored it.  Only then the row is deleted.    *)
(*                                                                         *)
(* This module follows one key.  Its states are numbered by the changes    *)
(* made to it, and the outbox row of a change has the change's number.     *)
(* Processes crash, calls to Redis and to the database fail with or        *)
(* without effect, messages get lost and entries are evicted.              *)
(***************************************************************************)
EXTENDS Naturals, Functions, Faults

CONSTANTS
  Instances, Readers,
  At,          \* the process of a reader
  None,
  MaxChanges,  \* bound: how many changes are made
  Absent,      \* the states in which the key does not exist
  LoadTime,    \* a record read from the database or L2 is stored within this time
  SafetyDelay, \* from the first pass to the second
  LocalTTL,    \* how long an entry of L1 is used
  Lease,       \* how long a claim holds
  RetryDelay   \* the longest wait before a failed pass is tried again

Changes  == 1..MaxChanges
Versions == 0..MaxChanges

ASSUME PlacesAssumption ==
  /\ At \in [Readers -> Instances]
  /\ None \notin Instances /\ "gone" \notin Instances /\ None # "gone"
ASSUME StatesAssumption ==
  MaxChanges \in Nat /\ Absent \subseteq Versions /\ MaxFaults \in Nat
ASSUME TimesAssumption ==
  /\ LoadTime \in Nat /\ LocalTTL \in Nat \ {0} /\ Lease \in Nat /\ RetryDelay \in Nat
  /\ SafetyDelay \in Nat
\* What the safety delay is for.
ASSUME DelayAssumption == LoadTime < SafetyDelay

Never == MaxChanges + 1

VARIABLES
  version,   \* the key's state in the database
  rows,      \* the outbox, by change: stage, time until available, claim and its age
  l2,        \* the state Redis holds, Never if none
  l1,        \* per process: the states it holds, with their age
  step, got, since, \* per reader: next step, the state it read, and how long ago
  jobs,      \* per process: the claimed rows its worker is at, with stage and next step
  quiet      \* per change, history: time since its row was deleted

reader == <<step, got, since>>
cache  == <<l2, l1>>
vars   == <<version, rows, cache, reader, jobs, quiet, faults>>

\* Long enough for every entry made from an old record to be out of use.
Settled == LoadTime + LocalTTL

Row == [stage : {0, 1}, wait : 0..(SafetyDelay + RetryDelay),
        by : Instances \cup {None, "gone"}, age : 0..Lease]
Job == [stage : {0, 1}, step : {"local", "delete", "publish", "finish", "retry"}]

TypeOK ==
  /\ version \in Versions
  /\ DOMAIN rows \subseteq Changes
  /\ \A v \in DOMAIN rows : rows[v] \in Row
  /\ l2 \in Versions \cup {Never}
  /\ DOMAIN l1 = Instances
  /\ \A i \in Instances : DOMAIN l1[i] \subseteq Versions /\ \A v \in DOMAIN l1[i] : l1[i][v] \in 0..LocalTTL
  /\ step \in [Readers -> {"idle", "load", "keep", "share", "copy"}]
  /\ got \in [Readers -> Versions] /\ since \in [Readers -> 0..LoadTime]
  /\ DOMAIN jobs = Instances
  /\ \A i \in Instances : DOMAIN jobs[i] \subseteq Changes /\ \A v \in DOMAIN jobs[i] : jobs[i][v] \in Job
  /\ quiet \in [Changes -> 0..(Settled + 1)]
  /\ faults \in 0..MaxFaults

Init ==
  /\ version = 0 /\ rows = <<>>
  /\ l2 = Never /\ l1 = [i \in Instances |-> <<>>]
  /\ step = [r \in Readers |-> "idle"] /\ got = [r \in Readers |-> 0]
  /\ since = [r \in Readers |-> 0]
  /\ jobs = [i \in Instances |-> <<>>]
  /\ quiet = [v \in Changes |-> 0]
  /\ faults = 0

Put(f, x, e) == [y \in DOMAIN f \cup {x} |-> IF y = x THEN e ELSE f[y]]
Drop(f, x)   == Restrict(f, DOMAIN f \ {x})
Forget(i)    == l1' = [l1 EXCEPT ![i] = <<>>]

-----------------------------------------------------------------------------
\* The change and its row, written by the trigger in the same transaction.
Change ==
  /\ version < MaxChanges
  /\ version' = version + 1
  /\ rows' = Put(rows, version + 1, [stage |-> 0, wait |-> 0, by |-> None, age |-> 0])
  /\ UNCHANGED <<cache, reader, jobs, quiet, faults>>

-----------------------------------------------------------------------------
(* Readers: GetByKey. *)

Goto(r, s) == step' = [step EXCEPT ![r] = s]
Read(r, v) == got' = [got EXCEPT ![r] = v] /\ since' = [since EXCEPT ![r] = 0]
Done(r)    == Goto(r, "idle") /\ Read(r, 0)

\* getAuthCacheEntry: L1 misses; L2 is copied to L1, or misses as well.
Lookup(r) ==
  /\ step[r] = "idle" /\ DOMAIN l1[At[r]] = {}
  /\ IF l2 # Never THEN Goto(r, "copy") /\ Read(r, l2)
                   ELSE Goto(r, "load") /\ UNCHANGED <<got, since>>
  /\ UNCHANGED <<version, rows, cache, jobs, quiet, faults>>

\* loadAuthCacheEntry: the record is read from the database, or it cannot be.
Load(r) ==
  /\ step[r] = "load"
  /\ \/ Goto(r, "keep") /\ Read(r, version)
     \/ Goto(r, "idle") /\ UNCHANGED <<got, since>>
  /\ UNCHANGED <<version, rows, cache, jobs, quiet, faults>>

\* setAuthCacheL1.  Keys that exist and keys that do not are kept apart.
SameKind(v, w) == v \in Absent <=> w \in Absent
Keep(r) ==
  LET i == At[r]
      others == {w \in DOMAIN l1[i] : ~SameKind(w, got[r])} IN
  /\ step[r] \in {"keep", "copy"}
  /\ l1' = [l1 EXCEPT ![i] = Put(Restrict(@, others), got[r], 0)]
  /\ IF step[r] = "copy" \/ got[r] \in Absent THEN Done(r)
     ELSE Goto(r, "share") /\ UNCHANGED <<got, since>>
  /\ UNCHANGED <<version, rows, l2, jobs, quiet, faults>>

\* setAuthCacheEntry goes on to L2.
Share(r) ==
  /\ step[r] = "share" /\ Done(r)
  /\ l2' = got[r]
  /\ UNCHANGED <<version, rows, l1, jobs, quiet, faults>>

\* Entries expire or are evicted.  deleteAuthCache, by which whoever made a
\* change drops the key at once and ignores errors, does no more than this; nor
\* does a subscriber that gets its message late.
EvictShared ==
  /\ l2 # Never /\ l2' = Never
  /\ UNCHANGED <<version, rows, l1, reader, jobs, quiet, faults>>

EvictLocal(i, v) ==
  /\ v \in DOMAIN l1[i] /\ l1' = [l1 EXCEPT ![i] = Drop(@, v)]
  /\ UNCHANGED <<version, rows, l2, reader, jobs, quiet, faults>>

-----------------------------------------------------------------------------
(* Workers. *)

JobAt(i, v, s) == v \in DOMAIN jobs[i] /\ jobs[i][v].step = s
Advance(i, v, s) == jobs' = [jobs EXCEPT ![i][v].step = s]
End(i, v)        == jobs' = [jobs EXCEPT ![i] = Drop(@, v)]
Mine(i, v)       == v \in DOMAIN rows /\ rows[v].by = i

\* Slip: a claim holds for good.
ClaimedForGood(v) == rows[v].wait = 0 /\ rows[v].by = None

\* Rows whose time has come and which no claim holds.
Claimable(v) == rows[v].wait = 0 /\ (rows[v].by = None \/ rows[v].age = Lease)

\* Claim: a worker takes all of them once it is done with those it had.
Claim(i) ==
  LET taken == {v \in DOMAIN rows : Claimable(v)} IN
  /\ DOMAIN jobs[i] = {} /\ taken # {}
  /\ rows' = [v \in DOMAIN rows |->
                IF v \in taken THEN [rows[v] EXCEPT !.by = i, !.age = 0] ELSE rows[v]]
  /\ \/ /\ jobs' = [jobs EXCEPT ![i] = [v \in taken |-> [stage |-> rows[v].stage, step |-> "local"]]]
        /\ UNCHANGED faults
     \/ UNCHANGED jobs /\ Fault
  /\ UNCHANGED <<version, cache, reader, quiet>>

\* processEvent: this process' L1, L2, and the message to all others.
DropLocal(i, v) ==
  /\ JobAt(i, v, "local") /\ Advance(i, v, "delete")
  /\ Forget(i)
  /\ UNCHANGED <<version, rows, l2, reader, quiet, faults>>

DropShared(i, v) ==
  /\ JobAt(i, v, "delete")
  /\ \/ l2' = Never /\ Advance(i, v, "publish") /\ UNCHANGED faults
     \/ l2' \in {l2, Never} /\ Advance(i, v, "retry") /\ Fault
  /\ UNCHANGED <<version, rows, l1, reader, quiet>>

Publish(i, v) ==
  /\ JobAt(i, v, "publish")
  /\ \E deaf \in SUBSET Instances :
       l1' = [j \in Instances |-> IF j \in deaf THEN l1[j] ELSE <<>>]
  /\ \/ Advance(i, v, "finish") /\ UNCHANGED faults
     \/ Advance(i, v, "retry") /\ Fault
  /\ UNCHANGED <<version, rows, l2, reader, quiet>>

Released(v, w) == [rows[v] EXCEPT !.by = None, !.age = 0, !.wait = w]

\* RetryClaimed.
Retry(i, v) ==
  /\ JobAt(i, v, "retry") /\ End(i, v)
  /\ \/ /\ IF Mine(i, v) THEN \E w \in 0..RetryDelay : rows' = [rows EXCEPT ![v] = Released(v, w)]
                         ELSE UNCHANGED rows
        /\ UNCHANGED faults
     \/ UNCHANGED rows /\ Fault
  /\ UNCHANGED <<version, cache, reader, quiet>>

\* Slip: one pass is enough.
DeleteNow(i, v) == rows' = IF Mine(i, v) THEN Drop(rows, v) ELSE rows

\* ScheduleSecondPass.
Postpone(i, v) ==
  IF Mine(i, v) /\ rows[v].stage = 0
  THEN rows' = [rows EXCEPT ![v] = [Released(v, SafetyDelay) EXCEPT !.stage = 1]]
  ELSE UNCHANGED rows

\* DeleteClaimed.
Delete(i, v) == rows' = IF Mine(i, v) THEN Drop(rows, v) ELSE rows

\* The end of a pass; the answer of the database may get lost.
Finish(i, v) ==
  /\ JobAt(i, v, "finish") /\ End(i, v)
  /\ \/ /\ IF jobs[i][v].stage = 0 THEN Postpone(i, v) ELSE Delete(i, v)
        /\ UNCHANGED faults
     \/ UNCHANGED rows /\ Fault
  /\ UNCHANGED <<version, cache, reader, quiet>>

\* A process dies; its successor has another worker id.
Crash(i) ==
  /\ Fault /\ Forget(i)
  /\ step'  = [r \in Readers |-> IF At[r] = i THEN "idle" ELSE step[r]]
  /\ got'   = [r \in Readers |-> IF At[r] = i THEN 0 ELSE got[r]]
  /\ since' = [r \in Readers |-> IF At[r] = i THEN 0 ELSE since[r]]
  /\ jobs' = [jobs EXCEPT ![i] = <<>>]
  /\ rows' = [v \in DOMAIN rows |-> IF rows[v].by = i THEN [rows[v] EXCEPT !.by = "gone"] ELSE rows[v]]
  /\ UNCHANGED <<version, l2, quiet>>

-----------------------------------------------------------------------------
(* Time. *)

Older(n, most) == IF n < most THEN n + 1 ELSE most
Storing(r)     == step[r] \in {"keep", "share", "copy"}
Over(v)        == v <= version /\ v \notin DOMAIN rows

\* Slip: entries of L1 are kept.
Kept(f) == [v \in DOMAIN f |-> Older(f[v], LocalTTL)]

\* What is left of a process' L1 after a tick.
InUse(f) == [v \in {w \in DOMAIN f : f[w] < LocalTTL} |-> f[v] + 1]

\* A record in hand is stored in time; nothing else has to be in time.
Tick ==
  /\ \A r \in Readers : Storing(r) => since[r] < LoadTime
  /\ since' = [r \in Readers |-> IF Storing(r) THEN since[r] + 1 ELSE since[r]]
  /\ rows' = [v \in DOMAIN rows |->
                [rows[v] EXCEPT !.wait = IF @ > 0 THEN @ - 1 ELSE 0,
                                !.age = IF rows[v].by = None THEN 0 ELSE Older(@, Lease)]]
  /\ l1' = [i \in Instances |-> InUse(l1[i])]
  /\ quiet' = [v \in Changes |-> IF Over(v) THEN Older(quiet[v], Settled + 1) ELSE 0]
  /\ UNCHANGED <<version, l2, step, got, jobs, faults>>

Work(i) ==
  \/ Claim(i)
  \/ \E v \in Changes :
       DropLocal(i, v) \/ DropShared(i, v) \/ Publish(i, v) \/ Retry(i, v) \/ Finish(i, v)

Store(r) == Keep(r) \/ Share(r)

Next ==
  \/ Change \/ EvictShared \/ Tick
  \/ \E i \in Instances :
       \/ Work(i) \/ Crash(i)
       \/ \E v \in Versions : EvictLocal(i, v)
  \/ \E r \in Readers : Lookup(r) \/ Load(r) \/ Store(r)

\* Workers run, records in hand are stored, and time passes.
Fairness ==
  /\ WF_vars(Tick)
  /\ \A i \in Instances : WF_vars(Work(i))
  /\ \A r \in Readers : WF_vars(Store(r))

Spec == Init /\ [][Next]_vars /\ Fairness

-----------------------------------------------------------------------------
(* What is checked. *)

\* Once the row of a change is gone, Redis never serves a state from before the
\* change again, whatever readers were under way (the second pass).
SharedIsCurrent ==
  \A v \in Changes : Over(v) =>
    /\ l2 >= v
    /\ \A r \in Readers : step[r] \in {"keep", "share"} => got[r] >= v

\* Some time later no process does so either, even if it missed the messages.
LocalCatchesUp ==
  \A v \in Changes : Over(v) /\ quiet[v] > Settled =>
    \A i \in Instances : \A w \in DOMAIN l1[i] : w >= v

\* Every change reaches all caches for good, through crashes, failed calls and
\* lost messages.
Everywhere(v) == l2 >= v /\ \A i \in Instances : \A w \in DOMAIN l1[i] : w >= v
ChangeReachesAll == \A v \in Changes : version >= v ~> [](Everywhere(v))
-----------------------------------------------------------------------------
(* The inductive invariant that carries SharedIsCurrent and LocalCatchesUp.  *)

\* Rows and jobs are of changes that have been made; a claimed row is due.
RowInv ==
  /\ DOMAIN rows \subseteq 1..version
  /\ \A i \in Instances : DOMAIN jobs[i] \subseteq 1..version
  /\ \A v \in DOMAIN rows : rows[v].by # None => rows[v].wait = 0

\* A reader that is going to store a state from before change v in Redis.
Late(r, v) == step[r] \in {"keep", "share"} /\ got[r] < v

\* A row that waits for its second pass is due no sooner than any such reader
\* would have had it for the whole safety delay.
DelayInv ==
  \A v \in DOMAIN rows : rows[v].stage = 1 =>
    \A r \in Readers : Late(r, v) => since[r] + rows[v].wait >= SafetyDelay

\* There is none during the second pass, and once the pass has dropped the key
\* from Redis nothing brings the old state back.
SecondPassInv ==
  \A i \in Instances : \A v \in DOMAIN jobs[i] : jobs[i][v].stage = 1 =>
    /\ \A r \in Readers : ~Late(r, v)
    /\ jobs[i][v].step \in {"publish", "finish"} => l2 >= v

\* The clock of a change starts with the deletion of its row.  From then on a
\* state from before it gets no younger: in the hands of a reader that copies
\* it from Redis it is as old as that, in a process' memory younger by the time
\* a reader takes at most.
QuietInv ==
  \A v \in Changes :
    /\ ~Over(v) => quiet[v] = 0
    /\ Over(v) =>
         /\ \A r \in Readers : step[r] = "copy" /\ got[r] < v => quiet[v] <= since[r]
         /\ \A i \in Instances : \A w \in DOMAIN l1[i] :
              w < v => quiet[v] <= LoadTime + l1[i][w]

CacheInv ==
  TypeOK /\ RowInv /\ DelayInv /\ SecondPassInv /\ SharedIsCurrent /\ QuietInv
=============================================================================
