---------------------------- MODULE AuthCache_proofs ---------------------------
(***************************************************************************)
(* Proofs about AuthCache, for any number of processes, readers, changes   *)
(* and faults, and any times with LoadTime < SafetyDelay.                  *)
(*                                                                         *)
(* A row waits for its second pass at least as long as a reader may hold a *)
(* state from before the change, so the second pass meets none, and what   *)
(* it drops from Redis does not come back.  The states that are left in    *)
(* the processes by then only grow older.                                  *)
(***************************************************************************)
EXTENDS AuthCache, TLAPS

USE DEF reader, cache

Tag == {"local", "delete", "publish", "finish", "retry"}
Phase == {"idle", "load", "keep", "share", "copy"}

-----------------------------------------------------------------------------
(* The helpers. *)

LEMMA RestrictFacts ==
  ASSUME NEW f, NEW S
  PROVE  DOMAIN Restrict(f, S) = S /\ \A y \in S : Restrict(f, S)[y] = f[y]
  BY DEF Restrict

LEMMA DropFacts ==
  ASSUME NEW f, NEW x
  PROVE  /\ DOMAIN Drop(f, x) = DOMAIN f \ {x}
         /\ \A y \in DOMAIN f \ {x} : Drop(f, x)[y] = f[y]
  BY RestrictFacts DEF Drop

LEMMA FaultType == ASSUME TypeOK, UNCHANGED faults \/ Fault PROVE faults' \in 0..MaxFaults
  BY StatesAssumption DEF TypeOK, Fault

\* The types of the readers, of a process' memory and of its jobs.
ReaderOK ==
  step \in [Readers -> Phase] /\ got \in [Readers -> Versions] /\ since \in [Readers -> 0..LoadTime]
LocalOK ==
  DOMAIN l1 = Instances
  /\ \A i \in Instances : DOMAIN l1[i] \subseteq Versions /\ \A v \in DOMAIN l1[i] : l1[i][v] \in 0..LocalTTL
JobsOK ==
  DOMAIN jobs = Instances
  /\ \A i \in Instances : DOMAIN jobs[i] \subseteq Changes /\ \A v \in DOMAIN jobs[i] : jobs[i][v] \in Job
RowsOK == DOMAIN rows \subseteq Changes /\ \A v \in DOMAIN rows : rows[v] \in Row
RestOK ==
  /\ version \in Versions /\ l2 \in Versions \cup {Never}
  /\ quiet \in [Changes -> 0..(Settled + 1)] /\ faults \in 0..MaxFaults

LEMMA TypeParts == TypeOK <=> ReaderOK /\ LocalOK /\ JobsOK /\ RowsOK /\ RestOK
  BY DEF TypeOK, ReaderOK, LocalOK, JobsOK, RowsOK, RestOK, Phase

\* One reader moves on and perhaps reads a state.
LEMMA ReaderMoves ==
  ASSUME TypeOK, NEW r \in Readers, NEW s \in Phase, Goto(r, s),
         (UNCHANGED <<got, since>>) \/ (\E v \in Versions : Read(r, v))
  PROVE  /\ ReaderOK' /\ step'[r] = s
         /\ (got'[r] = got[r] /\ since'[r] = since[r]) \/ since'[r] = 0
         /\ \A q \in Readers \ {r} : step'[q] = step[q] /\ got'[q] = got[q] /\ since'[q] = since[q]
<1>1. ReaderOK /\ 0 \in 0..LoadTime
  BY TypeParts, TimesAssumption
<1> QED
  BY <1>1 DEF ReaderOK, Goto, Read

\* One job of a process goes on.
LEMMA JobAdvances ==
  ASSUME TypeOK, NEW i \in Instances, NEW v \in DOMAIN jobs[i], NEW s \in Tag, Advance(i, v, s)
  PROVE  /\ JobsOK' /\ jobs'[i][v].step = s /\ jobs'[i][v].stage = jobs[i][v].stage
         /\ \A j \in Instances : DOMAIN jobs'[j] = DOMAIN jobs[j]
         /\ \A j \in Instances : \A w \in DOMAIN jobs[j] : (j # i \/ w # v) => jobs'[j][w] = jobs[j][w]
<1>1. JobsOK
  BY TypeParts
<1>2. jobs[i][v] \in Job /\ jobs' = [jobs EXCEPT ![i] = [jobs[i] EXCEPT ![v] = [jobs[i][v] EXCEPT !.step = s]]]
  BY <1>1 DEF JobsOK, Advance
<1> DEFINE e == [jobs[i][v] EXCEPT !.step = s]
           f == [jobs[i] EXCEPT ![v] = e]
<1>3. e \in Job /\ e.step = s /\ e.stage = jobs[i][v].stage
  BY <1>2 DEF Job, Tag
<1>4. DOMAIN f = DOMAIN jobs[i] /\ f[v] = e /\ \A w \in DOMAIN jobs[i] \ {v} : f[w] = jobs[i][w]
  OBVIOUS
<1>5. DOMAIN jobs' = Instances /\ jobs'[i] = f /\ \A j \in Instances \ {i} : jobs'[j] = jobs[j]
  BY <1>1, <1>2 DEF JobsOK
<1> HIDE DEF e, f
<1>6. \A j \in Instances : DOMAIN jobs'[j] = DOMAIN jobs[j]
  BY <1>4, <1>5
<1>7. \A j \in Instances : \A w \in DOMAIN jobs[j] : (j # i \/ w # v) => jobs'[j][w] = jobs[j][w]
  BY <1>4, <1>5
<1>8. \A j \in Instances : \A w \in DOMAIN jobs'[j] : jobs'[j][w] \in Job
  BY <1>1, <1>3, <1>4, <1>5, <1>6, <1>7 DEF JobsOK
<1> QED
  BY <1>1, <1>3, <1>4, <1>5, <1>6, <1>7, <1>8 DEF JobsOK

\* One job of a process ends.
LEMMA JobEnds ==
  ASSUME TypeOK, NEW i \in Instances, NEW v, End(i, v)
  PROVE  /\ JobsOK'
         /\ \A j \in Instances : DOMAIN jobs'[j] \subseteq DOMAIN jobs[j]
         /\ \A j \in Instances : \A w \in DOMAIN jobs'[j] : jobs'[j][w] = jobs[j][w]
<1>1. JobsOK
  BY TypeParts
<1>2. DOMAIN jobs' = Instances /\ jobs'[i] = Drop(jobs[i], v) /\ \A j \in Instances \ {i} : jobs'[j] = jobs[j]
  BY <1>1 DEF JobsOK, End
<1> DEFINE f == Drop(jobs[i], v)
<1>3. DOMAIN f = DOMAIN jobs[i] \ {v} /\ \A w \in DOMAIN jobs[i] \ {v} : f[w] = jobs[i][w]
  BY DropFacts
<1> HIDE DEF f
<1>4. \A j \in Instances : DOMAIN jobs'[j] \subseteq DOMAIN jobs[j]
  BY <1>2, <1>3 DEF f
<1>5. \A j \in Instances : \A w \in DOMAIN jobs'[j] : jobs'[j][w] = jobs[j][w]
  BY <1>2, <1>3 DEF f
<1> QED
  BY <1>1, <1>2, <1>4, <1>5 DEF JobsOK

\* What a row becomes when its claim is given back.
LEMMA ReleasedRow ==
  ASSUME TypeOK, NEW v \in DOMAIN rows, NEW w \in 0..(SafetyDelay + RetryDelay)
  PROVE  /\ Released(v, w) \in Row /\ [Released(v, w) EXCEPT !.stage = 1] \in Row
         /\ Released(v, w).by = None /\ Released(v, w).wait = w
         /\ Released(v, w).stage = rows[v].stage
         /\ [Released(v, w) EXCEPT !.stage = 1].by = None
         /\ [Released(v, w) EXCEPT !.stage = 1].wait = w
         /\ [Released(v, w) EXCEPT !.stage = 1].stage = 1
<1>0. 0 \in 0..Lease
  BY TimesAssumption
<1>1. rows[v] \in Row
  BY DEF TypeOK
<1> DEFINE d == Released(v, w)
<1>2. d.stage = rows[v].stage /\ d.wait = w /\ d.by = None /\ d.age = 0
  BY <1>1 DEF Released, Row
<1>3. d \in Row
  BY <1>0, <1>1 DEF Released, Row
<1> HIDE DEF d
<1>4. /\ [d EXCEPT !.stage = 1] \in Row /\ [d EXCEPT !.stage = 1].by = None
      /\ [d EXCEPT !.stage = 1].wait = w /\ [d EXCEPT !.stage = 1].stage = 1
  BY <1>2, <1>3 DEF Row
<1> QED
  BY <1>2, <1>3, <1>4 DEF d

\* The end of a pass, as the database sees it: the row stays, with its time
\* still to come if it goes on to the second pass; or it goes.
LEMMA PassEnds ==
  ASSUME TypeOK, RowInv, NEW i \in Instances, NEW v \in DOMAIN jobs[i],
         (\E w \in 0..RetryDelay : Mine(i, v) /\ rows' = [rows EXCEPT ![v] = Released(v, w)])
           \/ Postpone(i, v) \/ UNCHANGED rows
  PROVE  /\ RowsOK' /\ DOMAIN rows' = DOMAIN rows
         /\ \A u \in DOMAIN rows : rows'[u].by # None => rows'[u] = rows[u]
         /\ \A u \in DOMAIN rows : rows'[u].stage = 1 =>
              rows'[u].wait = SafetyDelay \/ rows'[u] = rows[u]
              \/ (rows[u].stage = 1 /\ rows[u].wait = 0)
<1>1. RowsOK
  BY TypeParts
<1>2. ASSUME NEW w \in 0..RetryDelay, Mine(i, v), rows' = [rows EXCEPT ![v] = Released(v, w)]
      PROVE  /\ RowsOK' /\ DOMAIN rows' = DOMAIN rows
             /\ \A u \in DOMAIN rows \ {v} : rows'[u] = rows[u]
             /\ rows'[v].by = None
             /\ rows'[v].stage = rows[v].stage /\ rows[v].wait = 0
  <2>1. v \in DOMAIN rows /\ rows[v].by = i /\ i # None
    BY <1>2, PlacesAssumption DEF Mine
  <2>2. w \in 0..(SafetyDelay + RetryDelay)
    BY <1>2, TimesAssumption
  <2> DEFINE e == Released(v, w)
  <2>3. e \in Row /\ e.by = None /\ e.stage = rows[v].stage
    BY <2>1, <2>2, ReleasedRow
  <2> HIDE DEF e
  <2>4. rows' = [rows EXCEPT ![v] = e]
    BY <1>2 DEF e
  <2>5. rows[v].wait = 0
    BY <2>1 DEF RowInv
  <2> QED
    BY <1>1, <2>1, <2>3, <2>4, <2>5 DEF RowsOK
<1>3. ASSUME Postpone(i, v), ~UNCHANGED rows
      PROVE  /\ RowsOK' /\ DOMAIN rows' = DOMAIN rows
             /\ \A u \in DOMAIN rows \ {v} : rows'[u] = rows[u]
             /\ rows'[v].by = None /\ rows'[v].wait = SafetyDelay
  <2> DEFINE e == [Released(v, SafetyDelay) EXCEPT !.stage = 1]
  <2>1. v \in DOMAIN rows /\ rows' = [rows EXCEPT ![v] = e]
    BY <1>3 DEF Postpone, Mine
  <2>2. SafetyDelay \in 0..(SafetyDelay + RetryDelay)
    BY TimesAssumption
  <2>3. e \in Row /\ e.by = None /\ e.wait = SafetyDelay
    BY <2>1, <2>2, ReleasedRow
  <2> HIDE DEF e
  <2> QED
    BY <1>1, <2>1, <2>3 DEF RowsOK
<1>4. CASE UNCHANGED rows
  BY <1>1, <1>4 DEF RowsOK
<1>5. CASE \E w \in 0..RetryDelay : Mine(i, v) /\ rows' = [rows EXCEPT ![v] = Released(v, w)]
  <2>1. PICK w \in 0..RetryDelay : Mine(i, v) /\ rows' = [rows EXCEPT ![v] = Released(v, w)]
    BY <1>5
  <2> QED
    BY <1>2, <2>1
<1>6. CASE Postpone(i, v) /\ ~UNCHANGED rows
  BY <1>3, <1>6
<1> QED
  BY <1>4, <1>5, <1>6

\* A claim changes the claims of the rows it takes, which are due.
LEMMA Claims ==
  ASSUME TypeOK, RowInv, NEW i \in Instances, Claim(i)
  PROVE  /\ JobsOK' /\ RowsOK' /\ DOMAIN rows' = DOMAIN rows
         /\ \A v \in DOMAIN rows :
              rows'[v].stage = rows[v].stage /\ rows'[v].wait = rows[v].wait
              /\ (rows'[v].by # None => rows[v].wait = 0)
         /\ \A j \in Instances : DOMAIN jobs'[j] \subseteq DOMAIN jobs[j] \cup DOMAIN rows
         /\ \A j \in Instances : \A v \in DOMAIN jobs'[j] :
              \/ v \in DOMAIN jobs[j] /\ jobs'[j][v] = jobs[j][v]
              \/ /\ v \in DOMAIN rows /\ rows[v].wait = 0
                 /\ jobs'[j][v].stage = rows[v].stage /\ jobs'[j][v].step = "local"
<1> DEFINE taken == {v \in DOMAIN rows : Claimable(v)}
           mine(v) == [rows[v] EXCEPT !.by = i, !.age = 0]
           pass == [v \in taken |-> [stage |-> rows[v].stage, step |-> "local"]]
<1>1. RowsOK /\ JobsOK /\ 0 \in 0..Lease
  BY TypeParts, TimesAssumption
<1>2. \A v \in DOMAIN rows : mine(v) \in Row /\ mine(v).stage = rows[v].stage /\ mine(v).wait = rows[v].wait
  BY <1>1 DEF RowsOK, Row
<1>3. \A v \in taken : v \in DOMAIN rows /\ rows[v].wait = 0
  BY DEF Claimable
<1>4. \A v \in taken : pass[v] \in Job /\ pass[v].stage = rows[v].stage /\ pass[v].step = "local"
  BY <1>1 DEF RowsOK, Row, Job
<1>5. /\ rows' = [v \in DOMAIN rows |-> IF v \in taken THEN mine(v) ELSE rows[v]]
      /\ jobs' = [jobs EXCEPT ![i] = pass] \/ UNCHANGED jobs
  BY DEF Claim
<1>6. DOMAIN pass = taken
  OBVIOUS
<1> HIDE DEF taken, mine, pass
<1>7. /\ RowsOK' /\ DOMAIN rows' = DOMAIN rows
      /\ \A v \in DOMAIN rows :
           rows'[v].stage = rows[v].stage /\ rows'[v].wait = rows[v].wait
           /\ (rows'[v].by # None => rows[v].wait = 0)
  BY <1>1, <1>2, <1>3, <1>5 DEF RowsOK, RowInv
<1>8. CASE UNCHANGED jobs
  BY <1>1, <1>7, <1>8 DEF JobsOK
<1>9. CASE jobs' = [jobs EXCEPT ![i] = pass]
  <2>1. DOMAIN jobs' = Instances /\ jobs'[i] = pass /\ \A j \in Instances \ {i} : jobs'[j] = jobs[j]
    BY <1>1, <1>9 DEF JobsOK
  <2>2. \A j \in Instances : DOMAIN jobs'[j] \subseteq DOMAIN jobs[j] \cup DOMAIN rows
    BY <1>3, <1>6, <2>1
  <2>3. \A j \in Instances : \A v \in DOMAIN jobs'[j] :
              \/ v \in DOMAIN jobs[j] /\ jobs'[j][v] = jobs[j][v]
              \/ /\ v \in DOMAIN rows /\ rows[v].wait = 0
                 /\ jobs'[j][v].stage = rows[v].stage /\ jobs'[j][v].step = "local"
    BY <1>3, <1>4, <1>6, <2>1
  <2>4. \A j \in Instances : DOMAIN jobs'[j] \subseteq Changes /\ \A v \in DOMAIN jobs'[j] : jobs'[j][v] \in Job
    BY <1>1, <1>3, <1>4, <1>6, <2>1 DEF JobsOK, RowsOK
  <2> QED
    BY <1>7, <2>1, <2>2, <2>3, <2>4 DEF JobsOK
<1> QED
  BY <1>5, <1>8, <1>9

\* What a process' memory holds may go, and stays as it is if not.
LocalShrinks ==
  /\ LocalOK'
  /\ \A j \in Instances : \A w \in DOMAIN l1'[j] : w \in DOMAIN l1[j] /\ l1'[j][w] = l1[j][w]

LEMMA ForgetShrinks ==
  ASSUME TypeOK, NEW i \in Instances, Forget(i)
  PROVE  LocalShrinks
<1>1. LocalOK
  BY TypeParts
<1>2. DOMAIN l1' = Instances /\ l1'[i] = <<>> /\ \A j \in Instances \ {i} : l1'[j] = l1[j]
  BY <1>1 DEF LocalOK, Forget
<1>3. DOMAIN l1'[i] = {}
  BY <1>2
<1> QED
  BY <1>1, <1>2, <1>3 DEF LocalOK, LocalShrinks

LEMMA EvictShrinks ==
  ASSUME TypeOK, NEW i \in Instances, NEW v, EvictLocal(i, v)
  PROVE  LocalShrinks
<1>1. LocalOK
  BY TypeParts
<1> DEFINE f == Drop(l1[i], v)
<1>2. DOMAIN f = DOMAIN l1[i] \ {v} /\ \A w \in DOMAIN f : f[w] = l1[i][w]
  BY DropFacts
<1>3. DOMAIN l1' = Instances /\ l1'[i] = f /\ \A j \in Instances \ {i} : l1'[j] = l1[j]
  BY <1>1 DEF LocalOK, EvictLocal
<1> HIDE DEF f
<1>4. \A j \in Instances : \A w \in DOMAIN l1'[j] : w \in DOMAIN l1[j] /\ l1'[j][w] = l1[j][w]
  BY <1>2, <1>3
<1> QED
  BY <1>1, <1>3, <1>4 DEF LocalOK, LocalShrinks

LEMMA PublishShrinks ==
  ASSUME TypeOK, NEW i \in Instances, NEW v, Publish(i, v)
  PROVE  LocalShrinks
<1>1. LocalOK
  BY TypeParts
<1>2. PICK deaf \in SUBSET Instances : l1' = [j \in Instances |-> IF j \in deaf THEN l1[j] ELSE <<>>]
  BY DEF Publish
<1>3. DOMAIN l1' = Instances
      /\ \A j \in Instances : l1'[j] = l1[j] \/ (l1'[j] = <<>> /\ DOMAIN l1'[j] = {})
  BY <1>2
<1> QED
  BY <1>1, <1>3 DEF LocalOK, LocalShrinks

\* A reader's state is added to its process' memory.
LEMMA KeepAdds ==
  ASSUME TypeOK, NEW r \in Readers, Keep(r)
  PROVE  /\ LocalOK'
         /\ \A j \in Instances : \A w \in DOMAIN l1'[j] :
              \/ w \in DOMAIN l1[j] /\ l1'[j][w] = l1[j][w]
              \/ j = At[r] /\ w = got[r] /\ l1'[j][w] = 0
<1> DEFINE i == At[r]
           others == {w \in DOMAIN l1[i] : ~SameKind(w, got[r])}
           kept == Restrict(l1[i], others)
           f == Put(kept, got[r], 0)
<1>1. LocalOK /\ i \in Instances /\ got[r] \in Versions /\ 0 \in 0..LocalTTL
  BY TypeParts, PlacesAssumption, TimesAssumption DEF ReaderOK
<1>2. l1' = [l1 EXCEPT ![i] = f]
  BY DEF Keep
<1>3. others \subseteq DOMAIN l1[i]
  OBVIOUS
<1> HIDE DEF i, others
<1>4. DOMAIN kept = others /\ \A w \in others : kept[w] = l1[i][w]
  BY RestrictFacts
<1> HIDE DEF kept
<1>5. DOMAIN f = others \cup {got[r]} /\ f[got[r]] = 0 /\ \A w \in others \ {got[r]} : f[w] = l1[i][w]
  <2>1. DOMAIN f = DOMAIN kept \cup {got[r]} /\ f[got[r]] = 0 /\ \A w \in DOMAIN kept \ {got[r]} : f[w] = kept[w]
    BY DEF Put
  <2> QED
    BY <1>4, <2>1
<1> HIDE DEF f
<1>6. DOMAIN l1' = Instances /\ l1'[i] = f /\ \A j \in Instances \ {i} : l1'[j] = l1[j]
  BY <1>1, <1>2 DEF LocalOK
<1>7. \A j \in Instances : \A w \in DOMAIN l1'[j] :
        \/ w \in DOMAIN l1[j] /\ l1'[j][w] = l1[j][w]
        \/ j = i /\ w = got[r] /\ l1'[j][w] = 0
  BY <1>3, <1>5, <1>6
<1>8. \A j \in Instances : DOMAIN l1'[j] \subseteq Versions /\ \A w \in DOMAIN l1'[j] : l1'[j][w] \in 0..LocalTTL
  BY <1>1, <1>7 DEF LocalOK
<1> QED
  BY <1>6, <1>7, <1>8 DEF LocalOK, i

\* A tick makes everything older by one.
LEMMA TickAges ==
  ASSUME TypeOK, Tick
  PROVE  /\ ReaderOK' /\ LocalOK' /\ RowsOK' /\ RestOK' /\ UNCHANGED <<version, l2, step, got, jobs>>
         /\ \A r \in Readers : Storing(r) => since'[r] = since[r] + 1
         /\ \A j \in Instances : \A w \in DOMAIN l1'[j] :
              w \in DOMAIN l1[j] /\ l1'[j][w] = l1[j][w] + 1
         /\ DOMAIN rows' = DOMAIN rows
         /\ \A v \in DOMAIN rows :
              /\ rows'[v].stage = rows[v].stage /\ rows'[v].by = rows[v].by
              /\ rows'[v].wait = (IF rows[v].wait > 0 THEN rows[v].wait - 1 ELSE 0)
         /\ \A v \in Changes : quiet'[v] \in 0..(Settled + 1)
              /\ (IF Over(v) THEN quiet'[v] <= quiet[v] + 1 ELSE quiet'[v] = 0)
<1>1. ReaderOK /\ LocalOK /\ RowsOK /\ RestOK
  BY TypeParts
<1>2. UNCHANGED <<version, l2, step, got, jobs, faults>>
  BY DEF Tick
<1>3. ReaderOK' /\ \A r \in Readers : Storing(r) => since'[r] = since[r] + 1
  <2>1. \A r \in Readers : since[r] \in 0..LoadTime /\ (Storing(r) => since[r] < LoadTime)
    BY <1>1 DEF Tick, ReaderOK
  <2>2. since' = [r \in Readers |-> IF Storing(r) THEN since[r] + 1 ELSE since[r]]
    BY DEF Tick
  <2>3. \A r \in Readers : since'[r] \in 0..LoadTime
    BY <2>1, <2>2, TimesAssumption
  <2> QED
    BY <1>1, <1>2, <2>2, <2>3 DEF ReaderOK
<1>4. LocalOK' /\ \A j \in Instances : \A w \in DOMAIN l1'[j] : w \in DOMAIN l1[j] /\ l1'[j][w] = l1[j][w] + 1
  <2>1. DOMAIN l1' = Instances /\ \A j \in Instances : l1'[j] = InUse(l1[j])
    BY DEF Tick
  <2>2. \A j \in Instances : DOMAIN InUse(l1[j]) = {w \in DOMAIN l1[j] : l1[j][w] < LocalTTL}
          /\ \A w \in DOMAIN InUse(l1[j]) : InUse(l1[j])[w] = l1[j][w] + 1
    BY DEF InUse
  <2>3. \A j \in Instances : \A w \in DOMAIN l1'[j] :
          w \in DOMAIN l1[j] /\ l1'[j][w] = l1[j][w] + 1 /\ l1[j][w] < LocalTTL
    <3> SUFFICES ASSUME NEW j \in Instances, NEW w \in DOMAIN l1'[j]
                 PROVE  w \in DOMAIN l1[j] /\ l1'[j][w] = l1[j][w] + 1 /\ l1[j][w] < LocalTTL
      OBVIOUS
    <3>1. l1'[j] = InUse(l1[j])
      BY <2>1
    <3>2. w \in DOMAIN InUse(l1[j])
      BY <3>1
    <3> QED
      BY <2>2, <3>1, <3>2
  <2>4. \A j \in Instances : \A w \in DOMAIN l1'[j] : l1'[j][w] \in 0..LocalTTL
    BY <1>1, <2>3, TimesAssumption DEF LocalOK
  <2> QED
    <3>1. \A j \in Instances : DOMAIN l1'[j] \subseteq Versions
      BY <1>1, <2>3 DEF LocalOK
    <3>2. LocalOK'
      BY <2>1, <2>4, <3>1 DEF LocalOK
    <3> QED
      BY <2>3, <3>2
<1>5. /\ RowsOK' /\ DOMAIN rows' = DOMAIN rows
      /\ \A v \in DOMAIN rows :
           /\ rows'[v].stage = rows[v].stage /\ rows'[v].by = rows[v].by
           /\ rows'[v].wait = (IF rows[v].wait > 0 THEN rows[v].wait - 1 ELSE 0)
  <2> DEFINE w(v) == IF rows[v].wait > 0 THEN rows[v].wait - 1 ELSE 0
             a(v) == IF rows[v].by = None THEN 0 ELSE Older(rows[v].age, Lease)
             e(v) == [rows[v] EXCEPT !.wait = w(v), !.age = a(v)]
  <2>1. rows' = [v \in DOMAIN rows |-> e(v)]
    BY DEF Tick
  <2>2. ASSUME NEW v \in DOMAIN rows
        PROVE  w(v) \in 0..(SafetyDelay + RetryDelay) /\ a(v) \in 0..Lease /\ rows[v] \in Row
    <3>1. rows[v] \in Row /\ rows[v].wait \in 0..(SafetyDelay + RetryDelay) /\ rows[v].age \in 0..Lease
      BY <1>1 DEF RowsOK, Row
    <3> QED
      BY <3>1, TimesAssumption DEF Older
  <2> HIDE DEF w, a
  <2>3. \A v \in DOMAIN rows : e(v) \in Row /\ e(v).stage = rows[v].stage /\ e(v).by = rows[v].by
                                /\ e(v).wait = w(v)
    BY <2>2 DEF Row
  <2> HIDE DEF e
  <2>4. DOMAIN rows' = DOMAIN rows /\ \A v \in DOMAIN rows : rows'[v] = e(v)
    BY <2>1
  <2> QED
    BY <1>1, <2>3, <2>4 DEF RowsOK, w
<1>6. quiet' \in [Changes -> 0..(Settled + 1)]
      /\ \A v \in Changes : (IF Over(v) THEN quiet'[v] <= quiet[v] + 1 ELSE quiet'[v] = 0)
  <2>1. Settled \in Nat
    BY TimesAssumption DEF Settled
  <2>2. \A v \in Changes : quiet[v] \in 0..(Settled + 1)
    BY <1>1 DEF RestOK
  <2>3. \A v \in Changes : Older(quiet[v], Settled + 1) \in 0..(Settled + 1)
          /\ Older(quiet[v], Settled + 1) <= quiet[v] + 1
    BY <2>1, <2>2 DEF Older
  <2>4. quiet' = [v \in Changes |-> IF Over(v) THEN Older(quiet[v], Settled + 1) ELSE 0]
    BY DEF Tick
  <2> QED
    BY <2>1, <2>2, <2>3, <2>4
<1> QED
  BY <1>1, <1>2, <1>3, <1>4, <1>5, <1>6 DEF RestOK

\* A new row waits for nothing.
LEMMA ChangeAddsRow ==
  ASSUME TypeOK, RowInv, Change
  PROVE  /\ RowsOK' /\ version' = version + 1 /\ version' \in Versions /\ version + 1 \in Changes
         /\ DOMAIN rows' = DOMAIN rows \cup {version + 1} /\ version + 1 \notin DOMAIN rows
         /\ \A v \in DOMAIN rows : rows'[v] = rows[v]
         /\ rows'[version + 1].stage = 0 /\ rows'[version + 1].by = None
<1> DEFINE e == [stage |-> 0, wait |-> 0, by |-> None, age |-> 0]
           n == version + 1
<1>1. RowsOK /\ version \in Versions
  BY TypeParts DEF RestOK
<1>2. e \in Row /\ e.stage = 0 /\ e.by = None
  BY TimesAssumption DEF Row
<1>3. n \in Changes /\ n \in Versions /\ n \notin 1..version
  BY <1>1, StatesAssumption DEF Change, Changes, Versions
<1> HIDE DEF e, n
<1>4. DOMAIN rows' = DOMAIN rows \cup {n} /\ rows'[n] = e /\ \A v \in DOMAIN rows \ {n} : rows'[v] = rows[v]
  BY DEF Change, Put, e, n
<1>5. n \notin DOMAIN rows
  BY <1>3 DEF RowInv
<1>6. version' = n
  BY DEF Change, n
<1>7. RowsOK'
  BY <1>1, <1>2, <1>3, <1>4, <1>5 DEF RowsOK
<1> QED
  BY <1>2, <1>3, <1>4, <1>5, <1>6, <1>7 DEF n

LEMMA RowGoes ==
  ASSUME TypeOK, NEW i, NEW v, Delete(i, v)
  PROVE  /\ RowsOK' /\ DOMAIN rows' \subseteq DOMAIN rows /\ DOMAIN rows \subseteq DOMAIN rows' \cup {v}
         /\ \A u \in DOMAIN rows' : rows'[u] = rows[u]
<1>1. RowsOK
  BY TypeParts
<1>2. CASE UNCHANGED rows
  BY <1>1, <1>2 DEF RowsOK
<1>3. CASE rows' = Drop(rows, v)
  <2>1. DOMAIN rows' = DOMAIN rows \ {v} /\ \A u \in DOMAIN rows \ {v} : rows'[u] = rows[u]
    BY <1>3, DropFacts
  <2> QED
    BY <1>1, <2>1 DEF RowsOK
<1> QED
  BY <1>2, <1>3 DEF Delete

\* With a process go its memory, its readers' states and its jobs; the claims
\* it had stay until they lapse.
LEMMA CrashForgets ==
  ASSUME TypeOK, NEW i \in Instances, Crash(i)
  PROVE  /\ LocalShrinks /\ ReaderOK' /\ RowsOK' /\ JobsOK'
         /\ \A r \in Readers : step'[r] = "idle" \/ (step'[r] = step[r] /\ got'[r] = got[r] /\ since'[r] = since[r])
         /\ DOMAIN rows' = DOMAIN rows
         /\ \A v \in DOMAIN rows :
              /\ rows'[v].stage = rows[v].stage /\ rows'[v].wait = rows[v].wait
              /\ rows'[v].by = rows[v].by \/ rows[v].by = i
         /\ \A j \in Instances : DOMAIN jobs'[j] \subseteq DOMAIN jobs[j]
         /\ \A j \in Instances : \A v \in DOMAIN jobs'[j] : jobs'[j][v] = jobs[j][v]
<1>1. ReaderOK /\ RowsOK /\ JobsOK
  BY TypeParts
<1>2. LocalShrinks
  BY ForgetShrinks DEF Crash
<1>3. /\ ReaderOK'
      /\ \A r \in Readers : step'[r] = "idle" \/ (step'[r] = step[r] /\ got'[r] = got[r] /\ since'[r] = since[r])
  <2>1. 0 \in Versions /\ 0 \in 0..LoadTime
    BY StatesAssumption, TimesAssumption DEF Versions
  <2> QED
    BY <1>1, <2>1 DEF Crash, ReaderOK, Phase
<1>4. /\ RowsOK' /\ DOMAIN rows' = DOMAIN rows
      /\ \A v \in DOMAIN rows :
           /\ rows'[v].stage = rows[v].stage /\ rows'[v].wait = rows[v].wait
           /\ rows'[v].by = rows[v].by \/ rows[v].by = i
  <2> DEFINE e(v) == [rows[v] EXCEPT !.by = "gone"]
  <2>1. \A v \in DOMAIN rows : e(v) \in Row /\ e(v).stage = rows[v].stage /\ e(v).wait = rows[v].wait
    BY <1>1 DEF RowsOK, Row
  <2>2. rows' = [v \in DOMAIN rows |-> IF rows[v].by = i THEN e(v) ELSE rows[v]]
    BY DEF Crash
  <2> HIDE DEF e
  <2> QED
    BY <1>1, <2>1, <2>2 DEF RowsOK
<1>5. /\ JobsOK' /\ \A j \in Instances : DOMAIN jobs'[j] \subseteq DOMAIN jobs[j]
      /\ \A j \in Instances : \A v \in DOMAIN jobs'[j] : jobs'[j][v] = jobs[j][v]
  <2>1. DOMAIN jobs' = Instances /\ jobs'[i] = <<>> /\ \A j \in Instances \ {i} : jobs'[j] = jobs[j]
    BY <1>1 DEF JobsOK, Crash
  <2>2. DOMAIN jobs'[i] = {}
    BY <2>1
  <2> QED
    BY <1>1, <2>1, <2>2 DEF JobsOK
<1> QED
  BY <1>2, <1>3, <1>4, <1>5

-----------------------------------------------------------------------------
(* Types, and what rows and jobs are about. *)

LEMMA InitInv == Init => CacheInv
<1> SUFFICES ASSUME Init PROVE CacheInv
  OBVIOUS
<1>1. /\ DOMAIN rows = {} /\ \A i \in Instances : DOMAIN l1[i] = {} /\ DOMAIN jobs[i] = {}
      /\ \A r \in Readers : step[r] = "idle"
  BY DEF Init
<1>2. Settled \in Nat /\ 0 \in 0..LoadTime /\ 0 \in Versions /\ 0 \in 0..MaxFaults /\ Never \notin Versions
      /\ 0 \in 0..(Settled + 1)
  BY StatesAssumption, TimesAssumption DEF Settled, Versions, Never
<1>3. TypeOK
  BY <1>1, <1>2 DEF Init, TypeOK
<1>4. \A v \in Changes : ~Over(v)
  BY StatesAssumption DEF Init, Over, Changes
<1>5. \A v \in Changes : quiet[v] = 0
  BY DEF Init
<1> QED
  BY <1>1, <1>3, <1>4, <1>5 DEF CacheInv, RowInv, DelayInv, SecondPassInv, SharedIsCurrent, QuietInv

LEMMA StepTypeOK ==
  ASSUME TypeOK, RowInv, [Next]_vars
  PROVE  TypeOK' /\ RowInv'
<1>0. ReaderOK /\ LocalOK /\ JobsOK /\ RowsOK /\ RestOK
  BY TypeParts
<1> SUFFICES ReaderOK' /\ LocalOK' /\ JobsOK' /\ RowsOK' /\ RestOK' /\ RowInv'
  BY DEF TypeOK, ReaderOK, LocalOK, JobsOK, RowsOK, RestOK, Phase
<1> USE DEF RestOK
<1>1. CASE UNCHANGED vars
  BY <1>0, <1>1 DEF vars, ReaderOK, LocalOK, JobsOK, RowsOK, RowInv
<1>2. CASE Change
  <2>1. UNCHANGED <<cache, reader, jobs, quiet, faults>>
    BY <1>2 DEF Change
  <2>2. version \in Nat /\ 1..version \subseteq 1..(version + 1) /\ version + 1 \in 1..(version + 1)
    BY <1>0, StatesAssumption DEF Versions
  <2>3. RowInv'
    <3>1. DOMAIN rows' \subseteq 1..version' /\ \A i \in Instances : DOMAIN jobs'[i] \subseteq 1..version'
      BY <1>2, <2>1, <2>2, ChangeAddsRow DEF RowInv
    <3>2. \A v \in DOMAIN rows' : rows'[v].by # None => rows'[v].wait = 0
      BY <1>2, ChangeAddsRow DEF RowInv
    <3> QED
      BY <3>1, <3>2 DEF RowInv
  <2> QED
    BY <1>0, <1>2, <2>1, <2>3, ChangeAddsRow DEF ReaderOK, LocalOK, JobsOK
<1>3. ASSUME NEW r \in Readers, Lookup(r) \/ Load(r) \/ Share(r) \/ Keep(r)
      PROVE  ReaderOK' /\ LocalOK' /\ JobsOK' /\ RowsOK' /\ RestOK' /\ RowInv'
  <2>1. UNCHANGED <<version, rows, jobs, quiet, faults>>
    BY <1>3 DEF Lookup, Load, Share, Keep
  <2>2. JobsOK' /\ RowsOK' /\ RowInv'
    BY <1>0, <2>1 DEF JobsOK, RowsOK, RowInv
  <2>3. got[r] \in Versions /\ 0 \in Versions /\ version \in Versions
    BY <1>0, StatesAssumption DEF ReaderOK, Versions
  <2>4. ReaderOK'
    <3>1. CASE Lookup(r)
      BY <1>0, <3>1, ReaderMoves DEF Lookup, Phase
    <3>2. CASE Load(r)
      BY <2>3, <3>2, ReaderMoves DEF Load, Phase
    <3>3. CASE Share(r)
      BY <2>3, <3>3, ReaderMoves DEF Share, Done, Phase
    <3>4. CASE Keep(r)
      BY <2>3, <3>4, ReaderMoves DEF Keep, Done, Phase
    <3> QED
      BY <1>3, <3>1, <3>2, <3>3, <3>4
  <2>5. LocalOK' /\ l2' \in Versions \cup {Never}
    <3>1. CASE Keep(r)
      BY <1>0, <3>1, KeepAdds DEF Keep
    <3>2. CASE UNCHANGED l1 /\ (UNCHANGED l2 \/ l2' = got[r])
      BY <1>0, <2>3, <3>2 DEF LocalOK
    <3> QED
      BY <1>3, <3>1, <3>2 DEF Lookup, Load, Share
  <2> QED
    BY <1>0, <2>1, <2>2, <2>4, <2>5
<1>4. CASE EvictShared
  BY <1>0, <1>4 DEF EvictShared, ReaderOK, LocalOK, JobsOK, RowsOK, RowInv
<1>5. ASSUME NEW i \in Instances, NEW v \in Versions, EvictLocal(i, v)
      PROVE  ReaderOK' /\ LocalOK' /\ JobsOK' /\ RowsOK' /\ RestOK' /\ RowInv'
  <2>1. LocalOK'
    BY <1>5, EvictShrinks DEF LocalShrinks
  <2>2. UNCHANGED <<version, rows, l2, reader, jobs, quiet, faults>>
    BY <1>5 DEF EvictLocal
  <2> QED
    BY <1>0, <2>1, <2>2 DEF ReaderOK, JobsOK, RowsOK, RowInv
<1>6. ASSUME NEW i \in Instances, Claim(i)
      PROVE  ReaderOK' /\ LocalOK' /\ JobsOK' /\ RowsOK' /\ RestOK' /\ RowInv'
  <2>1. UNCHANGED <<version, cache, reader, quiet>> /\ faults' \in 0..MaxFaults
    BY <1>6, FaultType DEF Claim
  <2>2. JobsOK' /\ RowsOK' /\ RowInv'
    BY <1>6, <2>1, Claims DEF RowInv
  <2> QED
    BY <1>0, <2>1, <2>2 DEF ReaderOK, LocalOK
<1>7. ASSUME NEW i \in Instances, NEW v \in Changes, DropLocal(i, v) \/ DropShared(i, v) \/ Publish(i, v)
      PROVE  ReaderOK' /\ LocalOK' /\ JobsOK' /\ RowsOK' /\ RestOK' /\ RowInv'
  <2>1. UNCHANGED <<version, rows, reader, quiet>> /\ faults' \in 0..MaxFaults
    BY <1>7, FaultType DEF DropLocal, DropShared, Publish
  <2>2. v \in DOMAIN jobs[i]
    BY <1>7 DEF DropLocal, DropShared, Publish, JobAt
  <2>3. PICK s \in Tag : Advance(i, v, s)
    BY <1>7 DEF DropLocal, DropShared, Publish, Tag
  <2>4. JobsOK' /\ \A j \in Instances : DOMAIN jobs'[j] = DOMAIN jobs[j]
    BY <2>2, <2>3, JobAdvances
  <2>5. LocalOK'
    BY <1>0, <1>7, ForgetShrinks, PublishShrinks DEF LocalShrinks, DropLocal, DropShared, LocalOK
  <2>6. l2' \in Versions \cup {Never}
    BY <1>0, <1>7 DEF DropLocal, DropShared, Publish
  <2> QED
    BY <1>0, <2>1, <2>4, <2>5, <2>6 DEF ReaderOK, RowsOK, RowInv
<1>8. ASSUME NEW i \in Instances, NEW v \in Changes, Retry(i, v) \/ Finish(i, v)
      PROVE  ReaderOK' /\ LocalOK' /\ JobsOK' /\ RowsOK' /\ RestOK' /\ RowInv'
  <2>1. UNCHANGED <<version, cache, reader, quiet>> /\ faults' \in 0..MaxFaults
    BY <1>8, FaultType DEF Retry, Finish
  <2>2. v \in DOMAIN jobs[i] /\ End(i, v)
    BY <1>8 DEF Retry, Finish, JobAt
  <2>3. JobsOK' /\ \A j \in Instances : DOMAIN jobs'[j] \subseteq DOMAIN jobs[j]
    BY <2>2, JobEnds
  <2>4. RowsOK' /\ DOMAIN rows' \subseteq DOMAIN rows
        /\ \A u \in DOMAIN rows' : rows'[u].by # None => rows'[u] = rows[u]
    <3>1. CASE Delete(i, v)
      BY <3>1, RowGoes
    <3>2. CASE (\E w \in 0..RetryDelay : Mine(i, v) /\ rows' = [rows EXCEPT ![v] = Released(v, w)])
                 \/ Postpone(i, v) \/ UNCHANGED rows
      BY <2>2, <3>2, PassEnds
    <3> QED
      BY <1>8, <3>1, <3>2 DEF Retry, Finish
  <2> QED
    BY <1>0, <2>1, <2>3, <2>4 DEF ReaderOK, LocalOK, RowInv
<1>9. ASSUME NEW i \in Instances, Crash(i)
      PROVE  ReaderOK' /\ LocalOK' /\ JobsOK' /\ RowsOK' /\ RestOK' /\ RowInv'
  <2>1. UNCHANGED <<version, l2, quiet>> /\ faults' \in 0..MaxFaults
    BY <1>9, FaultType DEF Crash
  <2>2. RowInv'
    <3>1. DOMAIN rows' \subseteq 1..version' /\ \A j \in Instances : DOMAIN jobs'[j] \subseteq 1..version'
      BY <1>9, <2>1, CrashForgets DEF RowInv
    <3>2. \A v \in DOMAIN rows' : rows'[v].by # None => rows'[v].wait = 0
      BY <1>9, CrashForgets, PlacesAssumption DEF RowInv
    <3> QED
      BY <3>1, <3>2 DEF RowInv
  <2> QED
    BY <1>0, <1>9, <2>1, <2>2, CrashForgets DEF LocalShrinks
<1>10. CASE Tick
  <2>1. RowInv'
    BY <1>0, <1>10, TickAges DEF RowInv
  <2> QED
    BY <1>0, <1>10, <2>1, TickAges DEF JobsOK
<1> QED
  BY <1>1, <1>2, <1>3, <1>4, <1>5, <1>6, <1>7, <1>8, <1>9, <1>10 DEF Next, Work, Store

-----------------------------------------------------------------------------
(* What the steps other than a tick do, part by part. *)

\* Only Load gives a reader a state it is going to store in Redis, and that is
\* the current one; only Lookup copies one, from Redis.
LEMMA ReaderStep ==
  ASSUME TypeOK, [Next]_vars, ~Tick, NEW r \in Readers
  PROVE  /\ \A v \in 1..version : Late(r, v)' => Late(r, v) /\ since'[r] = since[r]
         /\ step'[r] = "copy" =>
              \/ step[r] = "copy" /\ got'[r] = got[r] /\ since'[r] = since[r]
              \/ got'[r] = l2 /\ l2 # Never
<1> DEFINE Same == step'[r] = step[r] /\ got'[r] = got[r] /\ since'[r] = since[r]
<1>1. CASE Same \/ step'[r] \in {"idle", "load"}
  BY <1>1 DEF Late
<1>2. CASE UNCHANGED reader
  BY <1>1, <1>2
<1>3. ASSUME NEW q \in Readers, Lookup(q) \/ Load(q) \/ Share(q) \/ Keep(q), q # r
      PROVE  Same
  <2>1. step \in [Readers -> Phase] /\ got \in [Readers -> Versions] /\ since \in [Readers -> 0..LoadTime]
    BY TypeParts DEF ReaderOK
  <2> QED
    BY <1>3, <2>1 DEF Lookup, Load, Share, Keep, Goto, Read, Done
<1>4. CASE Lookup(r)
  <2>1. step'[r] = "load" \/ (step'[r] = "copy" /\ got'[r] = l2 /\ l2 # Never)
    BY <1>4, TypeParts DEF ReaderOK, Lookup, Goto, Read
  <2> QED
    BY <1>1, <2>1 DEF Late
<1>5. CASE Load(r)
  <2>1. step'[r] = "idle" \/ (step'[r] = "keep" /\ got'[r] = version)
    BY <1>5, TypeParts DEF ReaderOK, Load, Goto, Read
  <2>2. version \in Nat
    BY TypeParts, StatesAssumption DEF RestOK, Versions
  <2> QED
    BY <1>1, <2>1, <2>2 DEF Late
<1>6. CASE Share(r)
  BY <1>1, <1>6, TypeParts DEF ReaderOK, Share, Done, Goto
<1>7. CASE Keep(r)
  <2>1. step'[r] = "idle" \/ (step[r] = "keep" /\ step'[r] = "share" /\ got'[r] = got[r] /\ since'[r] = since[r])
    BY <1>7, TypeParts DEF ReaderOK, Keep, Done, Goto
  <2> QED
    BY <1>1, <2>1 DEF Late
<1>8. ASSUME NEW i \in Instances, Crash(i)
      PROVE  Same \/ step'[r] = "idle"
  BY <1>8, CrashForgets
<1>9. UNCHANGED reader \/ (\E q \in Readers : Lookup(q) \/ Load(q) \/ Share(q) \/ Keep(q))
        \/ (\E i \in Instances : Crash(i))
  <2>1. CASE UNCHANGED vars \/ Change \/ EvictShared
    BY <2>1 DEF vars, Change, EvictShared
  <2>2. ASSUME NEW i \in Instances, NEW v \in Versions, EvictLocal(i, v) PROVE UNCHANGED reader
    BY <2>2 DEF EvictLocal
  <2>3. ASSUME NEW i \in Instances, Claim(i) PROVE UNCHANGED reader
    BY <2>3 DEF Claim
  <2>4. ASSUME NEW i \in Instances, NEW v \in Changes, DropLocal(i, v) \/ DropShared(i, v)
        PROVE  UNCHANGED reader
    BY <2>4 DEF DropLocal, DropShared
  <2>5. ASSUME NEW i \in Instances, NEW v \in Changes, Publish(i, v) \/ Retry(i, v) \/ Finish(i, v)
        PROVE  UNCHANGED reader
    BY <2>5 DEF Publish, Retry, Finish
  <2> QED
    BY <2>1, <2>2, <2>3, <2>4, <2>5 DEF Next, Work, Store
<1> QED
  BY <1>1, <1>2, <1>3, <1>4, <1>5, <1>6, <1>7, <1>8, <1>9

\* A row gets to its second stage with the whole delay before it; from then on
\* its time changes only once it is due.
LEMMA RowsStep ==
  ASSUME TypeOK, RowInv, [Next]_vars, ~Tick
  PROVE  \A v \in DOMAIN rows' : rows'[v].stage = 1 =>
           /\ v \in DOMAIN rows
           /\ \/ rows'[v].wait = SafetyDelay
              \/ rows[v].stage = 1 /\ rows[v].wait \in {0, rows'[v].wait}
<1>1. CASE UNCHANGED rows
  BY <1>1
<1>2. CASE Change
  BY <1>2, ChangeAddsRow
<1>3. ASSUME NEW i \in Instances, Claim(i)
      PROVE  \A v \in DOMAIN rows' : rows'[v].stage = 1 =>
               v \in DOMAIN rows /\ rows[v].stage = 1 /\ rows[v].wait = rows'[v].wait
  BY <1>3, Claims
<1>4. ASSUME NEW i \in Instances, NEW v \in Changes, Retry(i, v) \/ Finish(i, v)
      PROVE  \A u \in DOMAIN rows' : rows'[u].stage = 1 =>
           /\ u \in DOMAIN rows
           /\ \/ rows'[u].wait = SafetyDelay
              \/ rows[u].stage = 1 /\ rows[u].wait \in {0, rows'[u].wait}
  <2>1. v \in DOMAIN jobs[i]
    BY <1>4 DEF Retry, Finish, JobAt
  <2>2. CASE Delete(i, v)
    BY <2>2, RowGoes
  <2>3. CASE (\E w \in 0..RetryDelay : Mine(i, v) /\ rows' = [rows EXCEPT ![v] = Released(v, w)])
               \/ Postpone(i, v) \/ UNCHANGED rows
    BY <2>1, <2>3, PassEnds
  <2> QED
    BY <1>4, <2>2, <2>3 DEF Retry, Finish
<1>5. ASSUME NEW i \in Instances, Crash(i)
      PROVE  \A v \in DOMAIN rows' : rows'[v].stage = 1 =>
               v \in DOMAIN rows /\ rows[v].stage = 1 /\ rows[v].wait = rows'[v].wait
  BY <1>5, CrashForgets
<1>6. \/ UNCHANGED rows \/ Change
      \/ \E i \in Instances : Claim(i) \/ Crash(i) \/ \E v \in Changes : Retry(i, v) \/ Finish(i, v)
  BY DEF Next, vars, Work, Store, EvictShared, EvictLocal, DropLocal, DropShared, Publish,
         Lookup, Load, Share, Keep
<1> QED
  BY <1>1, <1>2, <1>3, <1>4, <1>5, <1>6

\* A worker is at the second pass of a row since it claimed the row for that,
\* and past the deletion from Redis since it did that.
LEMMA JobsStep ==
  ASSUME TypeOK, RowInv, [Next]_vars, ~Tick, NEW i \in Instances, NEW v \in DOMAIN jobs'[i],
         jobs'[i][v].stage = 1
  PROVE  \/ /\ v \in DOMAIN jobs[i] /\ jobs[i][v].stage = 1
            /\ jobs'[i][v].step \in {"publish", "finish"} =>
                 jobs[i][v].step \in {"publish", "finish"} \/ l2' = Never
         \/ v \in DOMAIN rows /\ rows[v].stage = 1 /\ rows[v].wait = 0 /\ jobs'[i][v].step = "local"
<1>1. CASE v \in DOMAIN jobs[i] /\ jobs'[i][v] = jobs[i][v]
  BY <1>1
<1>2. CASE UNCHANGED jobs
  BY <1>1, <1>2
<1>3. ASSUME NEW j \in Instances, Claim(j)
      PROVE  \/ v \in DOMAIN jobs[i] /\ jobs'[i][v] = jobs[i][v]
             \/ v \in DOMAIN rows /\ rows[v].stage = 1 /\ rows[v].wait = 0 /\ jobs'[i][v].step = "local"
  BY <1>3, Claims
<1>4. ASSUME NEW j \in Instances, NEW u \in Changes, DropLocal(j, u) \/ DropShared(j, u) \/ Publish(j, u)
      PROVE  /\ v \in DOMAIN jobs[i] /\ jobs[i][v].stage = 1
             /\ jobs'[i][v].step \in {"publish", "finish"} =>
                  jobs[i][v].step \in {"publish", "finish"} \/ l2' = Never
  <2>1. u \in DOMAIN jobs[j]
    BY <1>4 DEF DropLocal, DropShared, Publish, JobAt
  <2>2. PICK s \in Tag : /\ Advance(j, u, s)
                         /\ s \in {"publish", "finish"} => jobs[j][u].step = "publish" \/ l2' = Never
    BY <1>4 DEF DropLocal, DropShared, Publish, JobAt, Tag
  <2>3. /\ jobs'[j][u].step = s /\ jobs'[j][u].stage = jobs[j][u].stage
        /\ DOMAIN jobs'[i] = DOMAIN jobs[i]
        /\ (i # j \/ v # u) /\ v \in DOMAIN jobs[i] => jobs'[i][v] = jobs[i][v]
    BY <2>1, <2>2, JobAdvances
  <2> QED
    BY <2>2, <2>3
<1>5. ASSUME NEW j \in Instances, NEW u \in Changes, Retry(j, u) \/ Finish(j, u)
      PROVE  v \in DOMAIN jobs[i] /\ jobs'[i][v] = jobs[i][v]
  <2>1. End(j, u)
    BY <1>5 DEF Retry, Finish
  <2> QED
    BY <2>1, JobEnds
<1>6. ASSUME NEW j \in Instances, Crash(j)
      PROVE  v \in DOMAIN jobs[i] /\ jobs'[i][v] = jobs[i][v]
  BY <1>6, CrashForgets
<1>7. \/ UNCHANGED jobs
      \/ \E j \in Instances : Claim(j) \/ Crash(j) \/ \E u \in Changes :
           DropLocal(j, u) \/ DropShared(j, u) \/ Publish(j, u) \/ Retry(j, u) \/ Finish(j, u)
  BY DEF Next, vars, Work, Store, Change, EvictShared, EvictLocal, Lookup, Load, Share, Keep
<1> QED
  BY <1>1, <1>2, <1>3, <1>4, <1>5, <1>6, <1>7

\* Redis is written by readers only.
LEMMA SharedStep ==
  ASSUME TypeOK, [Next]_vars
  PROVE  l2' \in {l2, Never} \/ \E r \in Readers : step[r] = "share" /\ l2' = got[r]
  BY DEF Next, vars, Work, Store, Change, EvictShared, EvictLocal, Lookup, Load, Share, Keep,
         Claim, DropLocal, DropShared, Publish, Retry, Finish, Crash, Tick

\* A row goes at the end of its second pass, and does not come back.
LEMMA OverStep ==
  ASSUME TypeOK, RowInv, [Next]_vars, ~Tick, NEW v \in Changes
  PROVE  /\ UNCHANGED quiet /\ (Over(v) => Over(v)')
         /\ Over(v)' => \/ Over(v)
                        \/ /\ UNCHANGED <<cache, reader>>
                           /\ \E i \in Instances : v \in DOMAIN jobs[i] /\ jobs[i][v].stage = 1
                                                   /\ jobs[i][v].step = "finish"
<1>0. version \in Nat /\ v \in Nat /\ JobsOK
  BY TypeParts, StatesAssumption DEF RestOK, Versions, Changes
<1>1. UNCHANGED quiet
  BY DEF Next, vars, Work, Store, Change, EvictShared, EvictLocal, Lookup, Load, Share, Keep,
         Claim, DropLocal, DropShared, Publish, Retry, Finish, Crash
<1>2. CASE UNCHANGED version /\ DOMAIN rows' = DOMAIN rows
  BY <1>1, <1>2 DEF Over
<1>3. CASE Change
  BY <1>0, <1>1, <1>3, ChangeAddsRow DEF Over, RowInv
<1>4. ASSUME NEW i \in Instances, NEW u \in Changes, Finish(i, u), Delete(i, u), jobs[i][u].stage # 0
      PROVE  (Over(v) => Over(v)')
             /\ (Over(v)' => Over(v) \/ (v = u /\ jobs[i][u].stage = 1))
  <2>1. jobs[i][u].stage \in {0, 1}
    BY <1>0, <1>4 DEF JobsOK, Finish, JobAt, Job
  <2>2. UNCHANGED version
    BY <1>4 DEF Finish
  <2> QED
    BY <1>4, <2>1, <2>2, RowGoes DEF Over
<1>5. ASSUME NEW i \in Instances, NEW u \in Changes, Retry(i, u) \/ Finish(i, u)
      PROVE  /\ UNCHANGED <<version, cache, reader>>
             /\ \/ DOMAIN rows' = DOMAIN rows
                \/ Finish(i, u) /\ Delete(i, u) /\ jobs[i][u].stage # 0
  <2>1. u \in DOMAIN jobs[i]
    BY <1>5 DEF Retry, Finish, JobAt
  <2>2. CASE (\E w \in 0..RetryDelay : Mine(i, u) /\ rows' = [rows EXCEPT ![u] = Released(u, w)])
               \/ Postpone(i, u) \/ UNCHANGED rows
    BY <1>5, <2>1, <2>2, PassEnds DEF Retry, Finish
  <2> QED
    BY <1>5, <2>2 DEF Retry, Finish
<1>6. ASSUME NEW i \in Instances, Claim(i) \/ Crash(i)
      PROVE  UNCHANGED version /\ DOMAIN rows' = DOMAIN rows
  BY <1>6, Claims, CrashForgets DEF Claim, Crash
<1>7. \/ UNCHANGED <<version, rows>> \/ Change
      \/ \E i \in Instances : Claim(i) \/ Crash(i) \/ \E u \in Changes : Retry(i, u) \/ Finish(i, u)
  BY DEF Next, vars, Work, Store, EvictShared, EvictLocal, DropLocal, DropShared, Publish,
         Lookup, Load, Share, Keep
<1>8. ASSUME NEW i \in Instances, NEW u \in Changes, Retry(i, u) \/ Finish(i, u)
      PROVE  /\ Over(v) => Over(v)'
             /\ Over(v)' => \/ Over(v)
                            \/ /\ UNCHANGED <<cache, reader>>
                               /\ v \in DOMAIN jobs[i] /\ jobs[i][v].stage = 1
                               /\ jobs[i][v].step = "finish"
  <2>1. CASE DOMAIN rows' = DOMAIN rows
    BY <1>5, <1>8, <2>1 DEF Over
  <2>2. CASE Finish(i, u) /\ Delete(i, u) /\ jobs[i][u].stage # 0
    BY <1>4, <1>5, <2>2 DEF Finish, JobAt
  <2> QED
    BY <1>5, <1>8, <2>1, <2>2
<1> QED
  BY <1>1, <1>2, <1>3, <1>6, <1>7, <1>8

\* What appears in a process' memory was in the hands of a reader.
LEMMA LocalStep ==
  ASSUME TypeOK, [Next]_vars, ~Tick, NEW i \in Instances, NEW w \in DOMAIN l1'[i]
  PROVE  \/ w \in DOMAIN l1[i] /\ l1'[i][w] = l1[i][w]
         \/ \E r \in Readers : step[r] \in {"keep", "copy"} /\ got[r] = w /\ l1'[i][w] = 0
<1>1. CASE UNCHANGED l1
  BY <1>1
<1>2. ASSUME NEW r \in Readers, Keep(r)
      PROVE  \/ w \in DOMAIN l1[i] /\ l1'[i][w] = l1[i][w]
             \/ step[r] \in {"keep", "copy"} /\ got[r] = w /\ l1'[i][w] = 0
  <2>1. step[r] \in {"keep", "copy"}
    BY <1>2 DEF Keep
  <2> QED
    BY <1>2, <2>1, KeepAdds
<1>3. CASE LocalShrinks
  BY <1>3 DEF LocalShrinks
<1>4. \/ UNCHANGED l1 \/ \E r \in Readers : Keep(r)
      \/ \E j \in Instances : Crash(j) \/ (\E v \in Versions : EvictLocal(j, v))
                              \/ \E v \in Changes : DropLocal(j, v) \/ Publish(j, v)
  BY DEF Next, vars, Work, Store, Change, EvictShared, Lookup, Load, Share, Claim, DropShared,
         Retry, Finish
<1>5. ASSUME NEW j \in Instances, Crash(j) \/ (\E v \in Versions : EvictLocal(j, v))
                              \/ (\E v \in Changes : DropLocal(j, v) \/ Publish(j, v))
      PROVE  LocalShrinks
  BY <1>5, CrashForgets, EvictShrinks, PublishShrinks, ForgetShrinks DEF DropLocal
<1> QED
  BY <1>1, <1>2, <1>3, <1>4, <1>5

-----------------------------------------------------------------------------
(* The invariant is kept, part by part. *)

\* At the second pass of a row nobody is left who would bring back a state from
\* before the change: it would have been in hand longer than LoadTime.
LEMMA DueIsSafe ==
  ASSUME TypeOK, DelayInv, NEW v \in DOMAIN rows, rows[v].stage = 1, rows[v].wait = 0
  PROVE  \A r \in Readers : ~Late(r, v)
<1>1. \A r \in Readers : since[r] \in 0..LoadTime
  BY DEF TypeOK
<1> QED
  BY <1>1, TimesAssumption, DelayAssumption DEF DelayInv

LEMMA NextDelayInv ==
  ASSUME TypeOK, RowInv, DelayInv, [Next]_vars
  PROVE  DelayInv'
<1> SUFFICES ASSUME NEW v \in DOMAIN rows', (rows[v].stage)' = 1, NEW r \in Readers, Late(r, v)'
             PROVE  since'[r] + (rows[v].wait)' >= SafetyDelay
  BY DEF DelayInv
<1>1. \A q \in Readers : since[q] \in 0..LoadTime
  BY DEF TypeOK
<1>2. \A u \in DOMAIN rows : rows[u].wait \in Nat
  BY TimesAssumption DEF TypeOK, Row
<1>3. since'[r] \in 0..LoadTime
  BY StepTypeOK DEF TypeOK
<1>4. CASE Tick
  <2>1. v \in DOMAIN rows /\ rows[v].stage = 1 /\ Late(r, v) /\ since'[r] = since[r] + 1
        /\ rows'[v].wait = (IF rows[v].wait > 0 THEN rows[v].wait - 1 ELSE 0)
    BY <1>4, TickAges DEF Late, Storing
  <2>2. since[r] + rows[v].wait >= SafetyDelay /\ rows[v].wait # 0
    BY <2>1, DueIsSafe DEF DelayInv
  <2> QED
    BY <1>1, <1>2, <2>1, <2>2, TimesAssumption
<1>5. CASE ~Tick
  <2>1. v \in DOMAIN rows /\ v \in 1..version
        /\ (rows'[v].wait = SafetyDelay \/ (rows[v].stage = 1 /\ rows[v].wait \in {0, rows'[v].wait}))
    BY <1>5, RowsStep DEF RowInv
  <2>2. Late(r, v) /\ since'[r] = since[r]
    BY <1>5, <2>1, ReaderStep
  <2>3. CASE rows'[v].wait = SafetyDelay
    BY <1>3, <2>3, TimesAssumption
  <2>4. CASE rows[v].stage = 1 /\ rows[v].wait = rows'[v].wait
    BY <2>1, <2>2, <2>4 DEF DelayInv
  <2>5. CASE rows[v].stage = 1 /\ rows[v].wait = 0
    BY <2>1, <2>2, <2>5, DueIsSafe
  <2> QED
    BY <2>1, <2>3, <2>4, <2>5
<1> QED
  BY <1>4, <1>5

\* Where nobody is late, and Redis serves no state from before the change, it
\* stays so.
LEMMA SafeStays ==
  ASSUME TypeOK, [Next]_vars, NEW v \in 1..version, \A r \in Readers : ~Late(r, v)
  PROVE  (\A r \in Readers : ~Late(r, v)') /\ (l2 >= v => l2' >= v)
<1>1. \A r \in Readers : ~Late(r, v)'
  <2>1. CASE Tick
    BY <2>1, TickAges DEF Late
  <2>2. CASE ~Tick
    BY <2>2, ReaderStep
  <2> QED
    BY <2>1, <2>2
<1>2. Never >= v /\ v \in Nat /\ \A r \in Readers : got[r] \in Nat
  BY StatesAssumption DEF TypeOK, Versions, Never
<1>3. \A r \in Readers : step[r] = "share" => got[r] >= v
  BY <1>2 DEF Late
<1> QED
  BY <1>1, <1>2, <1>3, SharedStep

LEMMA NextSecondPassInv ==
  ASSUME TypeOK, RowInv, DelayInv, SecondPassInv, [Next]_vars
  PROVE  SecondPassInv'
<1> SUFFICES ASSUME NEW i \in Instances, NEW v \in DOMAIN jobs'[i], (jobs[i][v].stage)' = 1
             PROVE  /\ \A r \in Readers : ~Late(r, v)'
                    /\ (jobs[i][v].step)' \in {"publish", "finish"} => l2' >= v
  BY DEF SecondPassInv
<1>1. CASE Tick
  <2>1. UNCHANGED <<jobs, l2, step, got>>
    BY <1>1 DEF Tick
  <2> QED
    BY <2>1 DEF SecondPassInv, Late
<1>2. CASE v \in DOMAIN jobs[i] /\ jobs[i][v].stage = 1
           /\ (jobs'[i][v].step \in {"publish", "finish"} =>
                 jobs[i][v].step \in {"publish", "finish"} \/ l2' = Never)
  <2>1. v \in 1..version
    BY <1>2 DEF RowInv
  <2>2. Never >= v
    BY <2>1, StatesAssumption DEF TypeOK, Versions, Never
  <2> QED
    BY <1>2, <2>1, <2>2, SafeStays DEF SecondPassInv
<1>3. CASE v \in DOMAIN rows /\ rows[v].stage = 1 /\ rows[v].wait = 0 /\ jobs'[i][v].step = "local"
  <2>1. v \in 1..version
    BY <1>3 DEF RowInv
  <2> QED
    BY <1>3, <2>1, DueIsSafe, SafeStays
<1> QED
  BY <1>1, <1>2, <1>3, JobsStep

\* What the deletion of a row leaves behind, and what lasts.
LEMMA NextSharedIsCurrent ==
  ASSUME TypeOK, RowInv, SecondPassInv, SharedIsCurrent, [Next]_vars
  PROVE  SharedIsCurrent'
<1>0. \A r \in Readers : got[r] \in Nat /\ got'[r] \in Nat
  BY StepTypeOK, StatesAssumption DEF TypeOK, Versions
<1> SUFFICES ASSUME NEW v \in Changes, Over(v)'
             PROVE  l2' >= v /\ \A r \in Readers : ~Late(r, v)'
  BY <1>0 DEF SharedIsCurrent, Late, Changes
<1>1. CASE Over(v)
  <2>1. v \in 1..version
    BY <1>1, StatesAssumption DEF Over, Changes, TypeOK, Versions
  <2>2. l2 >= v /\ \A r \in Readers : step[r] \in {"keep", "share"} => got[r] >= v
    BY <1>1 DEF SharedIsCurrent
  <2>3. \A r \in Readers : ~Late(r, v)
    BY <1>0, <2>1, <2>2 DEF Late
  <2> QED
    BY <2>1, <2>2, <2>3, SafeStays
<1>2. CASE ~Over(v)
  <2>1. ~Tick
    BY <1>2, TickAges DEF Over
  <2>2. UNCHANGED <<cache, reader>>
        /\ \E i \in Instances : v \in DOMAIN jobs[i] /\ jobs[i][v].stage = 1 /\ jobs[i][v].step = "finish"
    BY <1>2, <2>1, OverStep
  <2> QED
    BY <2>2 DEF SecondPassInv, Late
<1> QED
  BY <1>1, <1>2

LEMMA NextQuietInv ==
  ASSUME TypeOK, RowInv, SharedIsCurrent, QuietInv, [Next]_vars
  PROVE  QuietInv'
<1>0. /\ \A r \in Readers : got[r] \in Nat /\ got'[r] \in Nat /\ since[r] \in 0..LoadTime /\ since'[r] \in 0..LoadTime
      /\ \A i \in Instances : \A w \in DOMAIN l1'[i] : l1'[i][w] \in 0..LocalTTL
      /\ \A i \in Instances : DOMAIN l1[i] \subseteq Nat /\ \A w \in DOMAIN l1[i] : l1[i][w] \in 0..LocalTTL
      /\ l2 \in Nat /\ version \in Nat /\ version' \in Nat
  BY StepTypeOK, StatesAssumption DEF TypeOK, Versions, Never
<1> SUFFICES ASSUME NEW v \in Changes
             PROVE  /\ ~Over(v)' => quiet'[v] = 0
                    /\ Over(v)' =>
                         /\ \A r \in Readers : step'[r] = "copy" /\ got'[r] < v => quiet'[v] <= since'[r]
                         /\ \A i \in Instances : \A w \in DOMAIN l1'[i] :
                              w < v => quiet'[v] <= LoadTime + l1'[i][w]
  BY DEF QuietInv
<1>1. quiet[v] \in Nat /\ v \in Nat
  BY TimesAssumption, StatesAssumption DEF TypeOK, Settled, Changes
<1>2. CASE Tick
  <2>1. UNCHANGED <<step, got>> /\ Over(v)' = Over(v)
    BY <1>2, TickAges DEF Over
  <2>2. CASE ~Over(v)
    BY <1>2, <2>1, <2>2, TickAges
  <2>3. CASE Over(v)
    <3>1. quiet'[v] \in Nat /\ quiet'[v] <= quiet[v] + 1
      BY <1>2, <2>3, TickAges, TimesAssumption DEF Settled
    <3>2. ASSUME NEW r \in Readers, step'[r] = "copy", got'[r] < v
          PROVE  quiet'[v] <= since'[r]
      <4>1. quiet[v] <= since[r] /\ since'[r] = since[r] + 1
        BY <1>2, <2>1, <2>3, <3>2, TickAges DEF QuietInv, Storing
      <4> QED
        BY <1>0, <1>1, <3>1, <4>1, TimesAssumption
    <3>3. ASSUME NEW i \in Instances, NEW w \in DOMAIN l1'[i], w < v
          PROVE  quiet'[v] <= LoadTime + l1'[i][w]
      <4>1. w \in DOMAIN l1[i] /\ l1'[i][w] = l1[i][w] + 1 /\ quiet[v] <= LoadTime + l1[i][w]
        BY <1>2, <2>3, <3>3, TickAges DEF QuietInv
      <4> QED
        BY <1>0, <1>1, <3>1, <4>1, TimesAssumption
    <3> QED
      BY <2>1, <2>3, <3>2, <3>3
  <2> QED
    BY <2>2, <2>3
<1>3. CASE ~Tick
  <2>1. quiet'[v] = quiet[v] /\ (Over(v) => Over(v)')
    BY <1>3, OverStep
  <2>2. CASE ~Over(v)
    BY <1>0, <2>1, <2>2, TimesAssumption DEF QuietInv
  <2>3. CASE Over(v)
    <3>1. l2 >= v /\ \A r \in Readers : step[r] \in {"keep", "share"} => got[r] >= v
      BY <2>3 DEF SharedIsCurrent
    <3>2. ASSUME NEW r \in Readers, step'[r] = "copy", got'[r] < v
          PROVE  quiet'[v] <= since'[r]
      <4>1. step[r] = "copy" /\ got'[r] = got[r] /\ since'[r] = since[r]
        BY <1>0, <1>1, <1>3, <3>1, <3>2, ReaderStep
      <4> QED
        BY <2>1, <2>3, <3>2, <4>1 DEF QuietInv
    <3>3. ASSUME NEW i \in Instances, NEW w \in DOMAIN l1'[i], w < v
          PROVE  quiet'[v] <= LoadTime + l1'[i][w]
      <4>1. CASE w \in DOMAIN l1[i] /\ l1'[i][w] = l1[i][w]
        BY <2>1, <2>3, <3>3, <4>1 DEF QuietInv
      <4>2. ASSUME NEW r \in Readers, step[r] \in {"keep", "copy"}, got[r] = w, l1'[i][w] = 0
            PROVE  quiet'[v] <= LoadTime + l1'[i][w]
        <5>1. step[r] = "copy"
          BY <1>0, <1>1, <3>1, <3>3, <4>2
        <5>2. quiet[v] <= since[r]
          BY <2>3, <3>3, <4>2, <5>1 DEF QuietInv
        <5> QED
          BY <1>0, <1>1, <2>1, <4>2, <5>2, TimesAssumption
      <4> QED
        BY <1>3, <4>1, <4>2, LocalStep
    <3> QED
      BY <2>1, <2>3, <3>2, <3>3
  <2> QED
    BY <2>2, <2>3
<1> QED
  BY <1>2, <1>3

-----------------------------------------------------------------------------
(* The theorems. *)

\* The invariant holds in every reachable state.
THEOREM Invariance == Spec => []CacheInv
<1>1. CacheInv /\ [Next]_vars => CacheInv'
  BY StepTypeOK, NextDelayInv, NextSecondPassInv, NextSharedIsCurrent, NextQuietInv DEF CacheInv
<1>2. QED
  BY <1>1, InitInv, PTL DEF Spec

\* Every state has its type.
THEOREM TypeCorrect == Spec => []TypeOK
<1>1. CacheInv => TypeOK
  BY DEF CacheInv
<1>2. QED
  BY <1>1, Invariance, PTL

\* Once the second pass of a change is over, Redis serves no state from before
\* it (processEvent, ScheduleSecondPass), whatever crashed, failed or got lost.
THEOREM Shared == Spec => []SharedIsCurrent
<1>1. CacheInv => SharedIsCurrent
  BY DEF CacheInv
<1>2. QED
  BY <1>1, Invariance, PTL

\* A reader's time and L1's lifetime later no process does either, though it
\* may have missed every message.
THEOREM Local == Spec => []LocalCatchesUp
<1>1. CacheInv => LocalCatchesUp
  <2> SUFFICES ASSUME CacheInv, NEW v \in Changes, Over(v), quiet[v] > Settled,
                      NEW i \in Instances, NEW w \in DOMAIN l1[i], w < v
               PROVE  FALSE
    BY StatesAssumption DEF LocalCatchesUp, CacheInv, TypeOK, Versions, Changes
  <2>1. quiet[v] <= LoadTime + l1[i][w]
    BY DEF CacheInv, QuietInv
  <2>2. l1[i][w] \in 0..LocalTTL /\ quiet[v] \in 0..(Settled + 1)
    BY DEF CacheInv, TypeOK
  <2> QED
    BY <2>1, <2>2, TimesAssumption DEF Settled
<1>2. QED
  BY <1>1, Invariance, PTL
=============================================================================
