-------------------------- MODULE Idempotency_proofs ---------------------------
(***************************************************************************)
(* Proofs about the two users of the table idempotency_records: write      *)
(* requests with a key (IdempotentRequest) and the lock of the system's    *)
(* operations (SystemOperationLock).  Each has its own specification, Spec *)
(* and LockSpec, over a row of the table.                                  *)
(***************************************************************************)
EXTENDS IdempotentRequest, SystemOperationLock, TLAPS

(***************************************************************************)
(* Proofs about IdempotentRequest, for any number of requests and payloads *)
(* and any durations its assumptions allow.                                *)
(*                                                                         *)
(* RequestInv has a lemma for each of its parts.  What protects a running  *)
(* request is that its record does not expire before the request must be   *)
(* done; what protects a finished one is that a record with the effect's   *)
(* retention was read unexpired by everybody who could still repeat it,    *)
(* unless it was reclaimed after it had changed.                           *)
(***************************************************************************)

USE PrintsAssumption, LeaseAssumption, BackoffAssumption

(* The row of the table. *)

\* The statements on the row keep its type.
LEMMA RowTypes ==
  ASSUME rec \in Rows, clock \in Nat, NEW p \in Prints \cup {NoPrint},
         NEW now \in Nat, NEW n \in Nat, NEW u \in Nat, NEW e \in Nat
  PROVE  /\ CreateProcessing(p, now) => rec' \in Rows
         /\ TryReclaim(now) => rec' \in Rows
         /\ ExtendProcessingLock => rec' \in Rows
         /\ MarkSucceeded(n, e) => rec' \in Rows
         /\ MarkFailedRetryable(n, u, e) => rec' \in Rows
         /\ DeleteExpired => rec' \in Rows
<1>1. clock + Lease \in Nat /\ clock + Retention \in Nat
      /\ now + Lease \in Nat /\ now + Retention \in Nat
  OBVIOUS
<1>2. CreateProcessing(p, now) => rec' \in Rows
  BY <1>1 DEF CreateProcessing, Rows, RowStatus
<1>3. TryReclaim(now) => rec' \in Rows
  BY <1>1 DEF TryReclaim, Rows, RowStatus
<1>4. ExtendProcessingLock => rec' \in Rows
  BY <1>1 DEF ExtendProcessingLock, Rows, RowStatus
<1>5. MarkSucceeded(n, e) => rec' \in Rows
  <2>1. CASE IsRow(n)
    <3>1. \A z \in Nat : [rec EXCEPT !.status = "succeeded", !.until = z, !.expires = e]
                           \in Rows
      BY DEF Rows, RowStatus
    <3>2. [rec EXCEPT !.status = "succeeded", !.until = 0, !.expires = e] \in Rows
      BY <3>1
    <3> QED
      BY <2>1, <3>2 DEF MarkSucceeded
  <2>2. CASE ~IsRow(n)
    BY <2>2 DEF MarkSucceeded
  <2> QED
    BY <2>1, <2>2
<1>6. MarkFailedRetryable(n, u, e) => rec' \in Rows
  <2>1. CASE IsRow(n)
    BY <2>1 DEF MarkFailedRetryable, Rows, RowStatus
  <2>2. CASE ~IsRow(n)
    BY <2>2 DEF MarkFailedRetryable
  <2> QED
    BY <2>1, <2>2
<1>7. DeleteExpired => rec' \in Rows
  BY DEF DeleteExpired, NoRow, Rows, RowStatus
<1> QED
  BY <1>2, <1>3, <1>4, <1>5, <1>6, <1>7

\* What each statement writes, and what it leaves alone.
LEMMA RowWrites ==
  ASSUME rec \in Rows, NEW p, NEW now, NEW n, NEW u, NEW e
  PROVE  /\ CreateProcessing(p, now) =>
              /\ rec.status = "none" /\ rec'.status = "processing"
              /\ rec'.id = rec.id + 1 /\ rec'.print = p
              /\ rec'.until = now + Lease /\ rec'.expires = now + Retention
         /\ TryReclaim(now) =>
              /\ rec'.status = "processing" /\ rec'.id = rec.id /\ rec'.print = rec.print
              /\ rec'.until = now + Lease /\ rec'.expires = now + Retention
         /\ MarkSucceeded(n, e) =>
              \/ ~IsRow(n) /\ UNCHANGED rec
              \/ /\ IsRow(n) /\ rec'.status = "succeeded"
                 /\ rec'.id = rec.id /\ rec'.print = rec.print /\ rec'.expires = e
         /\ MarkFailedRetryable(n, u, e) =>
              \/ ~IsRow(n) /\ UNCHANGED rec
              \/ /\ IsRow(n) /\ rec'.status = "failed_retryable"
                 /\ rec'.id = rec.id /\ rec'.print = rec.print /\ rec'.expires = e
         /\ DeleteExpired =>
              rec.expires <= clock /\ rec'.status = "none" /\ rec'.id = rec.id
<1>1. CreateProcessing(p, now) =>
        /\ rec.status = "none" /\ rec'.status = "processing"
        /\ rec'.id = rec.id + 1 /\ rec'.print = p
        /\ rec'.until = now + Lease /\ rec'.expires = now + Retention
  BY DEF CreateProcessing
<1>2. TryReclaim(now) =>
        /\ rec'.status = "processing" /\ rec'.id = rec.id /\ rec'.print = rec.print
        /\ rec'.until = now + Lease /\ rec'.expires = now + Retention
  BY DEF TryReclaim, Rows
<1>3. MarkSucceeded(n, e) =>
        \/ ~IsRow(n) /\ UNCHANGED rec
        \/ /\ IsRow(n) /\ rec'.status = "succeeded"
           /\ rec'.id = rec.id /\ rec'.print = rec.print /\ rec'.expires = e
  BY DEF MarkSucceeded, Rows
<1>4. MarkFailedRetryable(n, u, e) =>
        \/ ~IsRow(n) /\ UNCHANGED rec
        \/ /\ IsRow(n) /\ rec'.status = "failed_retryable"
           /\ rec'.id = rec.id /\ rec'.print = rec.print /\ rec'.expires = e
  BY DEF MarkFailedRetryable, Rows
<1>5. DeleteExpired => rec.expires <= clock /\ rec'.status = "none" /\ rec'.id = rec.id
  BY DEF DeleteExpired, NoRow
<1> QED
  BY <1>1, <1>2, <1>3, <1>4, <1>5

-----------------------------------------------------------------------------
(* Types. *)

LEMMA InitRequestInv == Init => RequestInv
<1> SUFFICES ASSUME Init PROVE RequestInv
  OBVIOUS
<1> USE DEF Claiming, Executing
<1>1. TypeOK
  BY DEF Init, TypeOK, NoRow, Rows, RowStatus, Step
<1>2. LocalInv
  BY DEF Init, LocalInv, Knows, NoRow, IsRow
<1>3. OwnerInv /\ OneExecution
  BY DEF Init, OwnerInv, OneExecution, Owners
<1>4. WindowInv /\ EffectInv
  BY DEF Init, WindowInv, EffectInv, SuccessIsReal, NoRow
<1> QED
  BY <1>1, <1>2, <1>3, <1>4 DEF RequestInv

-----------------------------------------------------------------------------

RequestTypeOK ==
  /\ pc \in [Workers -> Step]
  /\ at \in [Workers -> Nat]
  /\ pay \in [Workers -> Prints \cup {NoPrint}]
  /\ copy \in [Workers -> Rows]

\* A request that has been answered is well typed,
LEMMA StopType == ASSUME TypeOK, NEW w \in Workers, Stop(w) PROVE RequestTypeOK'
<1>1. NoRow(0) \in Rows
  BY DEF NoRow, Rows, RowStatus
<1> QED
  BY <1>1 DEF TypeOK, RequestTypeOK, Stop, Step

\* also one that is told of its success,
LEMMA AnswerType ==
  ASSUME TypeOK, NEW w \in Workers, pay[w] \in Prints, Answer(w)
  PROVE  RequestTypeOK' /\ told' \subseteq Prints
  BY StopType DEF TypeOK, Answer

\* and one that goes on.
LEMMA GotoType ==
  ASSUME TypeOK, NEW w \in Workers, NEW s \in Step, Goto(w, s), copy' \in [Workers -> Rows]
  PROVE  RequestTypeOK'
  BY DEF TypeOK, RequestTypeOK, Goto

\* The outcomes of reading the record.
LEMMA DecideCases ==
  ASSUME NEW w \in Workers, Decide(w)
  PROVE  \/ rec.status = "succeeded" /\ Answer(w)
         \/ /\ rec.status = "failed_retryable" /\ Goto(w, "retry")
            /\ copy' = [copy EXCEPT ![w] = rec] /\ UNCHANGED told
         \/ Refuse(w)
  BY DEF Decide

\* Every step keeps the types.
LEMMA NextTypeOK == ASSUME TypeOK, LocalInv, [Next]_vars PROVE TypeOK'
<1> USE DEF history
<1>0. /\ clock \in Nat /\ faults \in Nat /\ rec \in Rows /\ copy \in [Workers -> Rows]
      /\ told \subseteq Prints /\ effected \subseteq Prints
      /\ {"execute", "succeed", "fail", "create", "read", "reclaim", "reread", "retry"}
           \subseteq Step
  BY DEF TypeOK, Step, Claiming, Executing
<1>1. ASSUME NEW w \in Workers, pc[w] # "idle" PROVE pay[w] \in Prints
  BY <1>1 DEF LocalInv, Knows
<1>2. ASSUME NEW w \in Workers, Refuse(w) PROVE RequestTypeOK' /\ told' \subseteq Prints
  BY <1>0, <1>2, StopType DEF Refuse
<1>3. ASSUME NEW w \in Workers, pc[w] # "idle", Decide(w)
      PROVE  RequestTypeOK' /\ told' \subseteq Prints
  <2>1. CASE Answer(w)
    BY <1>1, <1>3, <2>1, AnswerType
  <2>2. CASE Goto(w, "retry") /\ copy' = [copy EXCEPT ![w] = rec] /\ UNCHANGED told
    BY <1>0, <2>2, GotoType
  <2>3. CASE Refuse(w)
    BY <1>2, <2>3
  <2> QED
    BY <1>3, <2>1, <2>2, <2>3, DecideCases
<1>4. ASSUME NEW w \in Workers, NEW p \in Prints, Submit(w, p) PROVE TypeOK'
  BY <1>0, <1>4 DEF TypeOK, Submit
<1>5. ASSUME NEW w \in Workers, InsertRecord(w) PROVE TypeOK'
  <2>1. rec' \in Rows
    BY <1>0, <1>5, RowTypes DEF InsertRecord, TypeOK
  <2>2. RequestTypeOK' /\ told' \subseteq Prints
    BY <1>0, <1>2, <1>5, <2>1, GotoType DEF InsertRecord
  <2>3. faults' \in Nat
    BY <1>0, <1>5 DEF InsertRecord, Fault
  <2> QED
    BY <1>5, <2>1, <2>2, <2>3 DEF InsertRecord, TypeOK, RequestTypeOK
<1>6. ASSUME NEW w \in Workers, RecordExists(w) PROVE TypeOK'
  BY <1>0, <1>6, GotoType DEF TypeOK, RecordExists, RequestTypeOK
<1>7. ASSUME NEW w \in Workers, ReadRecord(w) PROVE TypeOK'
  <2>1. RequestTypeOK' /\ told' \subseteq Prints
    BY <1>0, <1>2, <1>3, <1>7, GotoType DEF ReadRecord
  <2> QED
    BY <1>7, <2>1 DEF ReadRecord, TypeOK, RequestTypeOK
<1>8. ASSUME NEW w \in Workers, ReclaimRecord(w) PROVE TypeOK'
  <2>1. at[w] \in Nat
    BY DEF TypeOK
  <2>2. rec' \in Rows
    BY <1>0, <1>8, <2>1, RowTypes DEF ReclaimRecord
  <2>3. RequestTypeOK' /\ told' \subseteq Prints
    BY <1>0, <1>2, <1>8, GotoType DEF ReclaimRecord
  <2>4. overtaken' \in BOOLEAN
    BY <1>8 DEF ReclaimRecord, TypeOK
  <2>5. faults' \in Nat
    BY <1>0, <1>8 DEF ReclaimRecord, Fault
  <2> QED
    BY <1>8, <2>2, <2>3, <2>4, <2>5 DEF ReclaimRecord, TypeOK, RequestTypeOK
<1>9. ASSUME NEW w \in Workers, RereadRecord(w) PROVE TypeOK'
  <2>1. RequestTypeOK' /\ told' \subseteq Prints
    BY <1>2, <1>3, <1>9 DEF RereadRecord
  <2> QED
    BY <1>9, <2>1 DEF RereadRecord, TypeOK, RequestTypeOK
<1>10. ASSUME NEW w \in Workers, StoreFails(w) PROVE TypeOK'
  BY <1>0, <1>2, <1>10 DEF StoreFails, Fault, TypeOK, RequestTypeOK
<1>11. ASSUME NEW w \in Workers, Execute(w) PROVE TypeOK'
  <2>1. RequestTypeOK'
    BY <1>0, <1>11, GotoType DEF Execute
  <2>2. window' \in Nat
    <3>1. at[w] + Retention \in Nat
      BY DEF TypeOK
    <3> QED
      BY <1>11, <3>1 DEF Execute, TypeOK
  <2>3. effected' \subseteq Prints
    BY <1>0, <1>1, <1>11 DEF Execute
  <2> QED
    BY <1>11, <2>1, <2>2, <2>3 DEF Execute, TypeOK, RequestTypeOK
<1>12. ASSUME NEW w \in Workers, RecordSuccess(w) PROVE TypeOK'
  <2>1. copy[w].id \in Nat /\ at[w] + Retention \in Nat
    <3>1. copy[w] \in Rows /\ at[w] \in Nat
      BY DEF TypeOK
    <3> QED
      BY <3>1 DEF Rows
  <2>2. rec' \in Rows
    BY <1>0, <1>12, <2>1, RowTypes DEF RecordSuccess
  <2>3. RequestTypeOK' /\ told' \subseteq Prints
    BY <1>1, <1>2, <1>12, AnswerType DEF RecordSuccess
  <2>4. faults' \in Nat
    BY <1>0, <1>12 DEF RecordSuccess, Fault
  <2> QED
    BY <1>12, <2>2, <2>3, <2>4 DEF RecordSuccess, TypeOK, RequestTypeOK
<1>13. ASSUME NEW w \in Workers, RecordFailure(w) PROVE TypeOK'
  <2>1. copy[w].id \in Nat /\ at[w] + Retention \in Nat /\ clock + Backoff \in Nat
    <3>1. copy[w] \in Rows /\ at[w] \in Nat
      BY DEF TypeOK
    <3> QED
      BY <1>0, <3>1 DEF Rows
  <2>2. rec' \in Rows
    BY <1>0, <1>13, <2>1, RowTypes DEF RecordFailure
  <2>3. RequestTypeOK' /\ told' \subseteq Prints
    BY <1>2, <1>13 DEF RecordFailure
  <2>4. faults' \in Nat
    BY <1>0, <1>13 DEF RecordFailure, Fault
  <2> QED
    BY <1>13, <2>2, <2>3, <2>4 DEF RecordFailure, TypeOK, RequestTypeOK
<1>14. ASSUME NEW w \in Workers, Crash(w) PROVE TypeOK'
  BY <1>0, <1>2, <1>14 DEF Crash, Fault, TypeOK, RequestTypeOK
<1>15. CASE Cleanup
  <2>1. rec' \in Rows
    BY <1>0, <1>15, RowTypes DEF Cleanup
  <2> QED
    BY <1>15, <2>1 DEF Cleanup, TypeOK
<1>16. CASE Tick
  BY <1>16 DEF Tick, TypeOK
<1>17. CASE UNCHANGED vars
  BY <1>17 DEF TypeOK, vars
<1> QED
  BY <1>4, <1>5, <1>6, <1>7, <1>8, <1>9, <1>10, <1>11, <1>12, <1>13, <1>14, <1>15, <1>16,
     <1>17 DEF Next, Claim, Run

-----------------------------------------------------------------------------

\* Ids are never given out again, and a row keeps its fingerprint.
RowGoesOn ==
  /\ rec.id <= rec'.id
  /\ \A n \in Nat : n <= rec.id /\ IsRow(n)' => IsRow(n) /\ rec'.print = rec.print

\* Every statement on the row sees to that.
LEMMA StatementsGoOn ==
  ASSUME rec \in Rows, NEW p, NEW now, NEW n, NEW u, NEW e,
         \/ CreateProcessing(p, now) \/ (rec.status # "none" /\ TryReclaim(now))
         \/ MarkSucceeded(n, e) \/ MarkFailedRetryable(n, u, e)
         \/ DeleteExpired \/ UNCHANGED rec
  PROVE  RowGoesOn
<1>1. rec.id \in Nat
  BY DEF Rows
<1>2. CASE CreateProcessing(p, now)
  BY <1>1, <1>2, RowWrites DEF RowGoesOn, IsRow
<1>3. CASE rec.status # "none" /\ TryReclaim(now)
  BY <1>1, <1>3, RowWrites DEF RowGoesOn, IsRow
<1>4. CASE MarkSucceeded(n, e)
  <2>1. \/ UNCHANGED rec
        \/ /\ IsRow(n) /\ rec'.status = "succeeded"
           /\ rec'.id = rec.id /\ rec'.print = rec.print
    BY <1>4, RowWrites
  <2> QED
    BY <1>1, <2>1 DEF RowGoesOn, IsRow
<1>5. CASE MarkFailedRetryable(n, u, e)
  BY <1>1, <1>5, RowWrites DEF RowGoesOn, IsRow
<1>6. CASE DeleteExpired
  BY <1>1, <1>6, RowWrites DEF RowGoesOn, IsRow
<1>7. CASE UNCHANGED rec
  BY <1>1, <1>7 DEF RowGoesOn, IsRow
<1> QED
  BY <1>2, <1>3, <1>4, <1>5, <1>6, <1>7

\* What another request does to the row does not touch what one knows.
Same(v) == pc'[v] = pc[v] /\ at'[v] = at[v] /\ pay'[v] = pay[v] /\ copy'[v] = copy[v]

LEMMA OthersKnow ==
  ASSUME TypeOK, LocalInv, RowGoesOn, TypeOK', UNCHANGED clock, NEW w \in Workers,
         \A v \in Workers \ {w} : Same(v), Knows(w)'
  PROVE  LocalInv'
<1> SUFFICES ASSUME NEW v \in Workers \ {w} PROVE Knows(v)'
  BY DEF LocalInv
<1>1. Knows(v) /\ Same(v)
  BY DEF LocalInv
<1>2. copy[v].id \in Nat /\ rec.id \in Nat /\ rec'.id \in Nat
  <2>1. copy[v] \in Rows /\ rec \in Rows /\ rec' \in Rows
    BY DEF TypeOK
  <2> QED
    BY <2>1 DEF Rows
<1>3. copy[v].id <= rec.id /\ rec.id <= rec'.id
  BY <1>1 DEF Knows, RowGoesOn
<1>4. copy'[v].id <= rec'.id
  BY <1>1, <1>2, <1>3 DEF Same
<1>5. IsRow(copy[v].id)' => IsRow(copy[v].id) /\ rec'.print = rec.print
  BY <1>1, <1>2, <1>3 DEF RowGoesOn, Same, IsRow
<1> QED
  BY <1>1, <1>4, <1>5 DEF Knows, Same

\* Who is affected by the end of a request,
LEMMA StopSame ==
  ASSUME TypeOK, NEW w \in Workers, Stop(w)
  PROVE  (\A v \in Workers \ {w} : Same(v)) /\ pc' = [pc EXCEPT ![w] = "idle"]
  BY DEF TypeOK, Stop, Same

\* and by its next step.
LEMMA GotoSame ==
  ASSUME TypeOK, NEW w \in Workers, NEW s \in Step, Goto(w, s), NEW c \in Rows,
         copy' = [copy EXCEPT ![w] = c]
  PROVE  /\ pc' = [pc EXCEPT ![w] = s] /\ pc'[w] = s /\ copy'[w] = c
         /\ at'[w] = at[w] /\ pay'[w] = pay[w]
         /\ \A v \in Workers \ {w} : Same(v)
  BY DEF TypeOK, Goto, Same

\* A request that is over knows nothing that could be wrong.
LEMMA StopLocal ==
  ASSUME TypeOK, LocalInv, TypeOK', UNCHANGED clock, RowGoesOn, NEW w \in Workers, Stop(w)
  PROVE  LocalInv'
<1>1. pc'[w] = "idle" /\ at'[w] = 0 /\ copy'[w] = NoRow(0)
  BY DEF TypeOK, Stop
<1>2. clock' \in Nat /\ rec'.id \in Nat
  BY DEF TypeOK, Rows
<1>3. Knows(w)'
  BY <1>1, <1>2 DEF Knows, NoRow, Claiming, Executing
<1> QED
  BY <1>3, StopSame, OthersKnow

\* The row goes on in every step.
LEMMA NextRow == ASSUME TypeOK, [Next]_vars PROVE RowGoesOn
<1>0. rec \in Rows
  BY DEF TypeOK
<1>1. CASE UNCHANGED rec
  BY <1>0, <1>1, StatementsGoOn
<1>2. ASSUME NEW w \in Workers, InsertRecord(w) PROVE RowGoesOn
  <2>1. CreateProcessing(pay[w], at[w])
    BY <1>2 DEF InsertRecord
  <2>2. rec'.id = rec.id + 1 /\ rec.id \in Nat
    BY <1>0, <2>1 DEF CreateProcessing, Rows
  <2> QED
    BY <2>2 DEF RowGoesOn, IsRow
<1>3. ASSUME NEW w \in Workers, ReclaimRecord(w) PROVE RowGoesOn
  BY <1>0, <1>1, <1>3, StatementsGoOn DEF ReclaimRecord, Reclaimable, IsRow
<1>4. ASSUME NEW w \in Workers, RecordSuccess(w) PROVE RowGoesOn
  BY <1>0, <1>1, <1>4, StatementsGoOn DEF RecordSuccess
<1>5. ASSUME NEW w \in Workers, RecordFailure(w) PROVE RowGoesOn
  BY <1>0, <1>1, <1>5, StatementsGoOn DEF RecordFailure
<1>6. CASE Cleanup
  BY <1>0, <1>6, StatementsGoOn DEF Cleanup
<1> QED
  BY <1>1, <1>2, <1>3, <1>4, <1>5, <1>6
     DEF Next, Claim, Run, Submit, RecordExists, ReadRecord, RereadRecord, StoreFails,
         Execute, Crash, Tick, vars

\* What a request that reads the record learns,
LEMMA DecideLocal ==
  ASSUME TypeOK, LocalInv, TypeOK', UNCHANGED <<clock, rec>>, RowGoesOn, NEW w \in Workers,
         pc[w] \in Claiming, SamePayload(w), Decide(w)
  PROVE  LocalInv'
<1>1. CASE Stop(w)
  BY <1>1, StopLocal
<1>2. CASE /\ rec.status = "failed_retryable" /\ Goto(w, "retry")
           /\ copy' = [copy EXCEPT ![w] = rec]
  <2>1. rec \in Rows /\ "retry" \in Step /\ pc[w] # "idle"
    BY DEF TypeOK, Step, Claiming
  <2>2. /\ pc'[w] = "retry" /\ copy'[w] = rec /\ at'[w] = at[w] /\ pay'[w] = pay[w]
        /\ \A v \in Workers \ {w} : Same(v)
    BY <1>2, <2>1, GotoSame
  <2>3. rec.id \in Nat
    BY <2>1 DEF Rows
  <2>4. Knows(w)'
    BY <1>2, <2>1, <2>2, <2>3 DEF LocalInv, Knows, SamePayload, Claiming, Executing
  <2> QED
    BY <2>2, <2>4, OthersKnow
<1> QED
  BY <1>1, <1>2, DecideCases DEF Answer, Refuse

\* and what every step makes of what the requests know.
LEMMA NextLocalInv == ASSUME TypeOK, LocalInv, TypeOK', [Next]_vars PROVE LocalInv'
<1> USE DEF history
<1>0. RowGoesOn
  BY NextRow
<1>1. /\ rec \in Rows /\ rec' \in Rows /\ clock \in Nat
      /\ \A w \in Workers : at[w] \in Nat /\ copy[w] \in Rows /\ copy[w].id \in Nat
  BY DEF TypeOK, Rows
<1>2. rec.id \in Nat /\ rec'.id \in Nat
  BY <1>1 DEF Rows
<1>3. {"execute", "succeed", "fail", "create", "read", "reclaim", "reread", "retry"}
        \subseteq Step
  BY DEF Step, Claiming, Executing
<1>4. ASSUME NEW w \in Workers, NEW p \in Prints, Submit(w, p) PROVE LocalInv'
  <2>1. /\ pc'[w] = "create" /\ at'[w] = clock /\ pay'[w] = p /\ copy'[w] = copy[w]
        /\ \A v \in Workers \ {w} : Same(v)
    BY <1>4 DEF Submit, Same, TypeOK
  <2>2. Knows(w)'
    BY <1>1, <1>4, <2>1 DEF LocalInv, Knows, Submit, Claiming, Executing
  <2> QED
    BY <1>0, <1>4, <2>1, <2>2, OthersKnow DEF Submit
<1>5. ASSUME NEW w \in Workers, InsertRecord(w) PROVE LocalInv'
  <2>1. CASE Stop(w)
    BY <1>0, <1>5, <2>1, StopLocal DEF InsertRecord
  <2>2. CASE Goto(w, "execute") /\ copy' = [copy EXCEPT ![w] = rec']
    <3>1. /\ pc'[w] = "execute" /\ copy'[w] = rec' /\ at'[w] = at[w] /\ pay'[w] = pay[w]
          /\ \A v \in Workers \ {w} : Same(v)
      BY <1>1, <1>3, <2>2, GotoSame
    <3>2. rec'.print = pay[w] /\ pc[w] = "create" /\ UNCHANGED clock
      BY <1>5 DEF InsertRecord, CreateProcessing
    <3>3. Knows(w)'
      BY <1>1, <1>2, <3>1, <3>2 DEF LocalInv, Knows, Claiming, Executing
    <3> QED
      BY <1>0, <3>1, <3>2, <3>3, OthersKnow
  <2> QED
    BY <1>5, <2>1, <2>2 DEF InsertRecord, Refuse
<1>6. ASSUME NEW w \in Workers, RecordExists(w) PROVE LocalInv'
  <2>1. /\ pc'[w] = "read" /\ at'[w] = at[w] /\ pay'[w] = pay[w] /\ copy'[w] = copy[w]
        /\ \A v \in Workers \ {w} : Same(v)
    BY <1>6 DEF RecordExists, Goto, Same, TypeOK
  <2>2. Knows(w)'
    BY <1>1, <1>6, <2>1 DEF LocalInv, Knows, RecordExists, Claiming, Executing
  <2> QED
    BY <1>0, <1>6, <2>1, <2>2, OthersKnow DEF RecordExists
<1>7. ASSUME NEW w \in Workers, ReadRecord(w) PROVE LocalInv'
  <2>1. CASE Stop(w)
    BY <1>0, <1>7, <2>1, StopLocal DEF ReadRecord
  <2>2. CASE SamePayload(w) /\ rec.expires <= at[w] /\ ~Stop(w)
    <3>1. /\ pc'[w] = "reclaim" /\ copy'[w] = rec /\ at'[w] = at[w] /\ pay'[w] = pay[w]
          /\ \A v \in Workers \ {w} : Same(v)
      BY <1>1, <1>3, <1>7, <2>2, GotoSame DEF ReadRecord, Refuse
    <3>2. pc[w] = "read" /\ UNCHANGED <<clock, rec>>
      BY <1>7 DEF ReadRecord
    <3>3. Knows(w)'
      BY <1>1, <1>2, <2>2, <3>1, <3>2
         DEF LocalInv, Knows, SamePayload, Claiming, Executing
    <3> QED
      BY <1>0, <3>1, <3>2, <3>3, OthersKnow
  <2>3. CASE SamePayload(w) /\ ~(rec.expires <= at[w])
    BY <1>0, <1>7, <2>3, DecideLocal DEF ReadRecord, Claiming
  <2> QED
    BY <1>7, <2>1, <2>2, <2>3 DEF ReadRecord, Refuse
<1>8. ASSUME NEW w \in Workers, ReclaimRecord(w) PROVE LocalInv'
  <2>1. CASE Stop(w)
    BY <1>0, <1>8, <2>1, StopLocal DEF ReclaimRecord
  <2>2. ASSUME NEW s \in {"execute", "reread"}, Goto(w, s), UNCHANGED copy,
               s = "execute" => IsRow(copy[w].id) /\ TryReclaim(at[w])
        PROVE  LocalInv'
    <3>1. copy' = [copy EXCEPT ![w] = copy[w]]
      BY <2>2 DEF TypeOK
    <3>2. /\ pc'[w] = s /\ copy'[w] = copy[w] /\ at'[w] = at[w] /\ pay'[w] = pay[w]
          /\ \A v \in Workers \ {w} : Same(v)
      BY <1>1, <1>3, <2>2, <3>1, GotoSame
    <3>3. s = "execute" => rec'.print = pay[w]
      BY <1>1, <1>8, <2>2, RowWrites DEF LocalInv, Knows, ReclaimRecord
    <3>4. rec'.id >= rec.id /\ UNCHANGED clock
      BY <1>0, <1>8 DEF RowGoesOn, ReclaimRecord
    <3>5. Knows(w)'
      BY <1>1, <1>2, <1>8, <2>2, <3>2, <3>3, <3>4
         DEF LocalInv, Knows, ReclaimRecord, Claiming, Executing
    <3> QED
      BY <1>0, <3>2, <3>4, <3>5, OthersKnow
  <2> QED
    BY <1>8, <2>1, <2>2 DEF ReclaimRecord, Reclaimable, Refuse
<1>9. ASSUME NEW w \in Workers, RereadRecord(w) PROVE LocalInv'
  <2>1. CASE SamePayload(w)
    BY <1>0, <1>9, <2>1, DecideLocal DEF RereadRecord, Claiming
  <2>2. CASE ~SamePayload(w)
    BY <1>0, <1>9, <2>2, StopLocal DEF RereadRecord, Refuse
  <2> QED
    BY <2>1, <2>2
<1>10. ASSUME NEW w \in Workers, StoreFails(w) PROVE LocalInv'
  BY <1>0, <1>10, StopLocal DEF StoreFails, Refuse
<1>11. ASSUME NEW w \in Workers, Execute(w) PROVE LocalInv'
  <2>1. PICK s \in {"succeed", "fail"} : Goto(w, s)
    BY <1>11 DEF Execute
  <2>2. copy' = [copy EXCEPT ![w] = copy[w]]
    BY <1>11 DEF Execute, TypeOK
  <2>3. /\ pc'[w] = s /\ copy'[w] = copy[w] /\ at'[w] = at[w] /\ pay'[w] = pay[w]
        /\ \A v \in Workers \ {w} : Same(v)
    BY <1>1, <1>3, <2>1, <2>2, GotoSame
  <2>4. Knows(w)'
    BY <1>1, <1>11, <2>1, <2>3 DEF LocalInv, Knows, Execute, Claiming, Executing, IsRow
  <2> QED
    BY <1>0, <1>11, <2>3, <2>4, OthersKnow DEF Execute
<1>12. ASSUME NEW w \in Workers, RecordSuccess(w) PROVE LocalInv'
  BY <1>0, <1>12, StopLocal DEF RecordSuccess, Refuse, Answer
<1>13. ASSUME NEW w \in Workers, RecordFailure(w) PROVE LocalInv'
  BY <1>0, <1>13, StopLocal DEF RecordFailure, Refuse
<1>14. ASSUME NEW w \in Workers, Crash(w) PROVE LocalInv'
  BY <1>0, <1>14, StopLocal DEF Crash, Refuse
<1>15. ASSUME UNCHANGED <<clock, pc, at, pay, copy>> PROVE LocalInv'
  <2> SUFFICES ASSUME NEW w \in Workers PROVE Knows(w)'
    BY DEF LocalInv
  <2>1. Knows(w)
    BY DEF LocalInv
  <2>2. copy[w].id <= rec.id /\ rec.id <= rec'.id
    BY <1>0, <2>1 DEF Knows, RowGoesOn
  <2>3. IsRow(copy[w].id)' => IsRow(copy[w].id) /\ rec'.print = rec.print
    BY <1>0, <1>1, <1>15, <2>2 DEF RowGoesOn, IsRow
  <2> QED
    BY <1>1, <1>2, <1>15, <2>1, <2>2, <2>3 DEF Knows
<1>16. CASE Cleanup
  BY <1>15, <1>16 DEF Cleanup
<1>17. CASE Tick
  <2> SUFFICES ASSUME NEW w \in Workers PROVE Knows(w)'
    BY DEF LocalInv
  <2>1. Knows(w) /\ InTime(w) /\ clock' = clock + 1
    BY <1>17 DEF LocalInv, Tick
  <2>2. UNCHANGED <<pc, at, pay, copy, rec>>
    BY <1>17 DEF Tick
  <2>3. at[w] <= clock' /\ (pc[w] \in Claiming => clock' < at[w] + Lease)
        /\ (pc[w] \in Executing => clock' < at[w] + Retention)
    BY <1>1, <2>1 DEF Knows, InTime
  <2> QED
    BY <2>1, <2>2, <2>3 DEF Knows, IsRow
<1>18. CASE UNCHANGED vars
  BY <1>15, <1>18 DEF vars
<1> QED
  BY <1>4, <1>5, <1>6, <1>7, <1>8, <1>9, <1>10, <1>11, <1>12, <1>13, <1>14, <1>16, <1>17,
     <1>18 DEF Next, Claim, Run

-----------------------------------------------------------------------------

\* While a request owns its record nobody can insert, reclaim or remove one,
\* nor find it expired.
LEMMA OwnerIsSafe ==
  ASSUME TypeOK, LocalInv, OwnerInv, NEW w \in Owners
  PROVE  /\ rec.status = "processing" /\ rec.id = copy[w].id /\ IsRow(copy[w].id)
         /\ ~DeleteExpired
         /\ \A v \in Workers : ~(rec.expires <= at[v])
         /\ \A v \in Workers : pc[v] \in {"reclaim", "retry"} =>
              ~Reclaimable(copy[v].id, copy[v].status, at[v])
<1>1. w \in Workers /\ pc[w] \in Executing
  BY DEF Owners
<1>2. /\ rec.status = "processing" /\ rec.id = copy[w].id
      /\ rec.expires >= at[w] + Retention
      /\ \A v \in Workers : pc[v] = "reclaim" => at[v] < rec.until
  BY DEF OwnerInv
<1>3. clock \in Nat /\ rec.until \in Nat /\ rec.expires \in Nat /\ at \in [Workers -> Nat]
  BY DEF TypeOK, Rows
<1>4. clock < at[w] + Retention /\ \A v \in Workers : at[v] <= clock
  BY <1>1 DEF LocalInv, Knows
<1>5. rec.expires > clock
  BY <1>1, <1>2, <1>3, <1>4
<1>6. \A v \in Workers : ~(rec.expires <= at[v])
  BY <1>3, <1>4, <1>5
<1>7. ASSUME NEW v \in Workers, pc[v] = "reclaim" PROVE ~(rec.until <= at[v])
  BY <1>2, <1>3, <1>7
<1>8. ASSUME NEW v \in Workers, pc[v] = "retry" PROVE copy[v].status # rec.status
  BY <1>2, <1>8 DEF LocalInv, Knows
<1> QED
  BY <1>2, <1>3, <1>5, <1>6, <1>7, <1>8 DEF Reclaimable, DeleteExpired, IsRow

Owned == OwnerInv /\ OneExecution

\* Steps that leave the row alone and bring no owner and no reclaimer.
LEMMA KeepsOwned ==
  ASSUME Owned, UNCHANGED rec, NEW w \in Workers, \A v \in Workers \ {w} : Same(v),
         pc'[w] \in Executing => pc[w] \in Executing /\ at'[w] = at[w] /\ copy'[w] = copy[w],
         pc'[w] = "reclaim" => Owners = {}
  PROVE  Owned'
<1>1. Owners' \subseteq Owners
  BY DEF Owners, Same
<1>2. OneExecution'
  BY <1>1 DEF Owned, OneExecution
<1>3. ASSUME NEW v \in Owners'
      PROVE  /\ rec'.status = "processing" /\ rec'.id = copy'[v].id
             /\ rec'.expires >= at'[v] + Retention
  <2>1. v \in Owners
    BY <1>1
  <2>2. copy'[v] = copy[v] /\ at'[v] = at[v]
    BY <1>3 DEF Owners, Same
  <2> QED
    BY <2>1, <2>2 DEF Owned, OwnerInv
<1>4. ASSUME NEW u \in Owners', NEW v \in Workers, pc'[v] = "reclaim" PROVE at'[v] < rec'.until
  <2>1. u \in Owners
    BY <1>1
  <2>2. v # w
    BY <1>4, <2>1
  <2>3. at'[v] = at[v] /\ pc[v] = "reclaim"
    BY <1>4, <2>2 DEF Same
  <2> QED
    BY <2>1, <2>3 DEF Owned, OwnerInv
<1> QED
  BY <1>2, <1>3, <1>4 DEF Owned, OwnerInv

\* With nobody executing there is nothing to keep.
LEMMA NobodyOwns == ASSUME Owners' = {} PROVE Owned'
  BY DEF Owned, OwnerInv, OneExecution

\* A request that claims its record when nobody executes becomes its owner.
LEMMA ClaimOwns ==
  ASSUME TypeOK, LocalInv, Owners = {}, NEW w \in Workers, pc[w] \in Claiming,
         \A v \in Workers \ {w} : Same(v), pc'[w] = "execute", at'[w] = at[w],
         rec'.status = "processing", rec'.id = copy'[w].id,
         rec'.until = at[w] + Lease, rec'.expires = at[w] + Retention
  PROVE  Owned'
<1>1. Owners' = {w}
  BY DEF Owners, Same, Executing
<1>2. /\ clock \in Nat /\ at \in [Workers -> Nat]
  BY DEF TypeOK
<1>3. clock < at[w] + Lease /\ \A v \in Workers : at[v] <= clock
  BY DEF LocalInv, Knows
<1>4. ASSUME NEW v \in Workers, pc'[v] = "reclaim" PROVE at'[v] < rec'.until
  <2>1. v # w
    BY <1>4
  <2>2. at'[v] = at[v]
    BY <2>1 DEF Same
  <2> QED
    BY <1>2, <1>3, <2>2
<1>5. rec'.expires >= at'[w] + Retention
  BY <1>2
<1> QED
  BY <1>1, <1>4, <1>5 DEF Owned, OwnerInv, OneExecution

\* Every step keeps the owner's record for its owner.
LEMMA NextOwned == ASSUME RequestInv, TypeOK', LocalInv', [Next]_vars PROVE Owned'
<1> USE DEF history
<1>0. TypeOK /\ LocalInv /\ OwnerInv /\ OneExecution /\ Owned
  BY DEF RequestInv, Owned
<1>1. /\ rec \in Rows /\ \A w \in Workers : copy[w] \in Rows
      /\ {"execute", "succeed", "fail", "create", "read", "reclaim", "reread", "retry"}
           \subseteq Step
  BY <1>0 DEF TypeOK, Step, Claiming, Executing
<1>steps. {"read", "reclaim", "reread", "retry"} \subseteq Step \ Executing
  BY DEF Step, Claiming, Executing
<1>2. \A w \in Owners :
        /\ rec.status = "processing" /\ rec.id = copy[w].id /\ IsRow(copy[w].id)
        /\ ~DeleteExpired
        /\ \A v \in Workers : ~(rec.expires <= at[v])
        /\ \A v \in Workers : pc[v] \in {"reclaim", "retry"} =>
             ~Reclaimable(copy[v].id, copy[v].status, at[v])
  BY <1>0, OwnerIsSafe
<1>3. ASSUME NEW w \in Workers, Stop(w), UNCHANGED rec PROVE Owned'
  <2>1. pc'[w] = "idle" /\ \A v \in Workers \ {w} : Same(v)
    BY <1>0, <1>3, StopSame DEF TypeOK
  <2> QED
    BY <1>0, <1>3, <2>1, KeepsOwned DEF Executing
<1>4. ASSUME NEW w \in Workers, Stop(w), Owners \subseteq {w} PROVE Owned'
  <2>1. pc'[w] = "idle" /\ \A v \in Workers \ {w} : Same(v)
    BY <1>0, <1>4, StopSame DEF TypeOK
  <2>2. Owners' = {}
    BY <1>4, <2>1 DEF Owners, Same, Executing
  <2> QED
    BY <2>2, NobodyOwns
<1>5. ASSUME NEW w \in Workers, pc[w] \in Executing PROVE Owners \subseteq {w}
  BY <1>0, <1>5 DEF OneExecution, Owners
<1>6. ASSUME NEW w \in Workers, NEW s \in Step \ Executing, Goto(w, s), NEW c \in Rows,
             copy' = [copy EXCEPT ![w] = c], UNCHANGED rec, s = "reclaim" => Owners = {}
      PROVE  Owned'
  <2>1. pc'[w] = s /\ \A v \in Workers \ {w} : Same(v)
    BY <1>0, <1>6, GotoSame
  <2> QED
    BY <1>0, <1>6, <2>1, KeepsOwned
<1>7. ASSUME NEW w \in Workers, Decide(w), UNCHANGED rec PROVE Owned'
  <2>1. CASE Stop(w)
    BY <1>3, <1>7, <2>1
  <2>2. CASE Goto(w, "retry") /\ copy' = [copy EXCEPT ![w] = rec]
    BY <1>1, <1>steps, <1>6, <1>7, <2>2
  <2> QED
    BY <1>7, <2>1, <2>2, DecideCases DEF Refuse, Answer
<1>8. ASSUME NEW w \in Workers, NEW p \in Prints, Submit(w, p) PROVE Owned'
  <2>1. pc'[w] = "create" /\ \A v \in Workers \ {w} : Same(v)
    BY <1>0, <1>8 DEF Submit, Same, TypeOK
  <2> QED
    BY <1>0, <1>8, <2>1, KeepsOwned DEF Submit, Executing
<1>9. ASSUME NEW w \in Workers, InsertRecord(w) PROVE Owned'
  <2>1. Owners = {}
    BY <1>2, <1>9 DEF InsertRecord, CreateProcessing
  <2>2. CASE Stop(w)
    BY <1>4, <2>1, <2>2
  <2>3. CASE Goto(w, "execute") /\ copy' = [copy EXCEPT ![w] = rec']
    <3>1. /\ pc'[w] = "execute" /\ copy'[w] = rec' /\ at'[w] = at[w]
          /\ \A v \in Workers \ {w} : Same(v)
      BY <1>0, <1>1, <2>3, GotoSame DEF TypeOK
    <3>2. /\ rec'.status = "processing" /\ rec'.until = at[w] + Lease
          /\ rec'.expires = at[w] + Retention /\ pc[w] \in Claiming
      BY <1>9 DEF InsertRecord, CreateProcessing, Claiming
    <3> QED
      BY <1>0, <2>1, <3>1, <3>2, ClaimOwns
  <2> QED
    BY <1>9, <2>2, <2>3 DEF InsertRecord, Refuse
<1>10. ASSUME NEW w \in Workers, RecordExists(w) PROVE Owned'
  <2>1. copy' = [copy EXCEPT ![w] = copy[w]]
    BY <1>0, <1>10 DEF RecordExists, TypeOK
  <2>2. copy[w] \in Rows /\ Goto(w, "read") /\ UNCHANGED rec
    BY <1>1, <1>10 DEF RecordExists
  <2> QED
    BY <1>steps, <1>6, <2>1, <2>2
<1>11. ASSUME NEW w \in Workers, ReadRecord(w) PROVE Owned'
  <2>1. CASE Stop(w)
    BY <1>3, <1>11, <2>1 DEF ReadRecord
  <2>2. CASE Goto(w, "reclaim") /\ copy' = [copy EXCEPT ![w] = rec] /\ rec.expires <= at[w]
    <3>1. Owners = {}
      BY <1>2, <2>2
    <3> QED
      BY <1>1, <1>steps, <1>6, <1>11, <2>2, <3>1 DEF ReadRecord
  <2>3. CASE Decide(w)
    BY <1>7, <1>11, <2>3 DEF ReadRecord
  <2> QED
    BY <1>11, <2>1, <2>2, <2>3 DEF ReadRecord, Refuse
<1>12. ASSUME NEW w \in Workers, ReclaimRecord(w) PROVE Owned'
  <2>1. CASE Reclaimable(copy[w].id, copy[w].status, at[w])
    <3>1. Owners = {} /\ pc[w] \in Claiming /\ rec.id = copy[w].id
      BY <1>2, <1>12, <2>1 DEF ReclaimRecord, Claiming, Reclaimable, IsRow
    <3>2. /\ rec'.status = "processing" /\ rec'.id = rec.id
          /\ rec'.until = at[w] + Lease /\ rec'.expires = at[w] + Retention
      BY <1>1, <1>12, <2>1, RowWrites DEF ReclaimRecord
    <3>3. CASE Stop(w)
      BY <1>4, <3>1, <3>3
    <3>4. CASE Goto(w, "execute") /\ UNCHANGED copy
      <4>1. copy' = [copy EXCEPT ![w] = copy[w]]
        BY <1>0, <3>4 DEF TypeOK
      <4>2. /\ pc'[w] = "execute" /\ copy'[w] = copy[w] /\ at'[w] = at[w]
            /\ \A v \in Workers \ {w} : Same(v)
        BY <1>0, <1>1, <3>4, <4>1, GotoSame
      <4> QED
        BY <1>0, <3>1, <3>2, <4>2, ClaimOwns
    <3> QED
      BY <1>12, <2>1, <3>3, <3>4 DEF ReclaimRecord, Refuse
  <2>2. CASE ~Reclaimable(copy[w].id, copy[w].status, at[w])
    <3>1. UNCHANGED rec
      BY <1>12, <2>2 DEF ReclaimRecord
    <3>2. CASE Stop(w)
      BY <1>3, <3>1, <3>2
    <3>3. CASE Goto(w, "reread") /\ UNCHANGED copy
      <4>1. copy' = [copy EXCEPT ![w] = copy[w]]
        BY <1>0, <3>3 DEF TypeOK
      <4> QED
        BY <1>1, <1>steps, <1>6, <3>1, <3>3, <4>1
    <3> QED
      BY <1>12, <2>2, <3>2, <3>3 DEF ReclaimRecord, Refuse
  <2> QED
    BY <2>1, <2>2
<1>13. ASSUME NEW w \in Workers, RereadRecord(w) PROVE Owned'
  BY <1>3, <1>7, <1>13 DEF RereadRecord, Refuse
<1>14. ASSUME NEW w \in Workers, StoreFails(w) PROVE Owned'
  BY <1>3, <1>14 DEF StoreFails, Refuse
<1>15. ASSUME NEW w \in Workers, Execute(w) PROVE Owned'
  <2>1. /\ pc[w] \in Executing /\ pc'[w] # "reclaim" /\ at'[w] = at[w] /\ copy'[w] = copy[w]
        /\ \A v \in Workers \ {w} : Same(v)
    BY <1>0, <1>15 DEF Execute, Goto, Same, TypeOK, Executing
  <2> QED
    BY <1>0, <1>15, <2>1, KeepsOwned DEF Execute
<1>16. ASSUME NEW w \in Workers, RecordSuccess(w) PROVE Owned'
  BY <1>4, <1>5, <1>16 DEF RecordSuccess, Refuse, Answer, Executing
<1>17. ASSUME NEW w \in Workers, RecordFailure(w) PROVE Owned'
  BY <1>4, <1>5, <1>17 DEF RecordFailure, Refuse, Executing
<1>18. ASSUME NEW w \in Workers, Crash(w) PROVE Owned'
  BY <1>3, <1>18 DEF Crash, Refuse
<1>19. CASE Cleanup
  <2>1. Owners = {} /\ Owners' = Owners
    BY <1>2, <1>19 DEF Cleanup, Owners
  <2> QED
    BY <2>1, NobodyOwns
<1>20. ASSUME UNCHANGED <<rec, pc, at, copy>> PROVE Owned'
  BY <1>0, <1>20 DEF Owned, OwnerInv, OneExecution, Owners
<1> QED
  BY <1>8, <1>9, <1>10, <1>11, <1>12, <1>13, <1>14, <1>15, <1>16, <1>17, <1>18, <1>19, <1>20
     DEF Next, Claim, Run, Tick, vars

-----------------------------------------------------------------------------

\* An effect stays protected as long as its record does; a step that leaves the
\* window alone must keep the record until then and must not make anybody start
\* or fail an execution.
LEMMA KeepsWindow ==
  ASSUME WindowInv, UNCHANGED <<clock, window>>, NEW w \in Workers, \A v \in Workers \ {w} : Same(v),
         pc'[w] = "succeed" => pc[w] = "succeed" /\ at'[w] = at[w],
         ~overtaken' => ~overtaken,
         ~overtaken' /\ clock < window =>
           /\ rec'.status \in {"processing", "succeeded"} /\ rec'.expires >= window
           /\ pc'[w] \in {"execute", "fail"} => pc[w] \in {"execute", "fail"}
  PROVE  WindowInv'
<1>1. ASSUME NEW v \in Workers, pc'[v] = "succeed" PROVE window' <= at'[v] + Retention
  BY <1>1 DEF WindowInv, Same
<1>2. ASSUME ~overtaken', clock' < window'
      PROVE  /\ rec'.status \in {"processing", "succeeded"} /\ rec'.expires >= window'
             /\ \A v \in Workers : pc'[v] \notin {"execute", "fail"}
  <2>1. ~overtaken /\ clock < window
    BY <1>2
  <2>2. \A v \in Workers : pc[v] \notin {"execute", "fail"}
    BY <2>1 DEF WindowInv
  <2>3. \A v \in Workers : pc'[v] \notin {"execute", "fail"}
    BY <1>2, <2>1, <2>2 DEF Same
  <2> QED
    BY <1>2, <2>1, <2>3
<1> QED
  BY <1>1, <1>2 DEF WindowInv

\* Every step keeps the record of an effect.
LEMMA NextWindowInv == ASSUME RequestInv, TypeOK', [Next]_vars PROVE WindowInv'
<1> USE DEF history
<1>0. TypeOK /\ LocalInv /\ OwnerInv /\ OneExecution /\ WindowInv
  BY DEF RequestInv
<1>1. /\ rec \in Rows /\ clock \in Nat /\ clock' \in Nat /\ window \in Nat
      /\ rec.expires \in Nat /\ rec.status \in RowStatus
      /\ \A w \in Workers : at[w] \in Nat /\ copy[w] \in Rows /\ at[w] <= clock
  BY <1>0 DEF TypeOK, Rows, LocalInv, Knows
<1>steps. {"execute", "succeed", "fail", "create", "read", "reclaim", "reread", "retry"}
            \subseteq Step
  BY DEF Step, Claiming, Executing
<1>2. ~overtaken /\ clock < window =>
        /\ rec.status \in {"processing", "succeeded"} /\ rec.expires >= window
        /\ \A w \in Workers : pc[w] \notin {"execute", "fail"}
  BY <1>0 DEF WindowInv
<1>3. ASSUME NEW w \in Workers, pc'[w] \notin {"execute", "succeed", "fail"},
             \A v \in Workers \ {w} : Same(v), UNCHANGED <<rec, clock, window, overtaken>>
      PROVE  WindowInv'
  BY <1>0, <1>1, <1>2, <1>3, KeepsWindow
<1>4. ASSUME NEW w \in Workers, Stop(w) PROVE pc'[w] = "idle" /\ \A v \in Workers \ {w} : Same(v)
  BY <1>0, <1>4, StopSame DEF TypeOK
<1>5. ASSUME NEW w \in Workers, NEW s \in Step, Goto(w, s), NEW c \in Rows,
             copy' = [copy EXCEPT ![w] = c]
      PROVE  pc'[w] = s /\ at'[w] = at[w] /\ \A v \in Workers \ {w} : Same(v)
  BY <1>0, <1>5, GotoSame
<1>6. ASSUME NEW w \in Workers, Decide(w) PROVE pc'[w] \in {"idle", "retry"}
                                                /\ \A v \in Workers \ {w} : Same(v)
  BY <1>1, <1>steps, <1>4, <1>5, <1>6, DecideCases DEF Answer, Refuse
<1>7. ASSUME NEW w \in Workers, NEW p \in Prints, Submit(w, p) PROVE WindowInv'
  <2>1. pc'[w] = "create" /\ \A v \in Workers \ {w} : Same(v)
    BY <1>0, <1>7 DEF Submit, Same, TypeOK
  <2> QED
    BY <1>3, <1>7, <2>1 DEF Submit
<1>8. ASSUME NEW w \in Workers, InsertRecord(w) PROVE WindowInv'
  <2>1. ~(~overtaken /\ clock < window)
    BY <1>2, <1>8 DEF InsertRecord, CreateProcessing
  <2>2. pc'[w] \in {"execute", "idle"} /\ \A v \in Workers \ {w} : Same(v)
    BY <1>0, <1>1, <1>steps, <1>4, <1>5, <1>8 DEF InsertRecord, Refuse, TypeOK
  <2> QED
    BY <1>0, <1>1, <1>8, <2>1, <2>2, KeepsWindow DEF InsertRecord
<1>9. ASSUME NEW w \in Workers, RecordExists(w) PROVE WindowInv'
  <2>1. pc'[w] = "read" /\ \A v \in Workers \ {w} : Same(v)
    BY <1>0, <1>9 DEF RecordExists, Goto, Same, TypeOK
  <2> QED
    BY <1>3, <1>9, <2>1 DEF RecordExists
<1>10. ASSUME NEW w \in Workers, ReadRecord(w) PROVE WindowInv'
  <2>1. pc'[w] \in {"idle", "reclaim", "retry"} /\ \A v \in Workers \ {w} : Same(v)
    BY <1>1, <1>steps, <1>4, <1>5, <1>6, <1>10 DEF ReadRecord, Refuse
  <2> QED
    BY <1>3, <1>10, <2>1 DEF ReadRecord
<1>11. ASSUME NEW w \in Workers, ReclaimRecord(w) PROVE WindowInv'
  <2>1. copy = [copy EXCEPT ![w] = copy[w]]
    BY <1>0 DEF TypeOK
  <2>2. CASE Reclaimable(copy[w].id, copy[w].status, at[w])
    <3>1. pc'[w] \in {"execute", "idle"} /\ \A v \in Workers \ {w} : Same(v)
      BY <1>1, <1>steps, <1>4, <1>5, <1>11, <2>1, <2>2 DEF ReclaimRecord, Refuse
    <3>2. /\ overtaken' = (overtaken \/ rec # copy[w]) /\ UNCHANGED <<clock, window>>
          /\ pc[w] \in {"reclaim", "retry"}
      BY <1>11, <2>2 DEF ReclaimRecord
    <3>3. ~(~overtaken' /\ clock < window)
      <4> SUFFICES ASSUME ~overtaken, rec = copy[w], clock < window PROVE FALSE
        BY <3>2
      <4>1. rec.status # "failed_retryable" /\ rec.expires >= window
        BY <1>2
      <4>2. pc[w] = "reclaim" => rec.expires <= at[w]
        BY <1>0 DEF LocalInv, Knows
      <4>3. pc[w] = "retry" => rec.status = "failed_retryable"
        BY <1>0 DEF LocalInv, Knows
      <4> QED
        BY <1>1, <3>2, <4>1, <4>2, <4>3
    <3>4. ~overtaken' => ~overtaken
      BY <3>2
    <3> QED
      BY <1>0, <1>1, <3>1, <3>2, <3>3, <3>4, KeepsWindow
  <2>3. CASE ~Reclaimable(copy[w].id, copy[w].status, at[w])
    <3>1. pc'[w] \in {"reread", "idle"} /\ \A v \in Workers \ {w} : Same(v)
      BY <1>1, <1>steps, <1>4, <1>5, <1>11, <2>1, <2>3 DEF ReclaimRecord, Refuse
    <3> QED
      BY <1>3, <1>11, <2>3, <3>1 DEF ReclaimRecord
  <2> QED
    BY <2>2, <2>3
<1>12. ASSUME NEW w \in Workers, RereadRecord(w) PROVE WindowInv'
  <2>1. pc'[w] \in {"idle", "retry"} /\ \A v \in Workers \ {w} : Same(v)
    BY <1>4, <1>6, <1>12 DEF RereadRecord, Refuse
  <2> QED
    BY <1>3, <1>12, <2>1 DEF RereadRecord
<1>13. ASSUME NEW w \in Workers, StoreFails(w) PROVE WindowInv'
  BY <1>3, <1>4, <1>13 DEF StoreFails, Refuse
<1>14. ASSUME NEW w \in Workers, Execute(w) PROVE WindowInv'
  <2>1. w \in Owners /\ \A v \in Owners : v = w
    BY <1>0, <1>14 DEF Execute, Executing, Owners, OneExecution
  <2>2. \A v \in Workers \ {w} : pc'[v] = pc[v] /\ pc'[v] \notin {"execute", "succeed", "fail"}
    BY <1>0, <1>14, <2>1 DEF Execute, Goto, TypeOK, Owners, Executing
  <2>3. UNCHANGED <<rec, at, clock, overtaken>>
    BY <1>14 DEF Execute, Goto
  <2>4. CASE Goto(w, "succeed") /\ window' = at[w] + Retention
    <3>1. pc'[w] = "succeed"
      BY <1>0, <2>4 DEF Goto, TypeOK
    <3>2. rec.status = "processing" /\ rec.expires >= at[w] + Retention
      BY <1>0, <2>1 DEF OwnerInv
    <3>3. \A v \in Workers : pc'[v] = "succeed" => v = w
      BY <2>2
    <3>4. at[w] + Retention \in Nat
      BY <1>1
    <3> QED
      BY <2>2, <2>3, <2>4, <3>1, <3>2, <3>3, <3>4 DEF WindowInv
  <2>5. CASE Goto(w, "fail") /\ UNCHANGED window
    <3>1. ~(~overtaken /\ clock < window)
      BY <1>2, <1>14 DEF Execute
    <3>2. \A v \in Workers : pc'[v] # "succeed"
      BY <1>0, <2>2, <2>5 DEF Goto, TypeOK
    <3> QED
      BY <2>3, <2>5, <3>1, <3>2 DEF WindowInv
  <2> QED
    BY <1>14, <2>4, <2>5 DEF Execute
<1>15. ASSUME NEW w \in Workers, RecordSuccess(w) PROVE WindowInv'
  <2>1. pc'[w] = "idle" /\ \A v \in Workers \ {w} : Same(v)
    BY <1>4, <1>15 DEF RecordSuccess, Refuse, Answer
  <2>2. UNCHANGED rec \/ (rec'.status = "succeeded" /\ rec'.expires = at[w] + Retention)
    <3>1. MarkSucceeded(copy[w].id, at[w] + Retention) =>
            UNCHANGED rec \/ (rec'.status = "succeeded" /\ rec'.expires = at[w] + Retention)
      BY <1>1 DEF MarkSucceeded, Rows
    <3>2. MarkSucceeded(copy[w].id, at[w] + Retention) \/ UNCHANGED rec
      BY <1>15 DEF RecordSuccess
    <3> QED
      BY <3>1, <3>2
  <2>3. window <= at[w] + Retention
    BY <1>0, <1>15 DEF WindowInv, RecordSuccess
  <2>4. ~overtaken /\ clock < window =>
          rec'.status \in {"processing", "succeeded"} /\ rec'.expires >= window
    BY <1>1, <1>2, <2>2, <2>3
  <2>5. UNCHANGED <<clock, window, overtaken>>
    BY <1>15 DEF RecordSuccess
  <2> QED
    BY <1>0, <2>1, <2>4, <2>5, KeepsWindow
<1>16. ASSUME NEW w \in Workers, RecordFailure(w) PROVE WindowInv'
  <2>1. pc'[w] = "idle" /\ \A v \in Workers \ {w} : Same(v)
    BY <1>4, <1>16 DEF RecordFailure, Refuse
  <2>2. ~(~overtaken /\ clock < window)
    BY <1>2, <1>16 DEF RecordFailure
  <2>3. UNCHANGED <<clock, window, overtaken>>
    BY <1>16 DEF RecordFailure
  <2> QED
    BY <1>0, <2>1, <2>2, <2>3, KeepsWindow
<1>17. ASSUME NEW w \in Workers, Crash(w) PROVE WindowInv'
  BY <1>3, <1>4, <1>17 DEF Crash, Refuse
<1>18. CASE Cleanup
  <2>1. rec.expires <= clock /\ UNCHANGED <<clock, pc, at, window, overtaken>>
    BY <1>1, <1>18, RowWrites DEF Cleanup
  <2>2. ~(~overtaken /\ clock < window)
    BY <1>1, <1>2, <2>1
  <2> QED
    BY <1>0, <2>1, <2>2 DEF WindowInv
<1>19. CASE Tick
  <2>1. clock' = clock + 1 /\ UNCHANGED <<rec, pc, at, window, overtaken>>
    BY <1>19 DEF Tick
  <2>2. clock' < window => clock < window
    BY <1>1, <2>1
  <2> QED
    BY <1>0, <2>1, <2>2 DEF WindowInv
<1>20. CASE UNCHANGED vars
  BY <1>0, <1>20 DEF vars, WindowInv
<1> QED
  BY <1>7, <1>8, <1>9, <1>10, <1>11, <1>12, <1>13, <1>14, <1>15, <1>16, <1>17, <1>18, <1>19,
     <1>20 DEF Next, Claim, Run

-----------------------------------------------------------------------------

\* Success is only recorded, replayed and told for payloads that took effect.
LEMMA NextEffectInv == ASSUME RequestInv, TypeOK', [Next]_vars PROVE EffectInv'
<1> USE DEF history
<1>0. TypeOK /\ LocalInv /\ OwnerInv /\ EffectInv
  BY DEF RequestInv
<1>1. /\ rec \in Rows /\ \A w \in Workers : copy[w] \in Rows
      /\ {"execute", "succeed", "fail", "create", "read", "reclaim", "reread", "retry"}
           \subseteq Step
  BY <1>0 DEF TypeOK, Step, Claiming, Executing
<1>2. /\ rec.status = "succeeded" => rec.print \in effected
      /\ \A w \in Workers : pc[w] = "succeed" => pay[w] \in effected
      /\ told \subseteq effected
  BY <1>0 DEF EffectInv, SuccessIsReal
<1>3. ASSUME NEW w \in Workers, pc'[w] # "succeed",
             \A v \in Workers \ {w} : Same(v), UNCHANGED effected, told' \subseteq effected,
             rec'.status = "succeeded" => rec'.print \in effected
      PROVE  EffectInv'
  BY <1>2, <1>3 DEF EffectInv, SuccessIsReal, Same
<1>4. ASSUME NEW w \in Workers, Stop(w) PROVE pc'[w] = "idle" /\ \A v \in Workers \ {w} : Same(v)
  BY <1>0, <1>4, StopSame DEF TypeOK
<1>5. ASSUME NEW w \in Workers, NEW s \in Step, Goto(w, s), NEW c \in Rows,
             copy' = [copy EXCEPT ![w] = c]
      PROVE  pc'[w] = s /\ \A v \in Workers \ {w} : Same(v)
  BY <1>0, <1>5, GotoSame
<1>6. ASSUME NEW w \in Workers, SamePayload(w), Decide(w)
      PROVE  /\ pc'[w] \in {"idle", "retry"} /\ \A v \in Workers \ {w} : Same(v)
             /\ told' \subseteq effected
  <2>1. CASE rec.status = "succeeded" /\ Answer(w)
    BY <1>2, <1>4, <1>6, <2>1 DEF Answer, SamePayload
  <2>2. CASE Goto(w, "retry") /\ copy' = [copy EXCEPT ![w] = rec] /\ UNCHANGED told
    BY <1>1, <1>2, <1>5, <2>2
  <2>3. CASE Refuse(w)
    BY <1>2, <1>4, <2>3 DEF Refuse
  <2> QED
    BY <1>6, <2>1, <2>2, <2>3, DecideCases
<1>7. ASSUME NEW w \in Workers, NEW p \in Prints, Submit(w, p) PROVE EffectInv'
  <2>1. pc'[w] = "create" /\ \A v \in Workers \ {w} : Same(v)
    BY <1>0, <1>7 DEF Submit, Same, TypeOK
  <2> QED
    BY <1>2, <1>3, <1>7, <2>1 DEF Submit
<1>8. ASSUME NEW w \in Workers, InsertRecord(w) PROVE EffectInv'
  <2>1. pc'[w] \in {"execute", "idle"} /\ \A v \in Workers \ {w} : Same(v)
    BY <1>0, <1>1, <1>4, <1>5, <1>8 DEF InsertRecord, Refuse, TypeOK
  <2>2. rec'.status = "processing"
    BY <1>8 DEF InsertRecord, CreateProcessing
  <2>3. UNCHANGED <<effected, told>>
    BY <1>8 DEF InsertRecord, Refuse
  <2> QED
    BY <1>2, <1>3, <2>1, <2>2, <2>3
<1>9. ASSUME NEW w \in Workers, RecordExists(w) PROVE EffectInv'
  <2>1. pc'[w] = "read" /\ \A v \in Workers \ {w} : Same(v)
    BY <1>0, <1>9 DEF RecordExists, Goto, Same, TypeOK
  <2> QED
    BY <1>2, <1>3, <1>9, <2>1 DEF RecordExists
<1>10. ASSUME NEW w \in Workers, ReadRecord(w) PROVE EffectInv'
  <2>1. /\ pc'[w] \in {"idle", "reclaim", "retry"} /\ \A v \in Workers \ {w} : Same(v)
        /\ told' \subseteq effected
    BY <1>1, <1>2, <1>4, <1>5, <1>6, <1>10 DEF ReadRecord, Refuse
  <2> QED
    BY <1>2, <1>3, <1>10, <2>1 DEF ReadRecord
<1>11. ASSUME NEW w \in Workers, ReclaimRecord(w) PROVE EffectInv'
  <2>1. copy = [copy EXCEPT ![w] = copy[w]]
    BY <1>0 DEF TypeOK
  <2>2. /\ pc'[w] \in {"execute", "reread", "idle"} /\ \A v \in Workers \ {w} : Same(v)
        /\ UNCHANGED <<effected, told>>
    BY <1>1, <1>4, <1>5, <1>11, <2>1 DEF ReclaimRecord, Refuse
  <2>3. UNCHANGED rec \/ rec'.status = "processing"
    BY <1>1, <1>11, RowWrites DEF ReclaimRecord
  <2> QED
    BY <1>2, <1>3, <2>2, <2>3
<1>12. ASSUME NEW w \in Workers, RereadRecord(w) PROVE EffectInv'
  <2>1. /\ pc'[w] \in {"idle", "retry"} /\ \A v \in Workers \ {w} : Same(v)
        /\ told' \subseteq effected
    BY <1>2, <1>4, <1>6, <1>12 DEF RereadRecord, Refuse
  <2> QED
    BY <1>2, <1>3, <1>12, <2>1 DEF RereadRecord
<1>13. ASSUME NEW w \in Workers, StoreFails(w) PROVE EffectInv'
  BY <1>2, <1>3, <1>4, <1>13 DEF StoreFails, Refuse
<1>14. ASSUME NEW w \in Workers, Execute(w) PROVE EffectInv'
  <2>1. /\ UNCHANGED <<rec, pay, told>> /\ effected \subseteq effected'
        /\ \A v \in Workers \ {w} : pc'[v] = pc[v]
    BY <1>0, <1>14 DEF Execute, Goto, TypeOK
  <2>2. pc'[w] = "succeed" => pay[w] \in effected'
    BY <1>0, <1>14 DEF Execute, Goto, TypeOK
  <2> QED
    BY <1>2, <2>1, <2>2 DEF EffectInv, SuccessIsReal
<1>15. ASSUME NEW w \in Workers, RecordSuccess(w) PROVE EffectInv'
  <2>1. /\ pc'[w] = "idle" /\ \A v \in Workers \ {w} : Same(v)
    BY <1>4, <1>15 DEF RecordSuccess, Refuse, Answer
  <2>2. pay[w] \in effected /\ told' \subseteq effected /\ UNCHANGED effected
    BY <1>2, <1>15 DEF RecordSuccess, Refuse, Answer
  <2>3. IsRow(copy[w].id) => rec.print = pay[w]
    BY <1>0, <1>15 DEF RecordSuccess, LocalInv, Knows, Executing
  <2>4. MarkSucceeded(copy[w].id, at[w] + Retention) =>
          UNCHANGED rec \/ (IsRow(copy[w].id) /\ rec'.print = rec.print)
    BY <1>1, RowWrites
  <2>5. rec'.status = "succeeded" => rec'.print \in effected
    BY <1>2, <1>15, <2>2, <2>3, <2>4 DEF RecordSuccess
  <2> QED
    BY <1>3, <2>1, <2>2, <2>5
<1>16. ASSUME NEW w \in Workers, RecordFailure(w) PROVE EffectInv'
  <2>1. /\ pc'[w] = "idle" /\ \A v \in Workers \ {w} : Same(v)
        /\ UNCHANGED <<effected, told>>
    BY <1>4, <1>16 DEF RecordFailure, Refuse
  <2>2. MarkFailedRetryable(copy[w].id, clock + Backoff, at[w] + Retention) =>
          UNCHANGED rec \/ rec'.status = "failed_retryable"
    BY <1>1, RowWrites
  <2> QED
    BY <1>2, <1>3, <1>16, <2>1, <2>2 DEF RecordFailure
<1>17. ASSUME NEW w \in Workers, Crash(w) PROVE EffectInv'
  BY <1>2, <1>3, <1>4, <1>17 DEF Crash, Refuse
<1>18. CASE Cleanup
  <2>1. rec'.status = "none" /\ UNCHANGED <<pc, pay, effected, told>>
    BY <1>1, <1>18, RowWrites DEF Cleanup
  <2> QED
    BY <1>2, <2>1 DEF EffectInv, SuccessIsReal
<1>19. ASSUME UNCHANGED <<rec, pc, pay, effected, told>> PROVE EffectInv'
  BY <1>2, <1>19 DEF EffectInv, SuccessIsReal
<1> QED
  BY <1>7, <1>8, <1>9, <1>10, <1>11, <1>12, <1>13, <1>14, <1>15, <1>16, <1>17, <1>18, <1>19
     DEF Next, Claim, Run, Tick, vars

-----------------------------------------------------------------------------

\* The invariant holds in every reachable state.
THEOREM Invariance == Spec => []RequestInv
<1>1. RequestInv /\ [Next]_vars => RequestInv'
  <2> SUFFICES ASSUME RequestInv, [Next]_vars PROVE RequestInv'
    OBVIOUS
  <2>1. TypeOK'
    BY NextTypeOK DEF RequestInv
  <2>2. LocalInv'
    BY <2>1, NextLocalInv DEF RequestInv
  <2>3. Owned' /\ WindowInv' /\ EffectInv'
    BY <2>1, <2>2, NextOwned, NextWindowInv, NextEffectInv
  <2> QED
    BY <2>1, <2>2, <2>3 DEF RequestInv, Owned
<1> QED
  BY <1>1, InitRequestInv, PTL DEF Spec

\* Every variable keeps its type.
THEOREM TypeCorrect == Spec => []TypeOK
<1>1. RequestInv => TypeOK
  BY DEF RequestInv
<1> QED
  BY <1>1, Invariance, PTL

\* Two requests with the same key never execute the operation at once, whatever
\* crashes, failed statements and cleanups happen in between.
THEOREM ExecutesAlone == Spec => []OneExecution
<1>1. RequestInv => OneExecution
  BY DEF RequestInv
<1> QED
  BY <1>1, Invariance, PTL

\* Nobody is told of a success of a payload that never took effect.
THEOREM Success == Spec => []SuccessIsReal
<1>1. RequestInv => SuccessIsReal
  BY DEF RequestInv, EffectInv
<1> QED
  BY <1>1, Invariance, PTL

\* An effect is not repeated before its retention has passed, unless a record
\* was reclaimed that had changed since it was read.
THEOREM NotRepeated == Spec => OncePerRetention
<1>1. RequestInv /\ [Next]_vars =>
        [~overtaken => \A w \in Workers : TakesEffect(w) => clock >= window]_vars
  <2> SUFFICES ASSUME RequestInv, ~overtaken, NEW w \in Workers, pc[w] = "execute"
               PROVE  clock >= window
    BY DEF TakesEffect
  <2>1. clock \in Nat /\ window \in Nat
    BY DEF RequestInv, TypeOK
  <2>2. ~(clock < window)
    BY DEF RequestInv, WindowInv
  <2> QED
    BY <2>1, <2>2
<1> QED
  BY <1>1, Invariance, PTL DEF Spec, OncePerRetention

-----------------------------------------------------------------------------
(***************************************************************************)
(* Proofs about SystemOperationLock, for any number of requests and        *)
(* operations and any durations its assumptions allow.  While an operation *)
(* is within its first lease its row cannot be reclaimed or cleaned up,    *)
(* because the row's locked_until and expires_at are not before the end of *)
(* that lease, and every other request's reading of the clock is.          *)
(***************************************************************************)

USE TimesAssumption

\* An insertion gives the row the next id; nothing else changes it.
LEMMA RowIds ==
  ASSUME rec \in Rows, NEW p, NEW now, NEW n, NEW u, NEW e
  PROVE  /\ CreateProcessing(p, now) => rec'.id = rec.id + 1
         /\ TryReclaim(now) => rec'.id = rec.id
         /\ MarkSucceeded(n, e) => rec'.id = rec.id
         /\ MarkFailedRetryable(n, u, e) => rec'.id = rec.id
         /\ DeleteExpired => rec'.id = rec.id
<1>1. CreateProcessing(p, now) => rec'.id = rec.id + 1
  BY DEF CreateProcessing
<1>2. TryReclaim(now) => rec'.id = rec.id
  BY DEF TryReclaim, Rows
<1>3. MarkSucceeded(n, e) => rec'.id = rec.id
  BY DEF MarkSucceeded, Rows
<1>4. MarkFailedRetryable(n, u, e) => rec'.id = rec.id
  BY DEF MarkFailedRetryable, Rows
<1>5. DeleteExpired => rec'.id = rec.id
  BY DEF DeleteExpired, NoRow
<1> QED
  BY <1>1, <1>2, <1>3, <1>4, <1>5

-----------------------------------------------------------------------------
(* Types. *)

LEMMA InitLockInv == LockInit => LockInv
<1> SUFFICES ASSUME LockInit PROVE LockInv
  OBVIOUS
<1>1. LockTypeOK
  BY DEF LockInit, LockTypeOK, NoRow, Rows, RowStatus, LockStep
<1>2. LockLocalInv
  BY DEF LockInit, LockLocalInv
<1>3. HolderInv /\ ExclusiveWithinLease
  BY DEF LockInit, HolderInv, ExclusiveWithinLease, Holders
<1> QED
  BY <1>1, <1>2, <1>3 DEF LockInv

LocalTypeOK ==
  /\ pc \in [Workers -> LockStep]
  /\ at \in [Workers -> Nat]
  /\ op \in [Workers -> Prints \cup {NoPrint}]
  /\ id \in [Workers -> Nat]
  /\ from \in [Workers -> RowStatus]
  /\ created \in [Workers -> BOOLEAN]
  /\ renewing \in [Workers -> BOOLEAN]
  /\ ticked \in [Workers -> Nat]

\* A worker that has been answered is well typed,
LEMMA LoopStopType == ASSUME LockTypeOK, NEW w \in Workers, LockStop(w) PROVE LocalTypeOK'
  BY DEF LockTypeOK, LocalTypeOK, LockStop, LockGoto, LockStep, RowStatus

\* and so is one that has got the lock.
LEMMA HoldType ==
  ASSUME LockTypeOK, NEW w \in Workers, Hold(w),
         id' \in [Workers -> Nat], created' \in [Workers -> BOOLEAN]
  PROVE  LocalTypeOK'
  BY DEF LockTypeOK, LocalTypeOK, Hold, LockGoto, LockStep

\* Every step keeps the types.
LEMMA NextLockTypeOK == ASSUME LockTypeOK, [LockNext]_lockVars PROVE LockTypeOK'
<1> USE DEF local
<1>0. clock \in Nat /\ rec \in Rows /\ faults \in Nat /\ clock + Retention \in Nat
  BY DEF LockTypeOK
<1>1. ASSUME NEW w \in Workers, NEW p \in Prints, Acquire(w, p) PROVE LockTypeOK'
  BY <1>1 DEF LockTypeOK, Acquire, LockGoto, LockStep
<1>2. ASSUME NEW w \in Workers, InsertRow(w) PROVE LockTypeOK'
  <2>1. rec' \in Rows
    BY <1>2, RowTypes DEF InsertRow, LockTypeOK
  <2>2. CASE Hold(w) /\ id' = [id EXCEPT ![w] = rec.id + 1]
             /\ created' = [created EXCEPT ![w] = TRUE] /\ UNCHANGED faults
    <3>1. rec.id + 1 \in Nat
      BY DEF LockTypeOK, Rows
    <3>2. id' \in [Workers -> Nat] /\ created' \in [Workers -> BOOLEAN]
      BY <2>2, <3>1 DEF LockTypeOK
    <3>3. LocalTypeOK'
      BY <2>2, <3>2, HoldType
    <3> QED
      BY <1>2, <2>1, <2>2, <3>3 DEF InsertRow, LockTypeOK, LocalTypeOK
  <2>3. CASE Fault /\ LockStop(w)
    BY <1>2, <2>1, <2>3, LoopStopType DEF InsertRow, LockTypeOK, LocalTypeOK, Fault
  <2> QED
    BY <1>2, <2>2, <2>3 DEF InsertRow
<1>3. ASSUME NEW w \in Workers, RowExists(w) PROVE LockTypeOK'
  BY <1>3 DEF LockTypeOK, RowExists, LockGoto, LockStep
<1>4. ASSUME NEW w \in Workers, ReadRow(w) PROVE LockTypeOK'
  <2>1. CASE LockStop(w)
    BY <1>4, <2>1, LoopStopType DEF ReadRow, LockTypeOK, LocalTypeOK
  <2>2. CASE ~LockStop(w)
    <3>1. rec.id \in Nat /\ rec.status \in RowStatus
      BY DEF LockTypeOK, Rows
    <3> QED
      BY <1>4, <2>2, <3>1 DEF ReadRow, LockTypeOK, LockGoto, LockStep
  <2> QED
    BY <2>1, <2>2
<1>5. ASSUME NEW w \in Workers, ReclaimRow(w) PROVE LockTypeOK'
  <2>1. rec' \in Rows
    BY <1>5, RowTypes DEF ReclaimRow, LockTypeOK
  <2>2. CASE LockStop(w)
    <3>1. LocalTypeOK'
      BY <2>2, LoopStopType
    <3>2. faults' \in Nat /\ UNCHANGED <<clock, overran>>
      BY <1>0, <1>5 DEF ReclaimRow, Fault
    <3> QED
      BY <2>1, <3>1, <3>2 DEF LockTypeOK, LocalTypeOK
  <2>3. CASE Hold(w) /\ UNCHANGED <<id, created, faults>>
    <3>1. LocalTypeOK'
      BY <2>3, HoldType DEF LockTypeOK
    <3> QED
      BY <1>5, <2>1, <2>3, <3>1 DEF ReclaimRow, LockTypeOK, LocalTypeOK
  <2> QED
    BY <1>5, <2>2, <2>3 DEF ReclaimRow
<1>6. ASSUME NEW w \in Workers, LockStoreFails(w) PROVE LockTypeOK'
  BY <1>6, LoopStopType DEF LockStoreFails, LockTypeOK, LocalTypeOK, Fault
<1>7. ASSUME NEW w \in Workers, Renew(w) PROVE LockTypeOK'
  <2>1. ExtendProcessingLock => rec' \in Rows
    BY <1>0, RowTypes
  <2>2. rec' \in Rows
    BY <1>7, <2>1 DEF Renew, LockTypeOK
  <2>3. renewing' \in [Workers -> BOOLEAN]
    BY <1>7 DEF Renew, LockTypeOK
  <2>4. ticked' \in [Workers -> Nat]
    BY <1>7 DEF Renew, LockTypeOK
  <2>5. faults' \in Nat
    BY <1>0, <1>7 DEF Renew, Fault
  <2> QED
    BY <1>7, <2>2, <2>3, <2>4, <2>5 DEF Renew, LockTypeOK
<1>8. ASSUME NEW w \in Workers, Finish(w) PROVE LockTypeOK'
  BY <1>8 DEF Finish, LockTypeOK, LockGoto, LockStep
<1>9. ASSUME NEW w \in Workers, Release(w) PROVE LockTypeOK'
  <2>1. id[w] \in Nat
    BY DEF LockTypeOK
  <2>2. rec' \in Rows
    BY <1>0, <1>9, <2>1, RowTypes DEF Release, LockTypeOK
  <2> QED
    BY <1>9, <2>2, LoopStopType DEF Release, LockTypeOK, LocalTypeOK, Fault
<1>10. ASSUME NEW w \in Workers, LockCrash(w) PROVE LockTypeOK'
  BY <1>10, LoopStopType DEF LockCrash, LockTypeOK, LocalTypeOK, Fault
<1>11. CASE LockCleanup
  <2>1. rec' \in Rows
    BY <1>0, <1>11, RowTypes DEF LockCleanup
  <2> QED
    BY <1>11, <2>1 DEF LockCleanup, LockTypeOK
<1>12. CASE LockTick
  BY <1>12 DEF LockTick, LockTypeOK
<1>13. CASE UNCHANGED lockVars
  BY <1>13 DEF LockTypeOK, lockVars
<1> QED
  BY <1>1, <1>2, <1>3, <1>4, <1>5, <1>6, <1>7, <1>8, <1>9, <1>10, <1>11, <1>12, <1>13
     DEF LockNext, LockClaim, LockRun

-----------------------------------------------------------------------------

\* Every step keeps what a worker knows about the time.
LEMMA NextLockLocalInv == ASSUME LockTypeOK, LockLocalInv, [LockNext]_lockVars PROVE LockLocalInv'
<1> USE DEF local
<1>0. /\ clock \in Nat /\ at \in [Workers -> Nat] /\ pc \in [Workers -> LockStep]
      /\ renewing \in [Workers -> BOOLEAN]
  BY DEF LockTypeOK
<1>1. ASSUME NEW w \in Workers, LockStop(w), UNCHANGED <<clock, overran>> PROVE LockLocalInv'
  BY <1>0, <1>1 DEF LockLocalInv, LockStop, LockGoto
<1>2. ASSUME NEW w \in Workers, pc[w] # "idle", Hold(w), UNCHANGED <<clock, overran>>
      PROVE  LockLocalInv'
  BY <1>0, <1>2 DEF LockLocalInv, Hold, LockGoto
<1>3. ASSUME NEW w \in Workers, pc[w] \notin {"idle", "running"}, NEW s \in LockStep, LockGoto(w, s),
             UNCHANGED <<clock, overran, at, renewing>>
      PROVE  LockLocalInv'
  BY <1>0, <1>3 DEF LockLocalInv, LockGoto
<1>4. ASSUME NEW w \in Workers, NEW p \in Prints, Acquire(w, p) PROVE LockLocalInv'
  BY <1>0, <1>4 DEF LockLocalInv, Acquire, LockGoto
<1>5. ASSUME NEW w \in Workers, InsertRow(w) PROVE LockLocalInv'
  BY <1>1, <1>2, <1>5 DEF InsertRow
<1>6. ASSUME NEW w \in Workers, RowExists(w) PROVE LockLocalInv'
  BY <1>3, <1>6 DEF RowExists, LockStep
<1>7. ASSUME NEW w \in Workers, ReadRow(w) PROVE LockLocalInv'
  BY <1>1, <1>3, <1>7 DEF ReadRow, LockStep
<1>8. ASSUME NEW w \in Workers, ReclaimRow(w) PROVE LockLocalInv'
  BY <1>1, <1>2, <1>8 DEF ReclaimRow
<1>9. ASSUME NEW w \in Workers, LockStoreFails(w) PROVE LockLocalInv'
  BY <1>1, <1>9 DEF LockStoreFails
<1>10. ASSUME NEW w \in Workers, Renew(w) PROVE LockLocalInv'
  BY <1>0, <1>10 DEF LockLocalInv, Renew
<1>11. ASSUME NEW w \in Workers, Finish(w) PROVE LockLocalInv'
  BY <1>0, <1>11 DEF LockLocalInv, Finish, LockGoto
<1>12. ASSUME NEW w \in Workers, Release(w) PROVE LockLocalInv'
  BY <1>1, <1>12 DEF Release
<1>13. ASSUME NEW w \in Workers, LockCrash(w) PROVE LockLocalInv'
  BY <1>1, <1>13 DEF LockCrash
<1>14. CASE LockCleanup
  BY <1>14 DEF LockLocalInv, LockCleanup
<1>15. CASE LockTick
  <2> SUFFICES ASSUME NEW w \in Workers
               PROVE  /\ at[w] <= clock'
                      /\ renewing[w] => pc[w] = "running"
                      /\ ~overran' /\ pc[w] # "idle" => clock' < at[w] + Lease
    BY <1>15 DEF LockLocalInv, LockTick
  <2>1. at[w] <= clock' /\ (renewing[w] => pc[w] = "running")
    BY <1>0, <1>15 DEF LockLocalInv, LockTick
  <2>2. ASSUME ~overran', pc[w] # "idle" PROVE clock' < at[w] + Lease
    <3>1. ~OutlivesLease(w)
      BY <1>15, <2>2 DEF LockTick
    <3>2. ~(clock + 1 >= at[w] + Lease) /\ clock' = clock + 1
      BY <1>15, <2>2, <3>1 DEF LockTick, OutlivesLease
    <3>3. at[w] \in Nat
      BY <1>0
    <3> QED
      BY <1>0, <3>2, <3>3
  <2> QED
    BY <2>1, <2>2
<1>16. CASE UNCHANGED lockVars
  BY <1>16 DEF LockLocalInv, lockVars
<1> QED
  BY <1>4, <1>5, <1>6, <1>7, <1>8, <1>9, <1>10, <1>11, <1>12, <1>13, <1>14, <1>15, <1>16
     DEF LockNext, LockClaim, LockRun

-----------------------------------------------------------------------------

\* Within the first lease of every operation there is one holder, and its row
\* is safe.
Safe == HolderInv /\ ExclusiveWithinLease

\* No statement can take the row away while somebody holds it.
LEMMA HolderIsSafe ==
  ASSUME LockTypeOK, LockLocalInv, HolderInv, ~overran, NEW v \in Holders
  PROVE  /\ rec.status = "processing"
         /\ ~DeleteExpired
         /\ \A w \in Workers : ~Reclaimable(id[w], from[w], at[w])
<1>1. /\ v \in Workers /\ pc[v] # "idle"
  BY DEF Holders
<1>2. /\ rec.status = "processing"
      /\ rec.until >= at[v] + Lease /\ rec.expires >= at[v] + Lease
  BY DEF HolderInv
<1>3. clock < at[v] + Lease /\ \A w \in Workers : at[w] <= clock
  BY <1>1 DEF LockLocalInv
<1>4. /\ clock \in Nat /\ rec.until \in Nat /\ rec.expires \in Nat
      /\ at \in [Workers -> Nat]
  BY DEF LockTypeOK, Rows
<1>5. rec.expires > clock /\ \A w \in Workers : rec.until > at[w]
  BY <1>1, <1>2, <1>3, <1>4
<1>6. ~DeleteExpired
  BY <1>4, <1>5 DEF DeleteExpired
<1>7. \A w \in Workers : ~Reclaimable(id[w], from[w], at[w])
  BY <1>4, <1>5 DEF Reclaimable
<1> QED
  BY <1>2, <1>6, <1>7

\* A step that leaves the row and its holders alone, or loses holders, is safe,
LEMMA KeepsSafe ==
  ASSUME Safe, UNCHANGED rec, ~overran, Holders' \subseteq Holders,
         \A v \in Holders' : at'[v] = at[v] /\ id'[v] = id[v]
  PROVE  Safe'
  BY DEF Safe, HolderInv, ExclusiveWithinLease

\* and so is one after which there are none,
LEMMA NobodyIsSafe == ASSUME Holders' = {} PROVE Safe'
  BY DEF Safe, HolderInv, ExclusiveWithinLease

\* or only the one that has just claimed the row.
LEMMA ClaimIsSafe ==
  ASSUME LockTypeOK, NEW w \in Workers, Holders = {}, Hold(w),
         rec'.status = "processing", rec'.id = id'[w],
         rec'.until = at[w] + Lease, rec'.expires = at[w] + Retention
  PROVE  Safe'
<1>1. Holders' = {w}
  BY DEF Holders, Hold, LockGoto, LockTypeOK
<1>2. at[w] \in Nat /\ at'[w] = at[w]
  BY DEF LockTypeOK, Hold
<1>3. rec'.until >= at'[w] + Lease /\ rec'.expires >= at'[w] + Lease
  BY <1>2
<1> QED
  BY <1>1, <1>3 DEF Safe, HolderInv, ExclusiveWithinLease

\* Every step is safe.
LEMMA NextSafe == ASSUME LockInv, LockTypeOK', [LockNext]_lockVars PROVE Safe'
<1> USE DEF local
<1>1. LockTypeOK /\ LockLocalInv /\ Safe
  BY DEF LockInv, Safe
<1>2. CASE overran'
  BY <1>2 DEF Safe, HolderInv, ExclusiveWithinLease
<1>3. CASE ~overran'
  <2>1. ~overran
    BY <1>3 DEF LockNext, LockClaim, LockRun, Acquire, InsertRow, RowExists, ReadRow, ReclaimRow,
                LockStoreFails, Renew, Finish, Release, LockCrash, LockCleanup, LockTick, lockVars
  <2>2. \A v \in Holders : /\ rec.status = "processing" /\ ~DeleteExpired
                          /\ \A w \in Workers : ~Reclaimable(id[w], from[w], at[w])
    BY <1>1, <2>1, HolderIsSafe DEF Safe
  <2>3. ASSUME NEW w \in Workers, LockStop(w), UNCHANGED rec PROVE Safe'
    <3>1. Holders' \subseteq Holders /\ w \notin Holders'
      BY <1>1, <2>3 DEF Holders, LockStop, LockGoto, LockTypeOK
    <3>2. \A v \in Workers \ {w} : at'[v] = at[v] /\ id'[v] = id[v]
      BY <1>1, <2>3 DEF LockStop, LockTypeOK
    <3>3. \A v \in Holders' : v \in Workers \ {w}
      BY <3>1 DEF Holders
    <3> QED
      BY <1>1, <2>1, <2>3, <3>1, <3>2, <3>3, KeepsSafe
  <2>4. ASSUME NEW w \in Workers, pc[w] \notin {"running", "release"}, LockStop(w), Holders = {}
        PROVE  Safe'
    <3>1. Holders' = {}
      BY <1>1, <2>4 DEF Holders, LockStop, LockGoto, LockTypeOK
    <3> QED
      BY <3>1, NobodyIsSafe
  <2>5. ASSUME NEW w \in Workers, NEW p \in Prints, Acquire(w, p) PROVE Safe'
    <3>1. Holders' = Holders
      BY <1>1, <2>5 DEF Holders, Acquire, LockGoto, LockTypeOK
    <3>2. \A v \in Holders' : at'[v] = at[v] /\ id'[v] = id[v]
      BY <1>1, <2>5, <3>1 DEF Holders, Acquire, LockTypeOK
    <3> QED
      BY <1>1, <2>1, <2>5, <3>1, <3>2, KeepsSafe DEF Acquire
  <2>6. ASSUME NEW w \in Workers, InsertRow(w) PROVE Safe'
    <3>1. Holders = {}
      BY <2>2, <2>6 DEF InsertRow, CreateProcessing
    <3>2. CASE Hold(w) /\ id' = [id EXCEPT ![w] = rec.id + 1]
      <4>1. /\ rec'.status = "processing" /\ rec'.id = rec.id + 1
            /\ rec'.until = at[w] + Lease /\ rec'.expires = at[w] + Retention
        BY <2>6 DEF InsertRow, CreateProcessing
      <4>2. id'[w] = rec.id + 1
        BY <1>1, <3>2 DEF LockTypeOK
      <4> QED
        BY <1>1, <3>1, <3>2, <4>1, <4>2, ClaimIsSafe
    <3>3. CASE LockStop(w)
      BY <2>4, <2>6, <3>1, <3>3 DEF InsertRow
    <3> QED
      BY <2>6, <3>2, <3>3 DEF InsertRow
  <2>7. ASSUME NEW w \in Workers, RowExists(w) PROVE Safe'
    <3>1. Holders' = Holders
      BY <1>1, <2>7 DEF Holders, RowExists, LockGoto, LockTypeOK
    <3> QED
      BY <1>1, <2>1, <2>7, <3>1, KeepsSafe DEF RowExists
  <2>8. ASSUME NEW w \in Workers, ReadRow(w) PROVE Safe'
    <3>1. CASE LockStop(w)
      BY <2>3, <2>8, <3>1 DEF ReadRow
    <3>2. CASE ~LockStop(w)
      <4>1. /\ LockGoto(w, "reclaim") /\ UNCHANGED <<rec, at>>
            /\ \A v \in Workers \ {w} : id'[v] = id[v]
        BY <1>1, <2>8, <3>2 DEF ReadRow, LockTypeOK
      <4>2. Holders' = Holders /\ w \notin Holders
        BY <1>1, <2>8, <4>1 DEF Holders, LockGoto, LockTypeOK, ReadRow
      <4>3. \A v \in Holders' : v \in Workers \ {w}
        BY <4>2 DEF Holders
      <4> QED
        BY <1>1, <2>1, <4>1, <4>2, <4>3, KeepsSafe
    <3> QED
      BY <3>1, <3>2
  <2>9. ASSUME NEW w \in Workers, ReclaimRow(w) PROVE Safe'
    <3>1. CASE Reclaimable(id[w], from[w], at[w])
      <4>1. Holders = {}
        BY <2>2, <3>1
      <4>2. TryReclaim(at[w]) /\ rec.id = id[w]
        BY <2>9, <3>1 DEF ReclaimRow, Reclaimable, IsRow
      <4>3. /\ rec'.status = "processing" /\ rec'.id = id[w]
            /\ rec'.until = at[w] + Lease /\ rec'.expires = at[w] + Retention
        BY <1>1, <4>2 DEF TryReclaim, LockTypeOK, Rows
      <4>4. CASE Hold(w) /\ UNCHANGED id
        BY <1>1, <4>1, <4>3, <4>4, ClaimIsSafe
      <4>5. CASE LockStop(w)
        BY <2>4, <2>9, <4>1, <4>5 DEF ReclaimRow
      <4> QED
        BY <2>9, <3>1, <4>4, <4>5 DEF ReclaimRow
    <3>2. CASE ~Reclaimable(id[w], from[w], at[w])
      BY <2>3, <2>9, <3>2 DEF ReclaimRow
    <3> QED
      BY <3>1, <3>2
  <2>10. ASSUME NEW w \in Workers, LockStoreFails(w) PROVE Safe'
    BY <2>3, <2>10 DEF LockStoreFails
  <2>11. ASSUME NEW w \in Workers, Renew(w) PROVE Safe'
    <3>1. UNCHANGED <<pc, at, id>> /\ Holders' = Holders
      BY <2>11 DEF Renew, Holders
    <3>2. CASE UNCHANGED rec
      BY <1>1, <2>1, <3>1, <3>2, KeepsSafe
    <3>3. CASE ExtendProcessingLock
      <4>1. /\ rec'.status = rec.status /\ rec'.id = rec.id
            /\ rec'.until = clock + Lease /\ rec'.expires = clock + Retention
        BY <1>1, <3>3 DEF ExtendProcessingLock, LockTypeOK, Rows
      <4>2. ASSUME NEW v \in Holders
            PROVE  /\ rec'.status = "processing" /\ rec'.id = id[v]
                   /\ rec'.until >= at[v] + Lease /\ rec'.expires >= at[v] + Lease
        <5>1. v \in Workers
          BY DEF Holders
        <5>2. at[v] <= clock /\ at[v] \in Nat /\ clock \in Nat
          BY <1>1, <5>1 DEF LockLocalInv, LockTypeOK
        <5>3. clock + Lease >= at[v] + Lease /\ clock + Retention >= at[v] + Lease
          BY <5>2
        <5>4. rec.status = "processing" /\ rec.id = id[v]
          BY <1>1, <2>1 DEF Safe, HolderInv
        <5> QED
          BY <4>1, <5>3, <5>4
      <4>3. HolderInv'
        BY <3>1, <4>2 DEF HolderInv
      <4>4. ExclusiveWithinLease'
        BY <1>1, <2>1, <3>1 DEF Safe, ExclusiveWithinLease
      <4> QED
        BY <4>3, <4>4 DEF Safe
    <3> QED
      BY <2>11, <3>2, <3>3 DEF Renew
  <2>12. ASSUME NEW w \in Workers, Finish(w) PROVE Safe'
    <3>1. Holders' = Holders
      BY <1>1, <2>12 DEF Holders, Finish, LockGoto, LockTypeOK
    <3> QED
      BY <1>1, <2>1, <2>12, <3>1, KeepsSafe DEF Finish
  <2>13. ASSUME NEW w \in Workers, Release(w) PROVE Safe'
    <3>1. \A v \in Holders : v = w
      BY <1>1, <2>1, <2>13 DEF Safe, ExclusiveWithinLease, Release, Holders
    <3>2. Holders' = {}
      BY <1>1, <2>13, <3>1 DEF Release, LockStop, LockGoto, Holders, LockTypeOK
    <3> QED
      BY <3>2, NobodyIsSafe
  <2>14. ASSUME NEW w \in Workers, LockCrash(w) PROVE Safe'
    BY <2>3, <2>14 DEF LockCrash
  <2>15. CASE LockCleanup
    <3>1. Holders = {} /\ Holders' = Holders
      BY <2>2, <2>15 DEF LockCleanup, Holders
    <3> QED
      BY <3>1, NobodyIsSafe
  <2>16. CASE LockTick
    <3>1. UNCHANGED <<rec, pc, at, id>> /\ Holders' = Holders
      BY <2>16 DEF LockTick, Holders
    <3> QED
      BY <1>1, <2>1, <3>1, KeepsSafe
  <2>17. CASE UNCHANGED lockVars
    <3>1. UNCHANGED <<rec, pc, at, id>> /\ Holders' = Holders
      BY <2>17 DEF lockVars, Holders
    <3> QED
      BY <1>1, <2>1, <3>1, KeepsSafe
  <2> QED
    BY <2>5, <2>6, <2>7, <2>8, <2>9, <2>10, <2>11, <2>12, <2>13, <2>14, <2>15, <2>16, <2>17
       DEF LockNext, LockClaim, LockRun
<1> QED
  BY <1>2, <1>3

-----------------------------------------------------------------------------

\* The invariant holds in every reachable state.
THEOREM LockInvariance == LockSpec => []LockInv
<1>1. LockInv /\ [LockNext]_lockVars => LockInv'
  <2> SUFFICES ASSUME LockInv, [LockNext]_lockVars PROVE LockInv'
    OBVIOUS
  <2>1. LockTypeOK'
    BY NextLockTypeOK DEF LockInv
  <2>2. LockLocalInv'
    BY NextLockLocalInv DEF LockInv
  <2>3. Safe'
    BY <2>1, NextSafe
  <2> QED
    BY <2>1, <2>2, <2>3 DEF LockInv, Safe
<1> QED
  BY <1>1, InitLockInv, PTL DEF LockSpec

\* Every variable keeps its type.
THEOREM LockTypeCorrect == LockSpec => []LockTypeOK
<1>1. LockInv => LockTypeOK
  BY DEF LockInv
<1> QED
  BY <1>1, LockInvariance, PTL

\* However many requests contend for the lock, crash, lose answers or renew it
\* too late, two operations run at once only after one has outlived its lease.
THEOREM Exclusion == LockSpec => []ExclusiveWithinLease
<1>1. LockInv => ExclusiveWithinLease
  BY DEF LockInv
<1> QED
  BY <1>1, LockInvariance, PTL

-----------------------------------------------------------------------------
(* CreatorKeepsLock. *)

\* What faults cost the creator of the row, and that its lease covers them.
LEMMA Cost ==
  ASSUME faults \in Nat
  PROVE  /\ faults * Renewal \in Nat
         /\ UNCHANGED faults => faults' * Renewal = faults * Renewal
         /\ Fault => faults' * Renewal = faults * Renewal + Renewal
         /\ RenewalsFit /\ faults <= MaxFaults => MaxDelay + faults * Renewal + Renewal < Lease
<1>1. faults * Renewal \in Nat
  OBVIOUS
<1>2. \A m \in Nat : (m + 1) * Renewal = m * Renewal + Renewal
  OBVIOUS
<1>3. Fault => faults' * Renewal = faults * Renewal + Renewal
  BY <1>2 DEF Fault
<1>4. ASSUME RenewalsFit, faults <= MaxFaults
      PROVE  MaxDelay + faults * Renewal + Renewal < Lease
  <2>1. PICK d \in Nat : MaxFaults = faults + d
    <3>1. MaxFaults - faults \in Nat /\ MaxFaults = faults + (MaxFaults - faults)
      BY <1>4
    <3> QED
      BY <3>1
  <2>2. (faults + d) * Renewal = faults * Renewal + d * Renewal /\ d * Renewal \in Nat
    OBVIOUS
  <2>3. (MaxFaults + 1) * Renewal = faults * Renewal + d * Renewal + Renewal
    BY <1>2, <2>1, <2>2
  <2> QED
    BY <1>1, <1>4, <2>2, <2>3 DEF RenewalsFit
<1> QED
  BY <1>1, <1>3, <1>4

\* Readings of the clock are past, and what is due has been done.
LEMMA NextDueInv == ASSUME LockTypeOK, DueInv, LockTypeOK', [LockNext]_lockVars PROVE DueInv'
<1> USE DEF local
<1>0. /\ clock \in Nat /\ at \in [Workers -> Nat] /\ pc \in [Workers -> LockStep]
      /\ ticked \in [Workers -> Nat] /\ id \in [Workers -> Nat] /\ rec.id \in Nat
      /\ renewing \in [Workers -> BOOLEAN] /\ faults \in Nat /\ rec \in Rows
  BY DEF LockTypeOK, Rows
<1>1. ASSUME NEW w \in Workers, LockStop(w), UNCHANGED clock, rec'.id >= rec.id, rec'.id \in Nat,
             UNCHANGED faults \/ Fault
      PROVE  DueInv'
  BY <1>0, <1>1 DEF DueInv, LockStop, LockGoto, Fault
<1>2. ASSUME NEW w \in Workers, pc[w] \in {"create", "reclaim"}, Hold(w), UNCHANGED <<clock, faults>>,
             rec'.id \in Nat, rec'.id >= rec.id, id' \in [Workers -> Nat], id'[w] <= rec'.id,
             \A v \in Workers \ {w} : id'[v] = id[v]
      PROVE  DueInv'
  BY <1>0, <1>2 DEF DueInv, Hold, LockGoto
<1>3. rec'.id \in Nat
  BY DEF LockTypeOK, Rows
<1>4. \A w \in Workers, p \in Prints : Acquire(w, p) => DueInv'
  BY <1>0 DEF DueInv, Acquire, LockGoto
<1>5. ASSUME NEW w \in Workers, InsertRow(w) PROVE DueInv'
  <2>1. rec'.id = rec.id + 1
    BY <1>0, <1>5, RowIds DEF InsertRow
  <2>2. CASE Hold(w) /\ id' = [id EXCEPT ![w] = rec.id + 1] /\ UNCHANGED faults
    BY <1>0, <1>2, <1>5, <2>1, <2>2 DEF InsertRow
  <2> QED
    BY <1>0, <1>1, <1>5, <2>1, <2>2 DEF InsertRow
<1>6. ASSUME NEW w \in Workers, RowExists(w) PROVE DueInv'
  BY <1>0, <1>6 DEF DueInv, RowExists, LockGoto
<1>7. ASSUME NEW w \in Workers, ReadRow(w) PROVE DueInv'
  <2>1. CASE LockStop(w)
    BY <1>0, <1>1, <1>7, <2>1 DEF ReadRow
  <2>2. CASE ~LockStop(w)
    BY <1>0, <1>7, <2>2 DEF DueInv, ReadRow, LockGoto
  <2> QED
    BY <2>1, <2>2
<1>8. ASSUME NEW w \in Workers, ReclaimRow(w) PROVE DueInv'
  <2>1. rec'.id = rec.id
    BY <1>0, <1>8, RowIds DEF ReclaimRow
  <2>2. CASE LockStop(w)
    BY <1>0, <1>1, <1>8, <2>1, <2>2 DEF ReclaimRow
  <2>3. CASE Hold(w) /\ UNCHANGED <<id, faults>>
    <3>1. id'[w] <= rec'.id
      BY <2>1, <2>3 DEF DueInv
    <3> QED
      BY <1>0, <1>2, <1>8, <2>1, <2>3, <3>1 DEF ReclaimRow
  <2> QED
    BY <1>8, <2>2, <2>3 DEF ReclaimRow
<1>9. ASSUME NEW w \in Workers, LockStoreFails(w) PROVE DueInv'
  BY <1>0, <1>1, <1>9 DEF LockStoreFails
<1>10. ASSUME NEW w \in Workers, Renew(w) PROVE DueInv'
  <2>1. rec'.id = rec.id
    BY <1>0, <1>10 DEF Renew, ExtendProcessingLock, Rows
  <2>2. faults' <= MaxFaults
    BY <1>0, <1>10 DEF DueInv, Renew, Fault
  <2>3. \A v \in Workers : ticked'[v] \in {ticked[v], clock} /\ (renewing'[v] => renewing[v])
    BY <1>0, <1>10 DEF Renew
  <2>4. UNCHANGED <<clock, pc, at, id>>
    BY <1>10 DEF Renew
  <2> QED
    BY <1>0, <2>1, <2>2, <2>3, <2>4 DEF DueInv
<1>11. ASSUME NEW w \in Workers, Finish(w) PROVE DueInv'
  BY <1>0, <1>11 DEF DueInv, Finish, LockGoto
<1>12. ASSUME NEW w \in Workers, Release(w) PROVE DueInv'
  <2>1. rec'.id = rec.id
    BY <1>0, <1>12, RowIds DEF Release
  <2> QED
    BY <1>0, <1>1, <1>12, <2>1 DEF Release
<1>13. ASSUME NEW w \in Workers, LockCrash(w) PROVE DueInv'
  BY <1>0, <1>1, <1>13 DEF LockCrash
<1>14. CASE LockCleanup
  <2>1. rec'.id = rec.id
    BY <1>0, <1>14, RowIds DEF LockCleanup
  <2> QED
    BY <1>14, <2>1 DEF DueInv, LockCleanup
<1>15. CASE LockTick
  BY <1>0, <1>15 DEF DueInv, LockTick, LockInTime
<1>16. CASE UNCHANGED lockVars
  BY <1>16 DEF DueInv, lockVars
<1> QED
  BY <1>4, <1>5, <1>6, <1>7, <1>8, <1>9, <1>10, <1>11, <1>12, <1>13, <1>14, <1>15, <1>16
     DEF LockNext, LockClaim, LockRun

\* A creator that runs has its row to itself, however late a renewal is.
LEMMA CreatorIsSafe ==
  ASSUME RenewalsFit, KeeperInv, NEW w \in Workers, created[w], pc[w] = "running"
  PROVE  /\ rec.status = "processing" /\ rec.id = id[w] /\ ~DeleteExpired
         /\ \A v \in Workers : ~Reclaimable(id[v], from[v], at[v])
         /\ \A v \in Workers : pc[v] = "release" => ~IsRow(id[v])
<1>1. /\ renewing[w] /\ rec.status = "processing" /\ rec.id = id[w]
      /\ rec.until + MaxDelay + faults * Renewal >= ticked[w] + Lease
      /\ rec.expires >= rec.until
      /\ \A v \in Holders : id[v] = id[w] => v = w
  BY DEF KeeperInv, CreatorInv, Extendable, IsRow
<1>2. /\ clock \in Nat /\ rec.until \in Nat /\ rec.expires \in Nat /\ faults \in Nat
      /\ at \in [Workers -> Nat] /\ ticked[w] \in Nat /\ MaxDelay \in Nat
  BY DEF KeeperInv, LockTypeOK, Rows
<1>3. clock <= ticked[w] + Renewal /\ faults <= MaxFaults /\ \A v \in Workers : at[v] <= clock
  BY <1>1 DEF KeeperInv, DueInv
<1>4. faults * Renewal \in Nat /\ MaxDelay + faults * Renewal + Renewal < Lease
  BY <1>2, <1>3, Cost
<1>5. rec.until > clock
  BY <1>1, <1>2, <1>3, <1>4
<1>6. rec.expires > clock /\ \A v \in Workers : rec.until > at[v]
  BY <1>1, <1>2, <1>3, <1>5
<1>7. ~DeleteExpired
  BY <1>2, <1>6 DEF DeleteExpired
<1>8. \A v \in Workers : ~Reclaimable(id[v], from[v], at[v])
  BY <1>2, <1>6 DEF Reclaimable
<1>9. \A v \in Workers : pc[v] = "release" => ~IsRow(id[v])
  BY <1>1 DEF Holders, IsRow
<1> QED
  BY <1>1, <1>7, <1>8, <1>9

\* A step of one worker that leaves the row alone takes nothing from a creator,
LEMMA KeepsCreators ==
  ASSUME LockTypeOK, CreatorInv, NEW v \in Workers, UNCHANGED rec, UNCHANGED faults \/ Fault,
         \A w \in Workers \ {v} :
           /\ pc'[w] = pc[w] /\ created'[w] = created[w] /\ id'[w] = id[w]
           /\ op'[w] = op[w] /\ renewing'[w] = renewing[w] /\ ticked'[w] = ticked[w],
         created'[v] => pc'[v] = "release",
         v \in Holders' => v \in Holders /\ id'[v] = id[v]
  PROVE  CreatorInv'
<1>1. ASSUME NEW w \in Workers, created'[w], pc'[w] = "running"
      PROVE  /\ renewing'[w] /\ Extendable(id[w], op[w])'
             /\ rec'.until + MaxDelay + faults' * Renewal >= ticked'[w] + Lease
             /\ rec'.expires >= rec'.until
             /\ \A u \in Holders' : id'[u] = id'[w] => u = w
  <2>1. /\ w # v /\ created[w] /\ pc[w] = "running"
        /\ id'[w] = id[w] /\ op'[w] = op[w] /\ renewing'[w] = renewing[w] /\ ticked'[w] = ticked[w]
    BY <1>1
  <2>2. /\ renewing[w] /\ Extendable(id[w], op[w])
        /\ rec.until + MaxDelay + faults * Renewal >= ticked[w] + Lease
        /\ rec.expires >= rec.until
        /\ \A u \in Holders : id[u] = id[w] => u = w
    BY <2>1 DEF CreatorInv
  <2>3. rec'.until + MaxDelay + faults' * Renewal >= ticked'[w] + Lease
    <3>1. /\ faults * Renewal \in Nat /\ rec.until \in Nat /\ ticked[w] \in Nat
          /\ faults' * Renewal = faults * Renewal \/ faults' * Renewal = faults * Renewal + Renewal
      BY Cost DEF LockTypeOK, Rows
    <3> QED
      BY <2>1, <2>2, <3>1
  <2>4. \A u \in Holders' : u \in Holders /\ id'[u] = id[u]
    BY DEF Holders
  <2> QED
    BY <2>1, <2>2, <2>3, <2>4 DEF Extendable, IsRow
<1> QED
  BY <1>1 DEF CreatorInv

\* and any step takes nothing when no creator runs, before it or after.
LEMMA NoCreators ==
  ASSUME CreatorInv, NEW v \in Workers,
         \A w \in Workers : created[w] => pc[w] # "running",
         \A w \in Workers \ {v} : pc'[w] = pc[w] /\ created'[w] = created[w],
         created'[v] => created[v] /\ pc'[v] = pc[v]
  PROVE  CreatorInv'
  BY DEF CreatorInv

\* Every step keeps what a running creator relies on.
LEMMA NextCreatorInv ==
  ASSUME RenewalsFit, KeeperInv, LockTypeOK', [LockNext]_lockVars PROVE CreatorInv'
<1> USE DEF local
<1>0. /\ clock \in Nat /\ at \in [Workers -> Nat] /\ pc \in [Workers -> LockStep]
      /\ ticked \in [Workers -> Nat] /\ id \in [Workers -> Nat] /\ rec \in Rows /\ rec.id \in Nat
      /\ renewing \in [Workers -> BOOLEAN] /\ created \in [Workers -> BOOLEAN] /\ faults \in Nat
      /\ op \in [Workers -> Prints \cup {NoPrint}]
      /\ LockTypeOK /\ DueInv /\ CreatorInv
  BY DEF KeeperInv, LockTypeOK, Rows
<1>1. ASSUME NEW w \in Workers, LockStop(w), UNCHANGED rec, UNCHANGED faults \/ Fault
      PROVE  CreatorInv'
  <2>1. w \notin Holders' /\ ~created'[w]
    BY <1>0, <1>1 DEF Holders, LockStop, LockGoto
  <2>2. \A v \in Workers \ {w} :
          /\ pc'[v] = pc[v] /\ created'[v] = created[v] /\ id'[v] = id[v]
          /\ op'[v] = op[v] /\ renewing'[v] = renewing[v] /\ ticked'[v] = ticked[v]
    BY <1>0, <1>1 DEF LockStop, LockGoto
  <2> QED
    BY <1>0, <1>1, <2>1, <2>2, KeepsCreators
<1>2. ASSUME NEW w \in Workers, LockStop(w), \A v \in Workers : created[v] => pc[v] # "running"
      PROVE  CreatorInv'
  <2>1. \A v \in Workers \ {w} : pc'[v] = pc[v] /\ created'[v] = created[v]
    BY <1>0, <1>2 DEF LockStop, LockGoto
  <2>2. ~created'[w]
    BY <1>0, <1>2 DEF LockStop
  <2> QED
    BY <1>0, <1>2, <2>1, <2>2, NoCreators
<1>3. ASSUME NEW w \in Workers, NEW p \in Prints, Acquire(w, p) PROVE CreatorInv'
  <2>1. w \notin Holders' /\ ~created'[w]
    BY <1>0, <1>3 DEF Holders, Acquire, LockGoto, CreatorInv
  <2>2. \A v \in Workers \ {w} :
          /\ pc'[v] = pc[v] /\ created'[v] = created[v] /\ id'[v] = id[v]
          /\ op'[v] = op[v] /\ renewing'[v] = renewing[v] /\ ticked'[v] = ticked[v]
    BY <1>0, <1>3 DEF Acquire, LockGoto
  <2> QED
    BY <1>0, <1>3, <2>1, <2>2, KeepsCreators DEF Acquire
<1>4. ASSUME NEW w \in Workers, InsertRow(w) PROVE CreatorInv'
  <2>1. \A v \in Workers : created[v] => pc[v] # "running"
    BY <1>4, CreatorIsSafe DEF InsertRow, CreateProcessing
  <2>2. CASE /\ Hold(w) /\ id' = [id EXCEPT ![w] = rec.id + 1]
             /\ created' = [created EXCEPT ![w] = TRUE] /\ UNCHANGED faults
    <3>1. /\ rec'.status = "processing" /\ rec'.id = rec.id + 1 /\ rec'.print = op[w]
          /\ rec'.until = at[w] + Lease /\ rec'.expires = at[w] + Retention
      BY <1>4 DEF InsertRow, CreateProcessing
    <3>2. /\ pc'[w] = "running" /\ renewing'[w] /\ ticked'[w] = clock /\ op' = op
          /\ id'[w] = rec.id + 1
          /\ \A v \in Workers \ {w} : pc'[v] = pc[v] /\ created'[v] = created[v] /\ id'[v] = id[v]
      BY <1>0, <2>2 DEF Hold, LockGoto
    <3>3. clock <= at[w] + MaxDelay /\ at[w] \in Nat /\ \A v \in Workers : id[v] <= rec.id
      BY <1>0, <1>4 DEF DueInv, InsertRow
    <3>4. rec'.until + MaxDelay + faults' * Renewal >= ticked'[w] + Lease
      <4>1. faults' * Renewal = faults * Renewal /\ faults * Renewal \in Nat
        BY <1>0, <2>2, Cost
      <4> QED
        BY <1>0, <3>1, <3>2, <3>3, <4>1
    <3>5. rec'.expires >= rec'.until
      BY <3>1, <3>3
    <3>6. \A v \in Holders' : id'[v] = id'[w] => v = w
      BY <1>0, <3>2, <3>3 DEF Holders
    <3>7. Extendable(id[w], op[w])'
      BY <3>1, <3>2 DEF Extendable, IsRow
    <3> QED
      BY <1>0, <2>1, <3>2, <3>4, <3>5, <3>6, <3>7 DEF CreatorInv
  <2>3. CASE LockStop(w)
    BY <1>2, <2>1, <2>3
  <2> QED
    BY <1>4, <2>2, <2>3 DEF InsertRow
<1>5. ASSUME NEW w \in Workers, RowExists(w) PROVE CreatorInv'
  <2>1. w \notin Holders' /\ ~created'[w]
    BY <1>0, <1>5 DEF Holders, RowExists, LockGoto, CreatorInv
  <2>2. \A v \in Workers \ {w} : pc'[v] = pc[v]
    BY <1>0, <1>5 DEF RowExists, LockGoto
  <2> QED
    BY <1>0, <1>5, <2>1, <2>2, KeepsCreators DEF RowExists
<1>6. ASSUME NEW w \in Workers, ReadRow(w) PROVE CreatorInv'
  <2>1. CASE LockStop(w)
    BY <1>1, <1>6, <2>1 DEF ReadRow
  <2>2. CASE ~LockStop(w)
    <3>1. w \notin Holders' /\ ~created'[w]
      BY <1>0, <1>6, <2>2 DEF Holders, ReadRow, LockGoto, CreatorInv
    <3>2. \A v \in Workers \ {w} : pc'[v] = pc[v] /\ id'[v] = id[v]
      BY <1>0, <1>6, <2>2 DEF ReadRow, LockGoto
    <3>3. UNCHANGED <<rec, op, created, renewing, ticked, faults>>
      BY <1>6, <2>2 DEF ReadRow
    <3> QED
      BY <1>0, <3>1, <3>2, <3>3, KeepsCreators
  <2> QED
    BY <2>1, <2>2
<1>7. ASSUME NEW w \in Workers, ReclaimRow(w) PROVE CreatorInv'
  <2>1. CASE Reclaimable(id[w], from[w], at[w])
    <3>1. \A v \in Workers : created[v] => pc[v] # "running"
      BY <2>1, CreatorIsSafe
    <3>2. CASE LockStop(w)
      BY <1>2, <3>1, <3>2
    <3>3. CASE Hold(w) /\ UNCHANGED created
      <4>1. ~created'[w] /\ \A v \in Workers \ {w} : pc'[v] = pc[v] /\ created'[v] = created[v]
        BY <1>0, <1>7, <3>3 DEF ReclaimRow, CreatorInv, Hold, LockGoto
      <4> QED
        BY <1>0, <3>1, <4>1, NoCreators
    <3> QED
      BY <1>7, <2>1, <3>2, <3>3 DEF ReclaimRow
  <2>2. CASE ~Reclaimable(id[w], from[w], at[w])
    BY <1>1, <1>7, <2>2 DEF ReclaimRow
  <2> QED
    BY <2>1, <2>2
<1>8. ASSUME NEW w \in Workers, LockStoreFails(w) PROVE CreatorInv'
  BY <1>1, <1>8 DEF LockStoreFails
<1>9. ASSUME NEW w \in Workers, Renew(w) PROVE CreatorInv'
  <2>1. /\ UNCHANGED <<clock, pc, id, op, created>> /\ Holders' = Holders
        /\ \A v \in Workers \ {w} : renewing'[v] = renewing[v] /\ ticked'[v] = ticked[v]
    BY <1>0, <1>9 DEF Renew, Holders
  <2>2. SUFFICES ASSUME NEW v \in Workers, created[v], pc[v] = "running"
                 PROVE  /\ renewing'[v] /\ Extendable(id[v], op[v])'
                        /\ rec'.until + MaxDelay + faults' * Renewal >= ticked'[v] + Lease
                        /\ rec'.expires >= rec'.until
                        /\ \A u \in Holders : id[u] = id[v] => u = v
    BY <1>0, <2>1 DEF CreatorInv
  <2>3. /\ renewing[v] /\ Extendable(id[v], op[v])
        /\ rec.until + MaxDelay + faults * Renewal >= ticked[v] + Lease
        /\ rec.expires >= rec.until
        /\ \A u \in Holders : id[u] = id[v] => u = v
    BY <1>0, <2>2 DEF CreatorInv
  <2>4. /\ faults * Renewal \in Nat /\ rec.until \in Nat /\ ticked[v] \in Nat /\ ticked[w] \in Nat
        /\ ticked[v] <= clock /\ (renewing[w] => clock <= ticked[w] + Renewal)
    BY <1>0, Cost DEF Rows, DueInv
  <2>5. CASE ExtendProcessingLock /\ ticked' = [ticked EXCEPT ![w] = clock]
             /\ UNCHANGED <<renewing, faults>>
    <3>1. /\ rec'.status = rec.status /\ rec'.id = rec.id /\ rec'.print = rec.print
          /\ rec'.until = clock + Lease /\ rec'.expires = clock + Retention
      BY <1>0, <2>5 DEF ExtendProcessingLock, Rows
    <3>2. ticked'[v] <= clock /\ ticked'[v] \in Nat
      BY <1>0, <2>4, <2>5
    <3>3. faults' * Renewal = faults * Renewal
      BY <2>5
    <3>4. rec'.until + MaxDelay + faults' * Renewal >= ticked'[v] + Lease
      BY <1>0, <2>4, <3>1, <3>2, <3>3
    <3>5. rec'.expires >= rec'.until
      BY <1>0, <3>1
    <3> QED
      BY <2>1, <2>3, <2>5, <3>1, <3>4, <3>5 DEF Extendable, IsRow
  <2>6. CASE Fault /\ ticked' = [ticked EXCEPT ![w] = clock] /\ UNCHANGED <<rec, renewing>>
    <3>1. faults' * Renewal = faults * Renewal + Renewal
      BY <1>0, <2>6, Cost
    <3>2. ticked'[v] <= ticked[v] + Renewal /\ ticked'[v] \in Nat
      BY <1>0, <1>9, <2>4, <2>6 DEF Renew
    <3>3. rec'.until + MaxDelay + faults' * Renewal >= ticked'[v] + Lease
      BY <2>3, <2>4, <2>6, <3>1, <3>2
    <3> QED
      BY <2>1, <2>3, <2>6, <3>3 DEF Extendable, IsRow
  <2>7. CASE ~Extendable(id[w], op[w]) /\ UNCHANGED <<rec, ticked, faults>>
    <3>1. w # v
      BY <2>3, <2>7
    <3> QED
      BY <2>1, <2>3, <2>7, <3>1 DEF Extendable, IsRow
  <2> QED
    BY <1>9, <2>5, <2>6, <2>7 DEF Renew
<1>10. ASSUME NEW w \in Workers, Finish(w) PROVE CreatorInv'
  <2>1. w \in Holders /\ pc'[w] = "release"
    BY <1>0, <1>10 DEF Holders, Finish, LockGoto
  <2>2. \A v \in Workers \ {w} :
          pc'[v] = pc[v] /\ renewing'[v] = renewing[v] /\ ticked'[v] = ticked[v]
    BY <1>0, <1>10 DEF Finish, LockGoto
  <2>3. UNCHANGED <<rec, id, op, created, faults>>
    BY <1>10 DEF Finish
  <2> QED
    BY <1>0, <2>1, <2>2, <2>3, KeepsCreators
<1>11. ASSUME NEW w \in Workers, Release(w) PROVE CreatorInv'
  <2>1. LockStop(w) /\ pc[w] = "release" /\ (UNCHANGED faults \/ Fault)
    BY <1>11 DEF Release
  <2>2. CASE \A v \in Workers : created[v] => pc[v] # "running"
    BY <1>2, <2>1, <2>2
  <2>3. CASE ~\A v \in Workers : created[v] => pc[v] # "running"
    <3>1. ~IsRow(id[w])
      BY <2>1, <2>3, CreatorIsSafe
    <3>2. UNCHANGED rec
      BY <1>11, <3>1 DEF Release, MarkSucceeded, MarkFailedRetryable
    <3> QED
      BY <1>1, <2>1, <3>2
  <2> QED
    BY <2>2, <2>3
<1>12. ASSUME NEW w \in Workers, LockCrash(w) PROVE CreatorInv'
  BY <1>1, <1>12 DEF LockCrash
<1>13. CASE LockCleanup
  <2>1. \A v \in Workers : created[v] => pc[v] # "running"
    BY <1>13, CreatorIsSafe DEF LockCleanup
  <2> QED
    BY <1>0, <1>13, <2>1 DEF CreatorInv, LockCleanup
<1>14. CASE LockTick
  BY <1>0, <1>14 DEF CreatorInv, LockTick, Extendable, IsRow, Holders
<1>15. CASE UNCHANGED lockVars
  BY <1>0, <1>15 DEF CreatorInv, lockVars, Extendable, IsRow, Holders
<1> QED
  BY <1>3, <1>4, <1>5, <1>6, <1>7, <1>8, <1>9, <1>10, <1>11, <1>12, <1>13, <1>14, <1>15
     DEF LockNext, LockClaim, LockRun

\* Nobody else gets the lock a running creator has.
LEMMA CreatorStep ==
  ASSUME RenewalsFit, KeeperInv, [LockNext]_lockVars,
         NEW w \in Workers, created[w], pc[w] = "running",
         NEW v \in Workers, pc[v] # "running", pc'[v] = "running"
  PROVE  v = w
<1> USE DEF local
<1>0. pc \in [Workers -> LockStep]
  BY DEF KeeperInv, LockTypeOK
<1>1. /\ rec.status # "none"
      /\ \A u \in Workers : ~Reclaimable(id[u], from[u], at[u])
  BY CreatorIsSafe
<1>2. ASSUME NEW u \in Workers, LockStop(u) PROVE FALSE
  BY <1>0, <1>2 DEF LockStop, LockGoto
<1>3. \A u \in Workers : ~InsertRow(u) /\ ~ReclaimRow(u)
  BY <1>1, <1>2 DEF InsertRow, CreateProcessing, ReclaimRow
<1>4. ASSUME NEW u \in Workers, NEW s \in LockStep \ {"running"}, LockGoto(u, s) PROVE FALSE
  BY <1>0, <1>4 DEF LockGoto
<1>5. \A u \in Workers : ~Finish(u) /\ ~RowExists(u) /\ ~ReadRow(u)
                         /\ \A p \in Prints : ~Acquire(u, p)
  BY <1>2, <1>4 DEF Finish, RowExists, ReadRow, Acquire, LockStep
<1>6. \A u \in Workers : ~LockStoreFails(u) /\ ~Release(u) /\ ~LockCrash(u)
  BY <1>2 DEF LockStoreFails, Release, LockCrash
<1>7. \A u \in Workers : ~Renew(u)
  BY DEF Renew
<1> QED
  BY <1>3, <1>5, <1>6, <1>7 DEF LockNext, LockClaim, LockRun, LockCleanup, LockTick, lockVars

\* An operation that inserted the row keeps the lock while it runs, provided the
\* lease outlasts as many failing renewals as there are faults (renewLoop,
\* ExtendProcessingLock, TryReclaim, DeleteExpired).
THEOREM CreatorKeeps == RenewalsFit /\ LockSpec => CreatorKeepsLock
<1>1. LockInit => KeeperInv
  <2> SUFFICES ASSUME LockInit PROVE KeeperInv
    OBVIOUS
  <2>1. LockTypeOK
    BY InitLockInv DEF LockInv
  <2>2. DueInv /\ CreatorInv
    BY TimesAssumption DEF LockInit, NoRow, DueInv, CreatorInv
  <2> QED
    BY <2>1, <2>2 DEF KeeperInv
<1>2. RenewalsFit /\ KeeperInv /\ [LockNext]_lockVars => KeeperInv'
  <2> SUFFICES ASSUME RenewalsFit, KeeperInv, [LockNext]_lockVars PROVE KeeperInv'
    OBVIOUS
  <2>1. LockTypeOK'
    BY NextLockTypeOK DEF KeeperInv
  <2>2. DueInv' /\ CreatorInv'
    BY <2>1, NextDueInv, NextCreatorInv DEF KeeperInv
  <2> QED
    BY <2>1, <2>2 DEF KeeperInv
<1>3. ASSUME RenewalsFit, KeeperInv, [LockNext]_lockVars
      PROVE  [\A v, w \in Workers :
                created[w] /\ pc[w] = "running" /\ created'[w]
                  /\ pc[v] # "running" /\ pc'[v] = "running" => v = w]_lockVars
  BY <1>3, CreatorStep
<1>4. (RenewalsFit)' <=> RenewalsFit
  BY DEF RenewalsFit
<1> QED
  BY <1>1, <1>2, <1>3, <1>4, PTL DEF LockSpec, CreatorKeepsLock
================================================================================
