-------------------------- MODULE BatchImage_proofs --------------------------
(***************************************************************************)
(* What is proved of a batch image job.  A finished job stays finished,    *)
(* whatever fails.  As long as no worker goes on without its lock, and     *)
(* fewer faults meet a job than it has attempts to settle, a job is        *)
(* charged exactly when it completes, and the money adds up.               *)
(***************************************************************************)
EXTENDS BatchImage, FiniteSetTheorems, TLAPS

USE DEF row, ledger, others, worker

-----------------------------------------------------------------------------
(* Types. *)

LEMMA Numbers ==
  /\ Hold \in Nat /\ Hold > 0 /\ MaxRetries \in Nat /\ MaxRetries > 0 /\ MaxFaults \in Nat
  /\ Others \in Nat /\ Funds \in Nat
  BY MoneyAssumption, LimitsAssumption

\* The job's row.
RowOK ==
  /\ status \in [Jobs -> Status]
  /\ named \in [Jobs -> BOOLEAN] /\ hidden \in [Jobs -> BOOLEAN]
  /\ retry \in [Jobs -> 0..MaxRetries]
  /\ cost \in [Jobs -> Costs]

\* What else is known of the job.
SideOK ==
  /\ inflight \in [Jobs -> BOOLEAN]
  /\ upstream \in [Jobs -> Upstream]
  /\ dropped \in [Jobs -> BOOLEAN]
  /\ faults \in Nat

\* Who is busy with it.
StepOK ==
  /\ sub \in [Jobs -> SubmitStep]
  /\ can \in [Jobs -> CancelStep]
  /\ rec \in [Jobs -> RecoverStep]
  /\ pc \in [Workers -> WorkStep]
  /\ job \in [Workers -> Jobs]

LEMMA Parts == TypeOK <=> LedgerTypeOK /\ RowOK /\ SideOK /\ StepOK
  BY DEF TypeOK, RowOK, SideOK, StepOK

LEMMA PartsNext == ASSUME LedgerTypeOK', RowOK', SideOK', StepOK' PROVE TypeOK'
  BY DEF TypeOK, RowOK, SideOK, StepOK

LEMMA FaultType == ASSUME TypeOK, UNCHANGED faults \/ Fault PROVE faults' \in Nat /\ faults' >= faults
  BY DEF TypeOK, Fault

LEMMA MoveTypes ==
  ASSUME LedgerTypeOK, NEW j \in Jobs, NEW m \in Movement, NEW db \in Int, NEW df \in Int,
         Move(j, m, db, df)
  PROVE  /\ balance' \in Int /\ frozen' \in Int
         /\ moved' \in [Jobs -> SUBSET Movement]
         /\ moved'[j] = moved[j] \cup {m} /\ \A i \in Jobs \ {j} : moved'[i] = moved[i]
  BY DEF LedgerTypeOK, Move

LEMMA ClaimTypes ==
  ASSUME LedgerTypeOK, NEW j \in Jobs, NEW m \in Movement, Claim(j, m)
  PROVE  /\ claims' \in [Jobs -> SUBSET Movement]
         /\ claims'[j] = claims[j] \cup {m} /\ \A i \in Jobs \ {j} : claims'[i] = claims[i]
  BY DEF LedgerTypeOK, Claim

\* The three movements.  Each either changes nothing, as its id is claimed
\* already, or claims its id and moves the money of this job alone.
Untouched(j) == \A i \in Jobs \ {j} : claims'[i] = claims[i] /\ moved'[i] = moved[i]

LEMMA ReserveEffect ==
  ASSUME LedgerTypeOK, NEW j \in Jobs, Reserve(j)
  PROVE  /\ LedgerTypeOK' /\ Untouched(j)
         /\ \/ Claimed(j, "hold") /\ UNCHANGED <<balance, frozen, claims, moved>>
            \/ /\ ~Claimed(j, "hold")
               /\ claims'[j] = claims[j] \cup {"hold"} /\ moved'[j] = moved[j] \cup {"hold"}
               /\ balance' = balance - Hold /\ frozen' = frozen + Hold
<1>1. CASE Claimed(j, "hold")
  BY <1>1 DEF Reserve, LedgerTypeOK, Untouched
<1>2. CASE ~Claimed(j, "hold")
  <2>1. Claim(j, "hold") /\ Move(j, "hold", -Hold, Hold)
    BY <1>2 DEF Reserve
  <2>2. balance' = balance - Hold /\ frozen' = frozen + Hold
    BY <2>1, Numbers DEF Move, LedgerTypeOK
  <2> QED
    BY <1>2, <2>1, <2>2, MoveTypes, ClaimTypes, Numbers DEF LedgerTypeOK, Movement, Untouched
<1> QED
  BY <1>1, <1>2

LEMMA CaptureEffect ==
  ASSUME LedgerTypeOK, NEW j \in Jobs, NEW c \in Costs, Capture(j, c)
  PROVE  /\ LedgerTypeOK' /\ Untouched(j)
         /\ \/ Claimed(j, "capture") /\ UNCHANGED <<balance, frozen, claims, moved>>
            \/ /\ ~Claimed(j, "capture") /\ c <= Hold
               /\ claims'[j] = claims[j] \cup {"capture"} /\ moved'[j] = moved[j] \cup {"capture"}
               /\ balance' = balance + Hold - c /\ frozen' = frozen - Hold
<1>1. CASE Claimed(j, "capture")
  BY <1>1 DEF Capture, LedgerTypeOK, Untouched
<1>2. CASE ~Claimed(j, "capture")
  <2>0. c \in Nat
    BY Numbers DEF Costs
  <2>1. c <= Hold /\ Claim(j, "capture") /\ Move(j, "capture", Hold - c, -Hold)
    BY <1>2 DEF Capture
  <2>2. balance' = balance + Hold - c /\ frozen' = frozen - Hold
    BY <2>0, <2>1, Numbers DEF Move, LedgerTypeOK
  <2>3. Hold - c \in Int /\ -Hold \in Int
    BY <2>0, Numbers
  <2> QED
    BY <1>2, <2>1, <2>2, <2>3, MoveTypes, ClaimTypes DEF LedgerTypeOK, Movement, Untouched
<1> QED
  BY <1>1, <1>2

LEMMA ReleaseEffect ==
  ASSUME LedgerTypeOK, NEW j \in Jobs, Release(j)
  PROVE  /\ LedgerTypeOK' /\ Untouched(j)
         /\ \/ Claimed(j, "release") /\ UNCHANGED <<balance, frozen, claims, moved>>
            \/ /\ ~Claimed(j, "release") /\ claims'[j] = claims[j] \cup {"release"}
               /\ \/ /\ Claimed(j, "hold") /\ moved'[j] = moved[j] \cup {"release"}
                     /\ balance' = balance + Hold /\ frozen' = frozen - Hold
                  \/ ~Claimed(j, "hold") /\ moved'[j] = moved[j] /\ UNCHANGED <<balance, frozen>>
<1>1. CASE Claimed(j, "release")
  BY <1>1 DEF Release, LedgerTypeOK, Untouched
<1>2. CASE ~Claimed(j, "release") /\ Claimed(j, "hold")
  <2>1. Claim(j, "release") /\ Move(j, "release", Hold, -Hold)
    BY <1>2 DEF Release
  <2>2. balance' = balance + Hold /\ frozen' = frozen - Hold
    BY <2>1, Numbers DEF Move, LedgerTypeOK
  <2> QED
    BY <1>2, <2>1, <2>2, MoveTypes, ClaimTypes, Numbers DEF LedgerTypeOK, Movement, Untouched
<1>3. CASE ~Claimed(j, "release") /\ ~Claimed(j, "hold")
  <2>1. Claim(j, "release") /\ UNCHANGED balance /\ UNCHANGED frozen /\ UNCHANGED moved
    BY <1>3 DEF Release
  <2> QED
    BY <1>3, <2>1, ClaimTypes DEF LedgerTypeOK, Movement, Untouched
<1> QED
  BY <1>1, <1>2, <1>3

LEMMA StatusTypes ==
  ASSUME status \in [Jobs -> Status], NEW j \in Jobs, NEW s \in Status, SetStatus(j, s)
  PROVE  /\ status' \in [Jobs -> Status] /\ status'[j] = s
         /\ \A i \in Jobs \ {j} : status'[i] = status[i]
  BY DEF SetStatus

\* The request: what it does to the row and to itself.
LEMMA RequestTypes ==
  ASSUME TypeOK, NEW j \in Jobs, SubmitNext(j) \/ SubmitAgain(j) \/ SubmitDies(j)
  PROVE  RowOK' /\ SideOK' /\ StepOK'
<1>1. UNCHANGED faults \/ Fault
  BY DEF SubmitNext, SubmitAgain, SubmitDies, Create, ReserveHold, CreateItems, StartUpload, SubmitUpstream,
     RecordSubmitted, EnqueueSubmitted, AbortOrphan, UndoHold, FailSubmit, EnqueueUndo,
     ReleaseSucceeds, ReleaseFails, Fails
<1>2. UNCHANGED <<retry, cost, can, rec, pc, job>>
  BY DEF SubmitNext, SubmitAgain, SubmitDies, Create, ReserveHold, CreateItems, StartUpload, SubmitUpstream,
     RecordSubmitted, EnqueueSubmitted, AbortOrphan, UndoHold, FailSubmit, EnqueueUndo
<1>3. \E s \in SubmitStep : SubmitTo(j, s)
  BY DEF SubmitNext, SubmitAgain, SubmitDies, Create, ReserveHold, CreateItems, StartUpload, SubmitUpstream,
     RecordSubmitted, EnqueueSubmitted, AbortOrphan, UndoHold, FailSubmit, EnqueueUndo, SubmitStep
<1>4. UNCHANGED inflight \/ Enqueue(j)
  BY DEF SubmitNext, SubmitAgain, SubmitDies, Create, ReserveHold, CreateItems, StartUpload, SubmitUpstream,
     RecordSubmitted, EnqueueSubmitted, AbortOrphan, UndoHold, FailSubmit, EnqueueUndo, Fails
<1>5. UNCHANGED dropped \/ Drop(j)
  BY DEF SubmitNext, SubmitAgain, SubmitDies, Create, ReserveHold, CreateItems, StartUpload, SubmitUpstream,
     RecordSubmitted, EnqueueSubmitted, AbortOrphan, UndoHold, FailSubmit, EnqueueUndo
<1>6. \/ UNCHANGED upstream
      \/ upstream' = [upstream EXCEPT ![j] = "live"]
      \/ upstream' = [upstream EXCEPT ![j] = IF @ = "live" THEN "cancelled" ELSE @]
  BY DEF SubmitNext, SubmitAgain, SubmitDies, Create, ReserveHold, CreateItems, StartUpload, SubmitUpstream,
     RecordSubmitted, EnqueueSubmitted, AbortOrphan, UndoHold, FailSubmit, EnqueueUndo, Fails
<1>7. UNCHANGED status \/ \E s \in {"created", "uploading", "submitted", "failed"} : SetStatus(j, s)
  BY DEF SubmitNext, SubmitAgain, SubmitDies, Create, ReserveHold, CreateItems, StartUpload, SubmitUpstream,
     RecordSubmitted, EnqueueSubmitted, AbortOrphan, UndoHold, FailSubmit, EnqueueUndo, Fails
<1>8. UNCHANGED named \/ named' = [named EXCEPT ![j] = TRUE]
  BY DEF SubmitNext, SubmitAgain, SubmitDies, Create, ReserveHold, CreateItems, StartUpload, SubmitUpstream,
     RecordSubmitted, EnqueueSubmitted, AbortOrphan, UndoHold, FailSubmit, EnqueueUndo, Fails
<1>9. UNCHANGED hidden \/ hidden' = [hidden EXCEPT ![j] = @ \/ sub[j] = "fail"]
  BY DEF SubmitNext, SubmitAgain, SubmitDies, Create, ReserveHold, CreateItems, StartUpload, SubmitUpstream,
     RecordSubmitted, EnqueueSubmitted, AbortOrphan, UndoHold, FailSubmit, EnqueueUndo, Fails
<1>p. RowOK /\ SideOK /\ StepOK
  BY Parts
<1>10. RowOK'
  <2>1. status' \in [Jobs -> Status]
    <3>1. {"created", "uploading", "submitted", "failed"} \subseteq Status
      BY DEF Status, Terminal
    <3>2. UNCHANGED status \/ \E s \in Status : SetStatus(j, s)
      BY <1>7, <3>1
    <3> QED
      BY <1>p, <3>2, StatusTypes DEF RowOK
  <2>2. named' \in [Jobs -> BOOLEAN]
    BY <1>8, <1>p DEF RowOK
  <2>3. hidden' \in [Jobs -> BOOLEAN]
    BY <1>9, <1>p DEF RowOK
  <2> QED
    BY <1>2, <1>p, <2>1, <2>2, <2>3 DEF RowOK
<1>11. SideOK'
  <2>1. inflight' \in [Jobs -> BOOLEAN]
    BY <1>4, <1>p DEF SideOK, Enqueue
  <2>2. dropped' \in [Jobs -> BOOLEAN]
    BY <1>5, <1>p DEF SideOK, Drop
  <2>3. upstream' \in [Jobs -> Upstream]
    BY <1>6, <1>p DEF SideOK, Upstream
  <2> QED
    BY <1>1, <2>1, <2>2, <2>3, FaultType DEF SideOK
<1>12. StepOK'
  BY <1>2, <1>3, <1>p DEF StepOK, SubmitTo
<1> QED
  BY <1>10, <1>11, <1>12

\* Its cancellation, its recovery, its provider, and the deletion of its output.
LEMMA SideTypes ==
  ASSUME TypeOK, NEW j \in Jobs,
         \/ ReadToCancel(j) \/ CancelNext(j) \/ CancelDies(j) \/ RecoverNext(j) \/ RecoveryDies(j)
         \/ ProviderEnds(j) \/ DeleteOutput(j)
  PROVE  RowOK' /\ SideOK' /\ StepOK'
<1>1. UNCHANGED faults \/ Fault
  BY DEF ReadToCancel, CancelNext, CancelDies, RecoverNext, RecoveryDies, ProviderEnds, DeleteOutput,
     MarkCancelled, ReleaseCancelled, EnqueueCancelled, StopUpstream, WakeWorker,
     FailStale, ReleaseStale, EnqueueStale, ReleaseSucceeds, ReleaseFails, Fails
<1>2. UNCHANGED <<named, hidden, retry, cost, sub, pc, job>>
  BY DEF ReadToCancel, CancelNext, CancelDies, RecoverNext, RecoveryDies, ProviderEnds, DeleteOutput,
     MarkCancelled, ReleaseCancelled, EnqueueCancelled, StopUpstream, WakeWorker,
     FailStale, ReleaseStale, EnqueueStale
<1>3. UNCHANGED can \/ \E s \in CancelStep : CancelTo(j, s)
  <2>1. CASE ReadToCancel(j)
    <3>1. (CASE status[j] \in {"failed", "cancelled"} -> "release"
             [] status[j] \in {"settling", "completed", "output_deleted"} -> "idle"
             [] OTHER -> IF named[j] THEN "stop" ELSE "mark") \in CancelStep
      BY DEF CancelStep
    <3> QED
      BY <2>1, <3>1 DEF ReadToCancel
  <2>2. CASE ~ReadToCancel(j)
    BY <2>2 DEF CancelNext, CancelDies, RecoverNext, RecoveryDies, ProviderEnds, DeleteOutput,
       MarkCancelled, ReleaseCancelled, EnqueueCancelled, StopUpstream, WakeWorker,
       FailStale, ReleaseStale, EnqueueStale, CancelStep
  <2> QED
    BY <2>1, <2>2
<1>4. UNCHANGED rec \/ \E s \in RecoverStep : RecoverTo(j, s)
  BY DEF ReadToCancel, CancelNext, CancelDies, RecoverNext, RecoveryDies, ProviderEnds, DeleteOutput,
     MarkCancelled, ReleaseCancelled, EnqueueCancelled, StopUpstream, WakeWorker,
     FailStale, ReleaseStale, EnqueueStale, RecoverStep
<1>5. UNCHANGED inflight \/ Enqueue(j)
  BY DEF ReadToCancel, CancelNext, CancelDies, RecoverNext, RecoveryDies, ProviderEnds, DeleteOutput,
     MarkCancelled, ReleaseCancelled, EnqueueCancelled, StopUpstream, WakeWorker,
     FailStale, ReleaseStale, EnqueueStale, Fails
<1>6. UNCHANGED dropped \/ Drop(j)
  BY DEF ReadToCancel, CancelNext, CancelDies, RecoverNext, RecoveryDies, ProviderEnds, DeleteOutput,
     MarkCancelled, ReleaseCancelled, EnqueueCancelled, StopUpstream, WakeWorker,
     FailStale, ReleaseStale, EnqueueStale
<1>7. \/ UNCHANGED upstream
      \/ \E s \in {"succeeded", "failed"} : upstream' = [upstream EXCEPT ![j] = s]
      \/ upstream' = [upstream EXCEPT ![j] = IF @ = "live" THEN "cancelled" ELSE @]
  BY DEF ReadToCancel, CancelNext, CancelDies, RecoverNext, RecoveryDies, ProviderEnds, DeleteOutput,
     MarkCancelled, ReleaseCancelled, EnqueueCancelled, StopUpstream, WakeWorker,
     FailStale, ReleaseStale, EnqueueStale, Fails
<1>8. UNCHANGED status \/ \E s \in {"cancelled", "failed", "output_deleted"} : SetStatus(j, s)
  BY DEF ReadToCancel, CancelNext, CancelDies, RecoverNext, RecoveryDies, ProviderEnds, DeleteOutput,
     MarkCancelled, ReleaseCancelled, EnqueueCancelled, StopUpstream, WakeWorker,
     FailStale, ReleaseStale, EnqueueStale, Fails
<1>p. RowOK /\ SideOK /\ StepOK
  BY Parts
<1>9. RowOK'
  <2>1. {"cancelled", "failed", "output_deleted"} \subseteq Status
    BY DEF Status, Terminal
  <2>2. UNCHANGED status \/ \E s \in Status : SetStatus(j, s)
    BY <1>8, <2>1
  <2>3. status' \in [Jobs -> Status]
    BY <1>p, <2>2, StatusTypes DEF RowOK
  <2> QED
    BY <1>2, <1>p, <2>3 DEF RowOK
<1>10. SideOK'
  <2>1. inflight' \in [Jobs -> BOOLEAN]
    BY <1>5, <1>p DEF SideOK, Enqueue
  <2>2. dropped' \in [Jobs -> BOOLEAN]
    BY <1>6, <1>p DEF SideOK, Drop
  <2>3. upstream' \in [Jobs -> Upstream]
    BY <1>7, <1>p DEF SideOK, Upstream
  <2> QED
    BY <1>1, <2>1, <2>2, <2>3, FaultType DEF SideOK
<1>11. StepOK'
  BY <1>2, <1>3, <1>4, <1>p DEF StepOK, CancelTo, RecoverTo
<1> QED
  BY <1>9, <1>10, <1>11

LEMMA GotoTypes ==
  ASSUME pc \in [Workers -> WorkStep], NEW w \in Workers, NEW s \in WorkStep, Goto(w, s)
  PROVE  /\ pc' \in [Workers -> WorkStep] /\ pc'[w] = s /\ job' = job
         /\ \A v \in Workers \ {w} : pc'[v] = pc[v]
  BY DEF Goto

\* Where a status change leads.
LEMMA TransitionEffect ==
  ASSUME TypeOK, NEW w \in Workers, Transition(w)
  PROVE  \E to \in Status, s \in WorkStep :
           /\ <<pc[w], to>> \in {<<"toRunning", "running">>, <<"toIndexing", "indexing">>,
                                <<"toSettling", "settling">>, <<"toFailed", "failed">>,
                                <<"toCancelled", "cancelled">>, <<"exFail", "failed">>}
           /\ Goto(w, s)
           /\ \/ /\ CanTransition(status[job[w]], to) /\ SetStatus(job[w], to) /\ UNCHANGED faults
                 /\ s \in {"idle", "index", "release", "check"}
                 /\ (s = "index" <=> pc[w] = "toIndexing")
                 /\ (s = "release" <=> pc[w] \in {"toFailed", "toCancelled"})
              \/ s = "idle" /\ UNCHANGED status /\ (UNCHANGED faults \/ Fault)
<1> DEFINE to == Transitions[pc[w]][1]
           s == Transitions[pc[w]][2]
<1>1. /\ pc[w] \in {"toRunning", "toIndexing", "toSettling", "toFailed", "toCancelled", "exFail"}
      /\ \/ CanTransition(status[job[w]], to) /\ SetStatus(job[w], to) /\ Goto(w, s) /\ UNCHANGED faults
         \/ Goto(w, "idle") /\ UNCHANGED status /\ (UNCHANGED faults \/ Fault)
  BY DEF Transition, Transitions, Fails
<1>2. /\ <<pc[w], to>> \in {<<"toRunning", "running">>, <<"toIndexing", "indexing">>,
                            <<"toSettling", "settling">>, <<"toFailed", "failed">>,
                            <<"toCancelled", "cancelled">>, <<"exFail", "failed">>}
      /\ s \in {"idle", "index", "release", "check"}
      /\ (s = "index" <=> pc[w] = "toIndexing")
      /\ (s = "release" <=> pc[w] \in {"toFailed", "toCancelled"})
  BY <1>1 DEF Transitions
<1>3. to \in Status /\ s \in WorkStep /\ "idle" \in WorkStep
  BY <1>2 DEF Status, Terminal, WorkStep
<1> HIDE DEF to, s
<1> QED
  BY <1>1, <1>2, <1>3

\* How a worker's other steps go on.
LEMMA WorkGoes ==
  ASSUME TypeOK, NEW w \in Workers, WorkNext(w) \/ WorkerDies(w)
  PROVE  \E s \in WorkStep : Goto(w, s)
<1>1. CASE ReadPipeline(w) \/ ReleaseTerminal(w) \/ Acknowledge(w) \/ CaptureHold(w) \/ ReleaseExhausted(w)
           \/ CheckEnded(w) \/ WorkerDies(w)
  <2>1. \/ Goto(w, "settle") \/ Goto(w, "process") \/ Goto(w, "ack") \/ Goto(w, "idle") \/ Goto(w, "settled")
        \/ Goto(w, "noteBilling") \/ Goto(w, "exFail") \/ Goto(w, "noteRelease")
    BY <1>1 DEF ReadPipeline, ReleaseTerminal, Acknowledge, CaptureHold, ReleaseExhausted, CheckEnded, WorkerDies
  <2> QED
    BY <2>1 DEF WorkStep
<1>2. CASE ReadJob(w)
  <2>1. \/ Goto(w, "release") \/ Goto(w, "ack") \/ Goto(w, "idle") \/ Goto(w, "index") \/ Goto(w, "getRunning")
        \/ Goto(w, "get")
    BY <1>2 DEF ReadJob
  <2> QED
    BY <2>1 DEF WorkStep
<1>3. CASE AskProvider(w)
  <2>1. \/ Goto(w, "toRunning") \/ Goto(w, "idle") \/ Goto(w, "toIndexing") \/ Goto(w, "toFailed")
        \/ Goto(w, "toCancelled")
    BY <1>3 DEF AskProvider
  <2> QED
    BY <2>1 DEF WorkStep
<1>4. CASE Transition(w)
  BY <1>4, TransitionEffect
<1>5. CASE IndexResults(w) \/ MarkSettled(w)
  <2>1. Goto(w, "toSettling") \/ Goto(w, "idle") \/ Goto(w, "toFailed") \/ Goto(w, "ack")
    BY <1>5 DEF IndexResults, MarkSettled
  <2> QED
    BY <2>1 DEF WorkStep
<1>6. CASE ReadSettling(w)
  <2>1. Goto(w, "ack") \/ Goto(w, "exRelease") \/ Goto(w, "noteCost") \/ Goto(w, "capture") \/ Goto(w, "idle")
    BY <1>6 DEF ReadSettling
  <2> QED
    BY <2>1 DEF WorkStep
<1>7. CASE NoteFailure(w)
  <2>1. Goto(w, "exRelease") \/ Goto(w, "idle") \/ Goto(w, "check")
    BY <1>7 DEF NoteFailure
  <2> QED
    BY <2>1 DEF WorkStep
<1> QED
  BY <1>1, <1>2, <1>3, <1>4, <1>5, <1>6, <1>7 DEF WorkNext

LEMMA WorkTypes ==
  ASSUME TypeOK, NEW w \in Workers, Take(w) \/ WorkNext(w) \/ WorkerDies(w)
  PROVE  RowOK' /\ SideOK' /\ StepOK'
<1>p. RowOK /\ SideOK /\ StepOK /\ job[w] \in Jobs
  BY Parts DEF StepOK
<1>1. UNCHANGED faults \/ Fault
  BY DEF Take, WorkNext, WorkerDies, ReadPipeline, ReadJob, AskProvider, Transition, IndexResults,
     ReleaseTerminal, Acknowledge, ReadSettling, CaptureHold, MarkSettled, NoteFailure, ReleaseExhausted,
     CheckEnded, ReleaseSucceeds, ReleaseFails, Fails
<1>2. UNCHANGED <<named, hidden, upstream, dropped, sub, can, rec>>
  BY DEF Take, WorkNext, WorkerDies, ReadPipeline, ReadJob, AskProvider, Transition, IndexResults,
     ReleaseTerminal, Acknowledge, ReadSettling, CaptureHold, MarkSettled, NoteFailure, ReleaseExhausted,
     CheckEnded
<1>3. inflight' \in [Jobs -> BOOLEAN]
  <2>1. UNCHANGED inflight \/ inflight' = [inflight EXCEPT ![job[w]] = FALSE]
    BY DEF Take, WorkNext, WorkerDies, ReadPipeline, ReadJob, AskProvider, Transition, IndexResults,
       ReleaseTerminal, Acknowledge, ReadSettling, CaptureHold, MarkSettled, NoteFailure, ReleaseExhausted,
       CheckEnded
  <2> QED
    BY <1>p, <2>1 DEF SideOK
<1>4. SideOK'
  BY <1>1, <1>2, <1>3, <1>p, FaultType DEF SideOK
<1>5. StepOK'
  <2>1. CASE Take(w)
    BY <1>2, <1>p, <2>1 DEF Take, StepOK, WorkStep
  <2>2. CASE WorkNext(w) \/ WorkerDies(w)
    BY <1>2, <1>p, <2>2, WorkGoes, GotoTypes DEF StepOK
  <2> QED
    BY <2>1, <2>2
<1>6. status' \in [Jobs -> Status]
  <2>1. CASE Transition(w)
    BY <1>p, <2>1, TransitionEffect, StatusTypes DEF RowOK
  <2>2. CASE MarkSettled(w)
    <3>1. "completed" \in Status
      BY DEF Status, Terminal
    <3> QED
      BY <1>p, <2>2, <3>1, StatusTypes DEF MarkSettled, RowOK, Fails
  <2>3. CASE UNCHANGED status
    BY <1>p, <2>3 DEF RowOK
  <2>4. Transition(w) \/ MarkSettled(w) \/ UNCHANGED status
    BY DEF Take, WorkNext, WorkerDies, ReadPipeline, ReadJob, AskProvider, IndexResults,
       ReleaseTerminal, Acknowledge, ReadSettling, CaptureHold, NoteFailure, ReleaseExhausted, CheckEnded
  <2> QED
    BY <2>1, <2>2, <2>3, <2>4
<1>7. retry' \in [Jobs -> 0..MaxRetries] /\ cost' \in [Jobs -> Costs]
  <2>1. CASE IndexResults(w)
    <3>1. UNCHANGED retry /\ (UNCHANGED cost \/ \E c \in Costs : cost' = [cost EXCEPT ![job[w]] = c])
      BY <2>1 DEF IndexResults, Fails
    <3> QED
      BY <1>p, <3>1 DEF RowOK
  <2>2. CASE NoteFailure(w)
    <3>1. /\ UNCHANGED cost
          /\ \/ UNCHANGED retry
             \/ retry' = [retry EXCEPT ![job[w]] = IF retry[job[w]] + 1 >= MaxRetries THEN MaxRetries
                                                   ELSE retry[job[w]] + 1]
      BY <2>2 DEF NoteFailure, Fails
    <3>2. (IF retry[job[w]] + 1 >= MaxRetries THEN MaxRetries ELSE retry[job[w]] + 1) \in 0..MaxRetries
      BY <1>p, Numbers DEF RowOK
    <3> HIDE DEF row
    <3> QED
      BY <1>p, <3>1, <3>2 DEF RowOK
  <2>3. CASE UNCHANGED <<retry, cost>>
    BY <1>p, <2>3 DEF RowOK
  <2>4. IndexResults(w) \/ NoteFailure(w) \/ UNCHANGED <<retry, cost>>
    BY DEF Take, WorkNext, WorkerDies, ReadPipeline, ReadJob, AskProvider, Transition, MarkSettled,
       ReleaseTerminal, Acknowledge, ReadSettling, CaptureHold, ReleaseExhausted, CheckEnded
  <2> QED
    BY <2>1, <2>2, <2>3, <2>4
<1>8. RowOK'
  BY <1>2, <1>6, <1>7, <1>p DEF RowOK
<1> QED
  BY <1>4, <1>5, <1>8

\* Who moves money.
LEMMA JobLedger ==
  ASSUME NEW j \in Jobs,
         \/ SubmitNext(j) \/ SubmitAgain(j) \/ SubmitDies(j)
         \/ ReadToCancel(j) \/ CancelNext(j) \/ CancelDies(j)
         \/ RecoverNext(j) \/ RecoveryDies(j)
         \/ ProviderEnds(j) \/ DeleteOutput(j)
  PROVE  UNCHANGED ledger \/ Reserve(j) \/ Release(j)
  BY DEF SubmitNext, SubmitAgain, SubmitDies, Create, ReserveHold, CreateItems, StartUpload, SubmitUpstream,
     RecordSubmitted, EnqueueSubmitted, AbortOrphan, UndoHold, FailSubmit, EnqueueUndo,
     ReadToCancel, CancelNext, CancelDies, RecoverNext, RecoveryDies, ProviderEnds, DeleteOutput,
     MarkCancelled, ReleaseCancelled, EnqueueCancelled, StopUpstream, WakeWorker,
     FailStale, ReleaseStale, EnqueueStale, ReleaseSucceeds, ReleaseFails, Fails

LEMMA WorkLedger ==
  ASSUME NEW w \in Workers, Take(w) \/ WorkNext(w) \/ WorkerDies(w)
  PROVE  \/ UNCHANGED ledger
         \/ Release(job[w]) /\ (ReleaseTerminal(w) \/ ReleaseExhausted(w))
         \/ Capture(job[w], cost[job[w]]) /\ CaptureHold(w)
  BY DEF Take, WorkNext, WorkerDies, ReadPipeline, ReadJob, AskProvider, Transition, IndexResults,
     ReleaseTerminal, Acknowledge, ReadSettling, CaptureHold, MarkSettled, NoteFailure, ReleaseExhausted,
     CheckEnded, ReleaseSucceeds, ReleaseFails, Fails

LEMMA NextTypes == ASSUME TypeOK, [Next]_vars PROVE TypeOK'
<1>p. LedgerTypeOK
  BY Parts
<1>1. ASSUME NEW j \in Jobs,
             \/ SubmitNext(j) \/ SubmitAgain(j) \/ SubmitDies(j)
             \/ ReadToCancel(j) \/ CancelNext(j) \/ CancelDies(j)
             \/ RecoverNext(j) \/ RecoveryDies(j)
             \/ ProviderEnds(j) \/ DeleteOutput(j)
      PROVE  TypeOK'
  <2>1. ASSUME UNCHANGED ledger PROVE LedgerTypeOK'
    BY <1>p, <2>1 DEF LedgerTypeOK
  <2>2. LedgerTypeOK'
    BY <1>p, <1>1, <2>1, JobLedger, ReserveEffect, ReleaseEffect
  <2> QED
    BY <1>1, <2>2, RequestTypes, SideTypes, PartsNext
<1>2. ASSUME NEW w \in Workers, Take(w) \/ WorkNext(w) \/ WorkerDies(w) PROVE TypeOK'
  <2>p. job[w] \in Jobs /\ cost[job[w]] \in Costs
    BY DEF TypeOK
  <2>1. ASSUME UNCHANGED ledger PROVE LedgerTypeOK'
    BY <1>p, <2>1 DEF LedgerTypeOK
  <2>2. LedgerTypeOK'
    BY <1>p, <1>2, <2>p, <2>1, WorkLedger, CaptureEffect, ReleaseEffect
  <2> QED
    BY <1>2, <2>2, WorkTypes, PartsNext
<1>3. CASE UNCHANGED vars
  BY <1>3 DEF vars, TypeOK, LedgerTypeOK
<1> QED
  BY <1>1, <1>2, <1>3 DEF Next

LEMMA InitTypes == ASSUME Init PROVE TypeOK
<1>1. /\ (CHOOSE j \in Jobs : TRUE) \in Jobs /\ "none" \in Status /\ 0 \in Costs /\ 0 \in 0..MaxRetries
      /\ "none" \in Upstream /\ "new" \in SubmitStep /\ "idle" \in CancelStep /\ "idle" \in RecoverStep
      /\ "idle" \in WorkStep
  BY PeopleAssumption, Numbers DEF Status, Costs, Upstream, SubmitStep, CancelStep, RecoverStep, WorkStep
<1>2. LedgerTypeOK
  BY Numbers DEF Init, LedgerInit, LedgerTypeOK
<1>3. RowOK
  BY <1>1 DEF Init, RowOK
<1>4. SideOK
  BY <1>1 DEF Init, SideOK
<1>5. StepOK
  <2>1. PICK i \in Jobs : job = [w \in Workers |-> i]
    BY <1>1, Zenon DEF Init
  <2>2. /\ sub = [j \in Jobs |-> "new"] /\ can = [j \in Jobs |-> "idle"] /\ rec = [j \in Jobs |-> "idle"]
        /\ pc = [w \in Workers |-> "idle"]
    BY DEF Init
  <2> QED
    BY <1>1, <2>1, <2>2 DEF StepOK
<1> QED
  BY <1>2, <1>3, <1>4, <1>5, Parts

\* All state stays within its types.
THEOREM TypeCorrect == Spec => []TypeOK
  BY InitTypes, NextTypes, PTL DEF Spec

-----------------------------------------------------------------------------
(* A finished job stays finished. *)

LEMMA Transits ==
  ASSUME NEW s \in Status
  PROVE  /\ CanTransition(s, "uploading") => s = "created"
         /\ CanTransition(s, "submitted") => s \in {"created", "uploading"}
         /\ CanTransition(s, "running") => s \in {"submitted", "running"}
         /\ CanTransition(s, "indexing") => s \in {"submitted", "running"}
         /\ CanTransition(s, "settling") => s = "indexing"
         /\ CanTransition(s, "cancelled") => s \in {"created", "uploading", "submitted", "running"}
         /\ CanTransition(s, "failed") => s \notin Terminal
  BY DEF CanTransition, Forward, Terminal

Stays(j) ==
  /\ status[j] \in Terminal => status'[j] \in Terminal
  /\ status[j] \in Settled => status'[j] \in Settled

\* What a step may do to a job's name and status, and to its request.
Named(j) == named'[j] = named[j] /\ sub'[j] = sub[j]
Moves(j) ==
  \/ status'[j] = status[j]
  \/ status'[j] \in Ended /\ status[j] \notin {"none"} \cup Settled
  \/ named[j] /\ status'[j] \notin {"none", "created", "uploading"} /\ status[j] \notin Terminal
  \/ status[j] = "completed" /\ status'[j] = "output_deleted"

LEMMA MovesKeeps ==
  ASSUME NEW j \in Jobs, NameInv(j), Named(j), Moves(j)
  PROVE  NameInv(j)' /\ Stays(j)
  BY DEF NameInv, Named, Moves, Stays, Terminal, Ended, Settled

LEMMA RequestNames ==
  ASSUME TypeOK, NEW j \in Jobs, NameInv(j), SubmitNext(j) \/ SubmitAgain(j) \/ SubmitDies(j)
  PROVE  /\ NameInv(j)' /\ Stays(j)
         /\ \A i \in Jobs \ {j} : status'[i] = status[i] /\ Named(i)
         /\ named[j] => named'[j]
<1>d. /\ status \in [Jobs -> Status] /\ named \in [Jobs -> BOOLEAN] /\ sub \in [Jobs -> SubmitStep]
      /\ status[j] \in Status
  BY DEF TypeOK
<1>1. CASE Create(j)
  BY <1>1, <1>d DEF Create, SetStatus, SubmitTo, NameInv, Stays, Terminal, Settled, Named
<1>2. CASE ReserveHold(j)
  BY <1>2, <1>d DEF ReserveHold, SubmitTo, NameInv, Stays, Named
<1>3. CASE CreateItems(j)
  BY <1>3, <1>d DEF CreateItems, SubmitTo, NameInv, Stays, Named
<1>4. CASE StartUpload(j)
  <2>1. CASE SetStatus(j, "uploading") /\ status[j] = "created"
    BY <1>4, <1>d, <2>1 DEF StartUpload, SetStatus, SubmitTo, NameInv, Stays, Terminal, Settled, Named
  <2>2. CASE UNCHANGED status
    BY <1>4, <1>d, <2>2 DEF StartUpload, SubmitTo, NameInv, Stays, Named
  <2> QED
    BY <1>4, <1>d, <2>1, <2>2, Transits DEF StartUpload, Fails
<1>5. CASE SubmitUpstream(j)
  BY <1>5, <1>d DEF SubmitUpstream, SubmitTo, NameInv, Stays, Named
<1>6. CASE RecordSubmitted(j)
  <2>1. CASE /\ SetStatus(j, "submitted") /\ status[j] \in {"created", "uploading"}
             /\ named' = [named EXCEPT ![j] = TRUE] /\ SubmitTo(j, "enqueue")
    BY <1>d, <2>1 DEF SetStatus, SubmitTo, NameInv, Stays, Terminal, Settled, Named
  <2>2. CASE UNCHANGED status /\ UNCHANGED named /\ SubmitTo(j, "abort") /\ sub[j] = "record"
    BY <1>d, <2>2 DEF SubmitTo, NameInv, Stays, Named
  <2> QED
    BY <1>6, <1>d, <2>1, <2>2, Transits DEF RecordSubmitted, Fails
<1>7. CASE EnqueueSubmitted(j)
  BY <1>7, <1>d DEF EnqueueSubmitted, SubmitTo, NameInv, Stays, Named
<1>8. CASE AbortOrphan(j)
  BY <1>8, <1>d DEF AbortOrphan, SubmitTo, NameInv, Stays, Named
<1>9. CASE UndoHold(j)
  <2>1. /\ UNCHANGED status /\ UNCHANGED named /\ sub[j] \in {"undo", "undoOnly"}
        /\ \E s \in {"fail", "end", "undoFail"} : SubmitTo(j, s)
    BY <1>9 DEF UndoHold
  <2> QED
    BY <1>d, <2>1 DEF SubmitTo, NameInv, Stays, Named
<1>10. CASE FailSubmit(j)
  <2>1. /\ UNCHANGED named /\ sub[j] \in {"fail", "undoFail"}
        /\ \E s \in {"end", "undoEnqueue"} : SubmitTo(j, s)
        /\ UNCHANGED status \/ SetStatus(j, "failed")
    BY <1>10 DEF FailSubmit, Fails
  <2>2. /\ ~named[j] /\ status[j] \in {"none", "created", "uploading"} \cup Ended
        /\ sub'[j] \in {"end", "undoEnqueue"} /\ named'[j] = named[j]
        /\ \A i \in Jobs \ {j} : Named(i)
    BY <1>d, <2>1 DEF NameInv, SubmitTo, Named
  <2>3. /\ status'[j] = status[j] \/ status'[j] = "failed"
        /\ \A i \in Jobs \ {j} : status'[i] = status[i]
    BY <1>d, <2>1 DEF SetStatus
  <2> QED
    BY <2>2, <2>3 DEF NameInv, Stays, Terminal, Settled, Ended
<1>11. CASE EnqueueUndo(j)
  BY <1>11, <1>d DEF EnqueueUndo, SubmitTo, NameInv, Stays, Named
<1>12. CASE SubmitAgain(j)
  BY <1>12, <1>d DEF SubmitAgain, SubmitTo, NameInv, Stays, Named
<1>13. CASE SubmitDies(j)
  BY <1>13, <1>d DEF SubmitDies, SubmitTo, NameInv, Stays, Named
<1> QED
  BY <1>1, <1>2, <1>3, <1>4, <1>5, <1>6, <1>7, <1>8, <1>9, <1>10, <1>11, <1>12, <1>13 DEF SubmitNext

LEMMA SideNames ==
  ASSUME TypeOK, NEW j \in Jobs, NameInv(j),
         \/ ReadToCancel(j) \/ CancelNext(j) \/ CancelDies(j) \/ RecoverNext(j) \/ RecoveryDies(j)
         \/ ProviderEnds(j) \/ DeleteOutput(j)
  PROVE  /\ NameInv(j)' /\ Stays(j)
         /\ \A i \in Jobs \ {j} : status'[i] = status[i] /\ Named(i)
         /\ UNCHANGED named
<1>d. status \in [Jobs -> Status] /\ status[j] \in Status
  BY DEF TypeOK
<1>1. UNCHANGED named /\ UNCHANGED sub
  BY DEF ReadToCancel, CancelNext, CancelDies, RecoverNext, RecoveryDies, ProviderEnds, DeleteOutput,
     MarkCancelled, ReleaseCancelled, EnqueueCancelled, StopUpstream, WakeWorker,
     FailStale, ReleaseStale, EnqueueStale
<1>2. \/ UNCHANGED status
      \/ CanTransition(status[j], "cancelled") /\ SetStatus(j, "cancelled")
      \/ Unsubmitted(j) /\ SetStatus(j, "failed")
      \/ status[j] = "completed" /\ SetStatus(j, "output_deleted")
  BY DEF ReadToCancel, CancelNext, CancelDies, RecoverNext, RecoveryDies, ProviderEnds, DeleteOutput,
     MarkCancelled, ReleaseCancelled, EnqueueCancelled, StopUpstream, WakeWorker,
     FailStale, ReleaseStale, EnqueueStale, Fails
<1>3. Moves(j) /\ \A i \in Jobs \ {j} : status'[i] = status[i]
  BY <1>2, <1>d, Transits DEF Moves, SetStatus, Unsubmitted, Ended, Settled
<1> QED
  BY <1>1, <1>3, MovesKeeps DEF Named

LEMMA WorkNames ==
  ASSUME TypeOK, NEW w \in Workers, NEW j \in Jobs, j = job[w], NameInv(j), KnownInv(w),
         Take(w) \/ WorkNext(w) \/ WorkerDies(w)
  PROVE  /\ NameInv(j)' /\ Stays(j) /\ KnownInv(w)'
         /\ \A i \in Jobs \ {j} : status'[i] = status[i]
         /\ \A i \in Jobs : Named(i)
         /\ \A v \in Workers \ {w} : pc'[v] = pc[v] /\ job'[v] = job[v]
         /\ UNCHANGED named
<1>d. j = job[w] /\ j \in Jobs /\ status \in [Jobs -> Status] /\ status[j] \in Status /\ pc \in [Workers -> WorkStep]
  BY DEF TypeOK
<1>1. UNCHANGED named /\ UNCHANGED sub
  BY DEF Take, WorkNext, WorkerDies, ReadPipeline, ReadJob, AskProvider, Transition, IndexResults,
     ReleaseTerminal, Acknowledge, ReadSettling, CaptureHold, MarkSettled, NoteFailure, ReleaseExhausted,
     CheckEnded
<1>2. Moves(j) /\ \A i \in Jobs \ {j} : status'[i] = status[i]
  <2>1. CASE Transition(w)
    <3>1. PICK to \in Status, s \in WorkStep :
           /\ <<pc[w], to>> \in {<<"toRunning", "running">>, <<"toIndexing", "indexing">>,
                                <<"toSettling", "settling">>, <<"toFailed", "failed">>,
                                <<"toCancelled", "cancelled">>, <<"exFail", "failed">>}
           /\ (CanTransition(status[j], to) /\ SetStatus(j, to)) \/ UNCHANGED status
      BY <2>1, TransitionEffect
    <3>2. named[j] /\ to \in {"running", "indexing", "settling", "failed", "cancelled"}
      BY <3>1 DEF KnownInv
    <3>3. CASE CanTransition(status[j], to) /\ SetStatus(j, to)
      <4>1. status[j] \notin Terminal
        BY <1>d, <3>2, <3>3, Transits DEF Terminal
      <4>2. status'[j] = to /\ \A i \in Jobs \ {j} : status'[i] = status[i]
        BY <1>d, <3>3, StatusTypes
      <4> QED
        BY <3>2, <4>1, <4>2 DEF Moves
    <3>4. CASE UNCHANGED status
      BY <3>4 DEF Moves
    <3> QED
      BY <3>1, <3>3, <3>4
  <2>2. CASE MarkSettled(w)
    <3>1. named[j] /\ (UNCHANGED status \/ (status[j] = "settling" /\ SetStatus(j, "completed")))
      BY <2>2 DEF MarkSettled, KnownInv, Fails
    <3> QED
      BY <1>d, <3>1 DEF Moves, SetStatus, Terminal
  <2>3. CASE UNCHANGED status
    BY <2>3 DEF Moves
  <2>4. Transition(w) \/ MarkSettled(w) \/ UNCHANGED status
    BY DEF Take, WorkNext, WorkerDies, ReadPipeline, ReadJob, AskProvider, IndexResults,
       ReleaseTerminal, Acknowledge, ReadSettling, CaptureHold, NoteFailure, ReleaseExhausted, CheckEnded
  <2> QED
    BY <2>1, <2>2, <2>3, <2>4
<1>3. \A v \in Workers \ {w} : pc'[v] = pc[v] /\ job'[v] = job[v]
  <2>1. CASE Take(w)
    BY <1>d, <2>1 DEF Take, TypeOK
  <2>2. CASE WorkNext(w) \/ WorkerDies(w)
    BY <1>d, <2>2, WorkGoes, GotoTypes
  <2> QED
    BY <2>1, <2>2
<1>4. KnownInv(w)'
  <2> DEFINE Blind == {"idle", "pipe", "process", "release", "ack", "settle", "check"}
  <2>1. CASE Take(w)
    BY <1>d, <2>1 DEF Take, KnownInv
  <2>2. CASE pc[w] \notin Blind /\ (WorkNext(w) \/ WorkerDies(w))
    <3>1. job' = job /\ named[j]
      BY <1>d, <2>2, WorkGoes, GotoTypes DEF KnownInv
    <3> QED
      BY <1>1, <3>1 DEF KnownInv
  <2>3. CASE ReadJob(w)
    <3>1. job' = job
      BY <2>3 DEF ReadJob, Goto
    <3>2. \/ named[j]
          \/ Goto(w, "release") \/ Goto(w, "ack") \/ Goto(w, "idle")
      BY <2>3 DEF ReadJob
    <3> QED
      BY <1>1, <1>d, <3>1, <3>2, GotoTypes DEF KnownInv, WorkStep
  <2>4. CASE ReadSettling(w)
    <3>1. job' = job
      BY <2>4 DEF ReadSettling, Goto
    <3>2. status[j] = "settling" \/ Goto(w, "ack") \/ Goto(w, "idle")
      BY <2>4 DEF ReadSettling
    <3>3. status[j] = "settling" => named[j]
      BY DEF NameInv, Ended
    <3> QED
      BY <1>1, <1>d, <3>1, <3>2, <3>3, GotoTypes DEF KnownInv, WorkStep
  <2>5. CASE ReadPipeline(w) \/ ReleaseTerminal(w) \/ Acknowledge(w) \/ CheckEnded(w) \/ WorkerDies(w)
    <3>1. \/ Goto(w, "settle") \/ Goto(w, "process") \/ Goto(w, "ack") \/ Goto(w, "idle")
      BY <2>5 DEF ReadPipeline, ReleaseTerminal, Acknowledge, CheckEnded, WorkerDies
    <3> QED
      BY <1>d, <3>1, GotoTypes DEF KnownInv, WorkStep
  <2>6. WorkNext(w) /\ pc[w] \in Blind =>
          ReadPipeline(w) \/ ReleaseTerminal(w) \/ Acknowledge(w) \/ CheckEnded(w) \/ ReadJob(w) \/ ReadSettling(w)
    BY DEF WorkNext, AskProvider, Transition, Transitions, IndexResults, CaptureHold, MarkSettled, NoteFailure,
       ReleaseExhausted
  <2> QED
    BY <2>1, <2>2, <2>3, <2>4, <2>5, <2>6
<1>5. NameInv(j)' /\ Stays(j) /\ \A i \in Jobs : Named(i)
  <2>1. \A i \in Jobs : Named(i)
    BY <1>1 DEF Named
  <2> QED
    BY <1>2, <1>d, <2>1, MovesKeeps
<1> QED
  BY <1>1, <1>2, <1>3, <1>4, <1>5

\* Nothing that a job's row or a worker's knowledge rests on changes.
LEMMA NameKept ==
  ASSUME NEW j \in Jobs, NameInv(j), Named(j), status'[j] = status[j]
  PROVE  NameInv(j)' /\ Stays(j)
  BY DEF NameInv, Named, Stays

LEMMA KnownKept ==
  ASSUME NEW w \in Workers, KnownInv(w), pc'[w] = pc[w], job'[w] = job[w], named[job[w]] => named'[job[w]]
  PROVE  KnownInv(w)'
  BY DEF KnownInv

LEMMA NextNames ==
  ASSUME RowInv, [Next]_vars
  PROVE  RowInv' /\ \A j \in Jobs : Stays(j)
<1>t. TypeOK /\ TypeOK' /\ \A v \in Workers : job[v] \in Jobs
  BY NextTypes DEF RowInv, TypeOK
<1>p. (\A j \in Jobs : NameInv(j)) /\ \A v \in Workers : KnownInv(v)
  BY DEF RowInv
<1>r. ASSUME (\A j \in Jobs : NameInv(j)') /\ \A v \in Workers : KnownInv(v)'
      PROVE  RowInv'
  BY <1>t, <1>r DEF RowInv
<1>1. ASSUME NEW j \in Jobs,
             \/ SubmitNext(j) \/ SubmitAgain(j) \/ SubmitDies(j)
             \/ ReadToCancel(j) \/ CancelNext(j) \/ CancelDies(j)
             \/ RecoverNext(j) \/ RecoveryDies(j)
             \/ ProviderEnds(j) \/ DeleteOutput(j)
      PROVE  RowInv' /\ \A i \in Jobs : Stays(i)
  <2>1. /\ NameInv(j)' /\ Stays(j) /\ (named[j] => named'[j])
        /\ \A i \in Jobs \ {j} : status'[i] = status[i] /\ Named(i)
    BY <1>1, <1>p, <1>t, RequestNames, SideNames
  <2>2. \A i \in Jobs : NameInv(i)' /\ Stays(i)
    BY <1>p, <2>1, NameKept
  <2>3. UNCHANGED pc /\ UNCHANGED job
    BY <1>1 DEF SubmitNext, SubmitAgain, SubmitDies, Create, ReserveHold, CreateItems, StartUpload,
       SubmitUpstream, RecordSubmitted, EnqueueSubmitted, AbortOrphan, UndoHold, FailSubmit, EnqueueUndo,
       ReadToCancel, CancelNext, CancelDies, RecoverNext, RecoveryDies, ProviderEnds, DeleteOutput,
       MarkCancelled, ReleaseCancelled, EnqueueCancelled, StopUpstream, WakeWorker,
       FailStale, ReleaseStale, EnqueueStale
  <2>4. \A i \in Jobs : named[i] => named'[i]
    BY <2>1 DEF Named
  <2>5. \A v \in Workers : KnownInv(v)'
    BY <1>p, <1>t, <2>3, <2>4, KnownKept
  <2> QED
    BY <1>r, <2>2, <2>5
<1>2. ASSUME NEW w \in Workers, Take(w) \/ WorkNext(w) \/ WorkerDies(w)
      PROVE  RowInv' /\ \A i \in Jobs : Stays(i)
  <2>1. PICK j \in Jobs : j = job[w]
    BY <1>t
  <2>2. /\ NameInv(j)' /\ Stays(j) /\ KnownInv(w)'
        /\ \A i \in Jobs \ {j} : status'[i] = status[i]
        /\ \A i \in Jobs : Named(i)
        /\ \A v \in Workers \ {w} : pc'[v] = pc[v] /\ job'[v] = job[v]
        /\ UNCHANGED named
    BY <1>2, <1>p, <1>t, <2>1, WorkNames
  <2>3. \A i \in Jobs : NameInv(i)' /\ Stays(i)
    BY <1>p, <2>2, NameKept
  <2>4. \A v \in Workers : KnownInv(v)'
    BY <1>p, <2>2, KnownKept
  <2> QED
    BY <1>r, <2>3, <2>4
<1>3. CASE UNCHANGED vars
  <2>1. \A j \in Jobs : status'[j] = status[j] /\ Named(j)
    BY <1>3 DEF vars, Named
  <2>2. UNCHANGED pc /\ UNCHANGED job /\ UNCHANGED named
    BY <1>3 DEF vars
  <2>3. \A j \in Jobs : NameInv(j)' /\ Stays(j)
    BY <1>p, <2>1, NameKept
  <2>4. \A v \in Workers : KnownInv(v)'
    BY <1>p, <2>2, KnownKept
  <2> QED
    BY <1>r, <2>3, <2>4
<1> QED
  BY <1>1, <1>2, <1>3 DEF Next

LEMMA InitNames == ASSUME Init PROVE RowInv
<1>1. ASSUME NEW j \in Jobs PROVE NameInv(j)
  <2>1. sub[j] = "new" /\ status[j] = "none" /\ named[j] = FALSE
    BY DEF Init
  <2> QED
    BY <2>1 DEF NameInv
<1>2. ASSUME NEW w \in Workers PROVE KnownInv(w)
  <2>1. pc[w] = "idle"
    BY DEF Init
  <2> QED
    BY <2>1 DEF KnownInv
<1> QED
  BY <1>1, <1>2, InitTypes DEF RowInv

LEMMA RowInvariance == Spec => []RowInv
<1>1. Init => RowInv
  BY InitNames
<1>2. RowInv /\ [Next]_vars => RowInv'
  BY NextNames
<1> QED
  BY <1>1, <1>2, PTL DEF Spec

\* A finished job never starts again and a completed one is never failed,
\* whatever fails, stalls or comes twice: every statement that writes a status
\* looks at the row, except the one that fails a submission, which no job with a
\* name can meet (batch_image_repo.go, RecordBatchImageJobSubmitFailure).
THEOREM StaysFinished == Spec => FinishedStaysFinished
<1>1. RowInv /\ [Next]_vars =>
        [\A j \in Jobs :
           /\ status[j] \in Terminal => status'[j] \in Terminal
           /\ status[j] \in {"completed", "output_deleted"} =>
                status'[j] \in {"completed", "output_deleted"}]_vars
  BY NextNames DEF Stays, Settled
<1> QED
  BY <1>1, RowInvariance, PTL DEF Spec, FinishedStaysFinished

-----------------------------------------------------------------------------
(* One job, one worker. *)

\* What a worker's next step rests on.
LEMMA WorkBusy ==
  ASSUME NEW w \in Workers, WorkNext(w) \/ WorkerDies(w)
  PROVE  pc[w] # "idle"
  BY DEF WorkNext, WorkerDies, ReadPipeline, ReadJob, AskProvider, Transition, Transitions, IndexResults,
     ReleaseTerminal, Acknowledge, ReadSettling, CaptureHold, MarkSettled, NoteFailure, ReleaseExhausted,
     CheckEnded

LEMMA JobActions ==
  ASSUME NEW j \in Jobs,
         \/ SubmitNext(j) \/ SubmitAgain(j) \/ SubmitDies(j)
         \/ ReadToCancel(j) \/ CancelNext(j) \/ CancelDies(j)
         \/ RecoverNext(j) \/ RecoveryDies(j)
         \/ ProviderEnds(j) \/ DeleteOutput(j)
  PROVE  /\ UNCHANGED pc /\ UNCHANGED job /\ UNCHANGED cost /\ UNCHANGED retry
         /\ UNCHANGED faults \/ Fault
<1>1. UNCHANGED pc /\ UNCHANGED job /\ UNCHANGED cost /\ UNCHANGED retry
  BY DEF SubmitNext, SubmitAgain, SubmitDies, Create, ReserveHold, CreateItems, StartUpload,
     SubmitUpstream, RecordSubmitted, EnqueueSubmitted, AbortOrphan, UndoHold, FailSubmit, EnqueueUndo,
     ReadToCancel, CancelNext, CancelDies, RecoverNext, RecoveryDies, ProviderEnds, DeleteOutput,
     MarkCancelled, ReleaseCancelled, EnqueueCancelled, StopUpstream, WakeWorker,
     FailStale, ReleaseStale, EnqueueStale
<1>2. UNCHANGED faults \/ Fault
  BY DEF SubmitNext, SubmitAgain, SubmitDies, Create, ReserveHold, CreateItems, StartUpload,
     SubmitUpstream, RecordSubmitted, EnqueueSubmitted, AbortOrphan, UndoHold, FailSubmit, EnqueueUndo,
     ReadToCancel, CancelNext, CancelDies, RecoverNext, RecoveryDies, ProviderEnds, DeleteOutput,
     MarkCancelled, ReleaseCancelled, EnqueueCancelled, StopUpstream, WakeWorker,
     FailStale, ReleaseStale, EnqueueStale, ReleaseSucceeds, ReleaseFails, Fails
<1> QED
  BY <1>1, <1>2

LEMMA WorkFaults ==
  ASSUME NEW w \in Workers, Take(w) \/ WorkNext(w) \/ WorkerDies(w)
  PROVE  UNCHANGED faults \/ Fault
  BY DEF Take, WorkNext, WorkerDies, ReadPipeline, ReadJob, AskProvider, Transition, IndexResults,
     ReleaseTerminal, Acknowledge, ReadSettling, CaptureHold, MarkSettled, NoteFailure, ReleaseExhausted,
     CheckEnded, ReleaseSucceeds, ReleaseFails, Fails

LEMMA NextFaults ==
  ASSUME TypeOK, [Next]_vars
  PROVE  faults' >= faults /\ (faults <= MaxFaults => faults' <= MaxFaults)
<1>1. UNCHANGED faults \/ Fault
  BY JobActions, WorkFaults DEF Next, vars
<1> QED
  BY <1>1, Numbers DEF TypeOK, Fault

LEMMA NextSole ==
  ASSUME ~LocksExpire, TypeOK, SoleInv, [Next]_vars
  PROVE  SoleInv'
<1>t. pc \in [Workers -> WorkStep] /\ job \in [Workers -> Jobs]
  BY DEF TypeOK
<1>1. CASE UNCHANGED pc /\ UNCHANGED job
  BY <1>1 DEF SoleInv
<1>2. ASSUME NEW w \in Workers, Take(w) PROVE SoleInv'
  <2>1. PICK j \in Jobs : /\ \A v \in Workers : pc[v] # "idle" => job[v] # j
                          /\ job' = [job EXCEPT ![w] = j]
    BY <1>2 DEF Take
  <2>2. /\ job'[w] = j /\ \A v \in Workers \ {w} : pc'[v] = pc[v] /\ job'[v] = job[v]
    BY <1>2, <1>t, <2>1 DEF Take
  <2> QED
    BY <2>1, <2>2 DEF SoleInv
<1>3. ASSUME NEW w \in Workers, WorkNext(w) \/ WorkerDies(w) PROVE SoleInv'
  <2>1. job' = job /\ \A v \in Workers \ {w} : pc'[v] = pc[v]
    BY <1>3, <1>t, WorkGoes, GotoTypes
  <2>2. pc[w] # "idle"
    BY <1>3, WorkBusy
  <2> QED
    BY <2>1, <2>2 DEF SoleInv
<1> QED
  BY <1>1, <1>2, <1>3, JobActions DEF Next, vars

-----------------------------------------------------------------------------
(* The charge of a job.  Same: the step is none of the job's business.      *)
(* Keeps: it leaves alone what a worker relies on.                           *)

Same(j) ==
  /\ status'[j] = status[j] /\ named'[j] = named[j] /\ retry'[j] = retry[j] /\ cost'[j] = cost[j]
  /\ sub'[j] = sub[j] /\ can'[j] = can[j] /\ rec'[j] = rec[j]
  /\ claims'[j] = claims[j] /\ moved'[j] = moved[j]

Keeps(j) ==
  /\ status[j] \in Ended => status'[j] \in Ended
  /\ status[j] = "settling" => status'[j] = "settling"
  /\ "capture" \in moved'[j] <=> "capture" \in moved[j]
  /\ retry'[j] = retry[j] /\ cost'[j] = cost[j]

LEMMA SameKeeps ==
  ASSUME TypeOK, NEW j \in Jobs, JobInv(j), Same(j), faults' \in Nat, faults' >= faults
  PROVE  JobInv(j)' /\ Keeps(j)
<1>1. retry[j] \in Nat /\ faults \in Nat
  BY DEF TypeOK
<1>2. ClaimInv(j)'
  BY DEF JobInv, ClaimInv, Same, Claimed, Charged
<1>3. StageInv(j)'
  BY DEF JobInv, StageInv, Same, Claimed
<1>4. ChargeInv(j)'
  BY <1>1 DEF JobInv, ChargeInv, Same, Charged
<1> QED
  BY <1>2, <1>3, <1>4 DEF JobInv, Same, Keeps

LEMMA WorkKept ==
  ASSUME TypeOK, NEW w \in Workers, NEW j \in Jobs, j = job[w], WorkInv(w),
         pc'[w] = pc[w], job'[w] = job[w], Keeps(j), faults' \in Nat, faults' >= faults
  PROVE  WorkInv(w)'
<1>1. retry[j] \in Nat /\ faults \in Nat
  BY DEF TypeOK
<1>2. job'[w] = j
  OBVIOUS
<1> QED
  BY <1>1, <1>2 DEF WorkInv, Keeps, Charged

LEMMA IdleWork == ASSUME NEW w, pc'[w] = "idle" PROVE WorkInv(w)'
  BY DEF WorkInv

\* The three movements, for the job they are about.
LEMMA ReserveClaims ==
  ASSUME TypeOK, NEW j \in Jobs, ClaimInv(j), Reserve(j)
  PROVE  /\ ClaimInv(j)' /\ "hold" \in claims'[j]
         /\ "release" \in claims'[j] <=> "release" \in claims[j]
         /\ "capture" \in moved'[j] <=> "capture" \in moved[j]
<1>1. \/ UNCHANGED claims /\ UNCHANGED moved /\ Claimed(j, "hold")
      \/ claims'[j] = claims[j] \cup {"hold"} /\ moved'[j] = moved[j] \cup {"hold"}
  BY ReserveEffect, Parts
<1> QED
  BY <1>1 DEF ClaimInv, Claimed, Charged

LEMMA ReleaseClaims ==
  ASSUME TypeOK, NEW j \in Jobs, ClaimInv(j), Release(j), ~Charged(j)
  PROVE  /\ ClaimInv(j)' /\ "release" \in claims'[j]
         /\ "hold" \in claims'[j] <=> "hold" \in claims[j]
         /\ "capture" \notin moved'[j]
<1>1. \/ UNCHANGED claims /\ UNCHANGED moved /\ Claimed(j, "release")
      \/ /\ claims'[j] = claims[j] \cup {"release"}
         /\ \/ Claimed(j, "hold") /\ moved'[j] = moved[j] \cup {"release"}
            \/ moved'[j] = moved[j]
  BY ReleaseEffect, Parts
<1> QED
  BY <1>1 DEF ClaimInv, Claimed, Charged

\* A step on a job that nobody settles: its stage is what has to be looked at.
LEMMA StageStep ==
  ASSUME TypeOK, NEW j \in Jobs, JobInv(j), ClaimInv(j)', StageInv(j)', faults' \in Nat, faults' >= faults,
         retry'[j] = retry[j], cost'[j] = cost[j], "capture" \in moved'[j] <=> "capture" \in moved[j],
         \/ status'[j] = status[j]
         \/ status'[j] \in Ended /\ status[j] \notin {"settling"} \cup Settled
         \/ status'[j] \in {"created", "uploading", "submitted"} /\ status[j] \notin {"settling"} \cup Terminal
         \/ status'[j] = "output_deleted" /\ status[j] = "completed"
  PROVE  JobInv(j)' /\ Keeps(j)
<1>1. retry[j] \in Nat /\ faults \in Nat
  BY DEF TypeOK
<1>2. ChargeInv(j)'
  <2>1. Charged(j)' <=> Charged(j)
    BY DEF Charged
  <2> QED
    BY <1>1, <2>1 DEF JobInv, ChargeInv, Ended, Settled, Terminal
<1>3. Keeps(j)
  BY DEF Keeps, Ended, Settled, Terminal
<1> QED
  BY <1>2, <1>3 DEF JobInv

LEMMA RequestJob ==
  ASSUME TypeOK, NEW j \in Jobs, NameInv(j), JobInv(j), SubmitNext(j) \/ SubmitAgain(j) \/ SubmitDies(j),
         faults' \in Nat, faults' >= faults
  PROVE  /\ JobInv(j)' /\ Keeps(j)
         /\ \A i \in Jobs \ {j} : Same(i)
<1>d. /\ status \in [Jobs -> Status] /\ named \in [Jobs -> BOOLEAN] /\ sub \in [Jobs -> SubmitStep]
      /\ status[j] \in Status /\ LedgerTypeOK
  BY Parts DEF TypeOK
<1>i. ClaimInv(j) /\ StageInv(j) /\ ChargeInv(j)
  BY DEF JobInv
<1>u. /\ UNCHANGED can /\ UNCHANGED rec /\ UNCHANGED cost /\ UNCHANGED retry
  BY DEF SubmitNext, SubmitAgain, SubmitDies, Create, ReserveHold, CreateItems, StartUpload,
     SubmitUpstream, RecordSubmitted, EnqueueSubmitted, AbortOrphan, UndoHold, FailSubmit, EnqueueUndo
\* Only the row of j and its money change.
<1>o. \A i \in Jobs \ {j} : Same(i)
  <2>1. \A i \in Jobs \ {j} : status'[i] = status[i] /\ Named(i)
    BY RequestNames
  <2>2. Untouched(j)
    <3>1. CASE UNCHANGED ledger
      BY <3>1 DEF Untouched
    <3>2. CASE Reserve(j) \/ Release(j)
      BY <1>d, <3>2, ReserveEffect, ReleaseEffect
    <3> QED
      BY <3>1, <3>2, JobLedger
  <2> QED
    BY <1>u, <2>1, <2>2 DEF Same, Untouched, Named
\* The money stays where it is.
<1>m. ASSUME UNCHANGED ledger
      PROVE  /\ ClaimInv(j)' /\ claims'[j] = claims[j]
             /\ "capture" \in moved'[j] <=> "capture" \in moved[j]
  BY <1>m, <1>i DEF ClaimInv, Claimed, Charged
\* The request goes on, and neither money nor row change.
<1>s. ASSUME UNCHANGED ledger, UNCHANGED status, UNCHANGED named, StageInv(j)'
      PROVE  JobInv(j)' /\ Keeps(j)
  BY <1>s, <1>m, <1>u, StageStep
<1>1. CASE Create(j)
  <2>1. /\ UNCHANGED ledger /\ UNCHANGED named /\ sub[j] = "new" /\ sub'[j] = "reserve"
        /\ status'[j] = "created"
    BY <1>1, <1>d DEF Create, SetStatus, SubmitTo
  <2>2. status[j] = "none" /\ ~named[j]
    BY <2>1 DEF NameInv
  <2>3. StageInv(j)'
    BY <1>i, <1>m, <1>u, <2>1, <2>2 DEF StageInv, Claimed, Ended
  <2> QED
    BY <1>m, <1>o, <1>u, <2>1, <2>2, <2>3, StageStep DEF Settled, Terminal
<1>2. CASE ReserveHold(j)
  <2>1. /\ sub[j] = "reserve" /\ UNCHANGED status /\ UNCHANGED named
        /\ \/ Reserve(j) /\ sub'[j] \in {"items", "fail"}
           \/ UNCHANGED ledger /\ sub'[j] = "fail"
    BY <1>2, <1>d DEF ReserveHold, SubmitTo, Fails
  <2>2. ~named[j] /\ (Claimed(j, "release") => status[j] \in Ended)
    BY <1>i, <2>1 DEF NameInv, StageInv, Ended
  <2>3. /\ ClaimInv(j)' /\ ("release" \in claims'[j] <=> "release" \in claims[j])
        /\ "capture" \in moved'[j] <=> "capture" \in moved[j]
        /\ sub'[j] = "items" => "hold" \in claims'[j]
    BY <1>i, <1>m, <2>1, ReserveClaims
  <2>4. StageInv(j)'
    BY <1>i, <1>u, <2>1, <2>2, <2>3 DEF StageInv, Claimed
  <2> QED
    BY <1>o, <1>u, <2>1, <2>3, <2>4, StageStep
<1>3. CASE CreateItems(j) \/ SubmitUpstream(j) \/ EnqueueSubmitted(j) \/ AbortOrphan(j) \/ EnqueueUndo(j)
           \/ SubmitDies(j)
  <2>1. UNCHANGED ledger /\ UNCHANGED status /\ UNCHANGED named
    BY <1>3 DEF CreateItems, SubmitUpstream, EnqueueSubmitted, AbortOrphan, EnqueueUndo, SubmitDies
  <2>2. /\ sub'[j] \in {"upload", "undo", "record", "end", "dead"}
        /\ sub'[j] = "upload" => sub[j] = "items"
        /\ sub'[j] = "record" => sub[j] = "submit"
        /\ sub'[j] = "undo" => sub[j] \in {"items", "submit"}
    BY <1>3, <1>d DEF CreateItems, SubmitUpstream, EnqueueSubmitted, AbortOrphan, EnqueueUndo, SubmitDies,
       SubmitTo
  <2>3. StageInv(j)'
    BY <1>i, <1>m, <1>u, <2>1, <2>2 DEF StageInv, Claimed, NameInv, Ended
  <2> QED
    BY <1>o, <1>s, <2>1, <2>3
<1>4. CASE StartUpload(j)
  <2>1. /\ UNCHANGED ledger /\ UNCHANGED named /\ sub[j] = "upload"
        /\ sub'[j] \in {"submit", "undoOnly", "undo"}
        /\ \/ status'[j] = status[j]
           \/ status[j] = "created" /\ status'[j] = "uploading"
    BY <1>4, <1>d, Transits DEF StartUpload, SubmitTo, SetStatus, Fails
  <2>2. StageInv(j)'
    BY <1>i, <1>m, <1>u, <2>1 DEF StageInv, Claimed, NameInv, Ended
  <2> QED
    BY <1>m, <1>o, <1>u, <2>1, <2>2, StageStep DEF Settled, Terminal
<1>5. CASE RecordSubmitted(j)
  <2>1. /\ UNCHANGED ledger /\ sub[j] = "record"
        /\ \/ /\ status[j] \in {"created", "uploading"} /\ status'[j] = "submitted"
              /\ named'[j] = TRUE /\ sub'[j] = "enqueue"
           \/ status'[j] = status[j] /\ named'[j] = named[j] /\ sub'[j] = "abort"
    BY <1>5, <1>d, Transits DEF RecordSubmitted, SubmitTo, SetStatus, Fails
  <2>2. StageInv(j)'
    BY <1>i, <1>m, <1>u, <2>1 DEF StageInv, Claimed, NameInv, Ended
  <2> QED
    BY <1>m, <1>o, <1>u, <2>1, <2>2, StageStep DEF Settled, Terminal
<1>6. CASE UndoHold(j)
  <2>1. /\ UNCHANGED status /\ UNCHANGED named /\ sub[j] \in {"undo", "undoOnly"}
        /\ \/ Release(j) /\ sub'[j] \in {"fail", "end", "undoFail"}
           \/ UNCHANGED ledger /\ sub'[j] = "undoFail"
    BY <1>6, <1>d DEF UndoHold, SubmitTo, ReleaseSucceeds, ReleaseFails, Fails
  <2>2. ~named[j] /\ ~Charged(j)
    BY <1>i, <2>1 DEF NameInv, ChargeInv, Settled, Ended
  <2>3. ClaimInv(j)' /\ ("capture" \in moved'[j] <=> "capture" \in moved[j])
    BY <1>i, <1>m, <2>1, <2>2, ReleaseClaims DEF Charged
  <2>4. StageInv(j)'
    <3>1. sub'[j] \in {"fail", "undoFail", "end"} /\ ~named'[j]
      BY <2>1, <2>2
    <3> QED
      BY <1>i, <1>u, <2>1, <3>1 DEF StageInv, Claimed
  <2> QED
    BY <1>o, <1>u, <2>1, <2>3, <2>4, StageStep
<1>7. CASE FailSubmit(j)
  <2>1. /\ UNCHANGED ledger /\ UNCHANGED named /\ sub[j] \in {"fail", "undoFail"}
        /\ sub'[j] \in {"end", "undoEnqueue"}
        /\ status'[j] = status[j] \/ status'[j] = "failed"
    BY <1>7, <1>d DEF FailSubmit, SubmitTo, SetStatus, Fails
  <2>2. ~named[j] /\ status[j] \in {"none", "created", "uploading"} \cup Ended
    BY <2>1 DEF NameInv
  <2>3. StageInv(j)'
    BY <1>i, <1>m, <1>u, <2>1, <2>2 DEF StageInv, Claimed, Ended
  <2> QED
    BY <1>m, <1>o, <1>u, <2>1, <2>2, <2>3, StageStep DEF Settled, Ended
<1>8. CASE SubmitAgain(j)
  <2>1. /\ UNCHANGED ledger /\ UNCHANGED status /\ UNCHANGED named /\ status[j] = "submitted"
        /\ sub'[j] = "enqueue"
    BY <1>8, <1>d DEF SubmitAgain, SubmitTo
  <2>2. named[j]
    BY <2>1 DEF NameInv, Ended
  <2>3. StageInv(j)'
    BY <1>i, <1>m, <1>u, <2>1, <2>2 DEF StageInv, Claimed
  <2> QED
    BY <1>o, <1>s, <2>1, <2>3
<1> QED
  BY <1>1, <1>2, <1>3, <1>4, <1>5, <1>6, <1>7, <1>8 DEF SubmitNext

LEMMA SideJob ==
  ASSUME TypeOK, NEW j \in Jobs, NameInv(j), JobInv(j),
         \/ ReadToCancel(j) \/ CancelNext(j) \/ CancelDies(j) \/ RecoverNext(j) \/ RecoveryDies(j)
         \/ ProviderEnds(j) \/ DeleteOutput(j),
         faults' \in Nat, faults' >= faults
  PROVE  /\ JobInv(j)' /\ Keeps(j)
         /\ \A i \in Jobs \ {j} : Same(i)
<1>d. /\ status \in [Jobs -> Status] /\ can \in [Jobs -> CancelStep] /\ rec \in [Jobs -> RecoverStep]
      /\ status[j] \in Status /\ LedgerTypeOK
  BY Parts DEF TypeOK
<1>i. ClaimInv(j) /\ StageInv(j) /\ ChargeInv(j)
  BY DEF JobInv
<1>u. /\ UNCHANGED named /\ UNCHANGED sub /\ UNCHANGED cost /\ UNCHANGED retry
  BY DEF ReadToCancel, CancelNext, CancelDies, RecoverNext, RecoveryDies, ProviderEnds, DeleteOutput,
     MarkCancelled, ReleaseCancelled, EnqueueCancelled, StopUpstream, WakeWorker,
     FailStale, ReleaseStale, EnqueueStale
<1>c. /\ \A i \in Jobs \ {j} : can'[i] = can[i] /\ rec'[i] = rec[i]
      /\ can'[j] = "release" => \/ can[j] = "release"
                                \/ ReadToCancel(j) /\ status[j] \in Ended
                                \/ MarkCancelled(j) /\ SetStatus(j, "cancelled")
      /\ rec'[j] = "release" => rec[j] = "release" \/ FailStale(j)
  <2>1. CASE ReadToCancel(j)
    <3>1. \/ status[j] \in Ended /\ CancelTo(j, "release")
          \/ CancelTo(j, "idle") \/ CancelTo(j, "stop") \/ CancelTo(j, "mark")
      BY <2>1 DEF ReadToCancel, Ended
    <3>2. UNCHANGED rec
      BY <2>1 DEF ReadToCancel
    <3> QED
      BY <1>d, <2>1, <3>1, <3>2 DEF CancelTo
  <2>2. CASE CancelNext(j) \/ CancelDies(j)
    <3>1. /\ UNCHANGED rec
          /\ \/ CancelTo(j, "release") /\ MarkCancelled(j) /\ SetStatus(j, "cancelled")
             \/ CancelTo(j, "idle") \/ CancelTo(j, "enqueue") \/ CancelTo(j, "wake")
      BY <2>2 DEF CancelNext, CancelDies, MarkCancelled, ReleaseCancelled, EnqueueCancelled, StopUpstream,
         WakeWorker
    <3> QED
      BY <1>d, <3>1 DEF CancelTo
  <2>3. CASE RecoverNext(j) \/ RecoveryDies(j)
    <3>1. /\ UNCHANGED can
          /\ \/ RecoverTo(j, "release") /\ FailStale(j)
             \/ RecoverTo(j, "idle") \/ RecoverTo(j, "enqueue")
      BY <2>3 DEF RecoverNext, RecoveryDies, FailStale, ReleaseStale, EnqueueStale
    <3> QED
      BY <1>d, <3>1 DEF RecoverTo
  <2>4. CASE ProviderEnds(j) \/ DeleteOutput(j)
    BY <2>4 DEF ProviderEnds, DeleteOutput
  <2> QED
    BY <2>1, <2>2, <2>3, <2>4
<1>e. \/ UNCHANGED status
      \/ CanTransition(status[j], "cancelled") /\ status'[j] = "cancelled"
      \/ Unsubmitted(j) /\ status'[j] = "failed"
      \/ status[j] = "completed" /\ status'[j] = "output_deleted"
  BY <1>d DEF ReadToCancel, CancelNext, CancelDies, RecoverNext, RecoveryDies, ProviderEnds, DeleteOutput,
     MarkCancelled, ReleaseCancelled, EnqueueCancelled, StopUpstream, WakeWorker,
     FailStale, ReleaseStale, EnqueueStale, Fails, SetStatus
<1>f. \/ status'[j] = status[j]
      \/ status'[j] \in Ended /\ status[j] \notin {"settling"} \cup Settled
      \/ status'[j] = "output_deleted" /\ status[j] = "completed"
  BY <1>d, <1>e, Transits DEF Unsubmitted, Ended, Settled
<1>o. \A i \in Jobs \ {j} : Same(i)
  <2>1. \A i \in Jobs \ {j} : status'[i] = status[i]
    BY SideNames
  <2>2. Untouched(j)
    <3>1. CASE UNCHANGED ledger
      BY <3>1 DEF Untouched
    <3>2. CASE Reserve(j) \/ Release(j)
      BY <1>d, <3>2, ReserveEffect, ReleaseEffect
    <3> QED
      BY <3>1, <3>2, JobLedger
  <2> QED
    BY <1>c, <1>u, <2>1, <2>2 DEF Same, Untouched
\* Whoever is about to release the hold has ended the job.
<1>r. can'[j] = "release" \/ rec'[j] = "release" => status'[j] \in Ended
  <2>1. can[j] = "release" \/ rec[j] = "release" => status'[j] \in Ended
    BY <1>i, <1>f DEF StageInv, Ended
  <2>2. SetStatus(j, "cancelled") => status'[j] \in Ended
    BY <1>d DEF SetStatus, Ended
  <2>3. FailStale(j) => status'[j] \in Ended
    BY <1>d DEF FailStale, SetStatus, Ended
  <2>4. ReadToCancel(j) => UNCHANGED status
    BY DEF ReadToCancel
  <2> QED
    BY <1>c, <2>1, <2>2, <2>3, <2>4
<1>1. CASE UNCHANGED ledger
  <2>1. ClaimInv(j)' /\ claims'[j] = claims[j] /\ ("capture" \in moved'[j] <=> "capture" \in moved[j])
    BY <1>1, <1>i DEF ClaimInv, Claimed, Charged
  <2>2. StageInv(j)'
    <3>1. "release" \in claims[j] =>
            \/ status'[j] \in Ended
            \/ ~named[j] /\ sub[j] \in {"fail", "undoFail", "undoEnqueue", "end", "dead"}
            \/ status'[j] = "settling" /\ cost[j] > Hold
      <4>1. status[j] = "completed" => "release" \notin claims[j]
        BY <1>i DEF ChargeInv, ClaimInv, Settled, Claimed
      <4> QED
        BY <1>f, <1>i, <4>1 DEF StageInv, Claimed, Ended
    <3> QED
      BY <1>i, <1>r, <1>u, <2>1, <3>1 DEF StageInv, Claimed
  <2> QED
    BY <1>f, <1>o, <1>u, <2>1, <2>2, StageStep
<1>2. CASE Release(j) /\ (ReleaseCancelled(j) \/ ReleaseStale(j))
  <2>1. UNCHANGED status /\ status[j] \in Ended
    BY <1>2, <1>i DEF ReleaseCancelled, ReleaseStale, StageInv
  <2>2. ~Charged(j)
    BY <1>i, <2>1 DEF ChargeInv, Ended, Settled
  <2>3. ClaimInv(j)' /\ ("hold" \in claims'[j] <=> "hold" \in claims[j]) /\ "capture" \notin moved'[j]
    BY <1>2, <1>i, <2>2, ReleaseClaims
  <2>4. StageInv(j)'
    BY <1>i, <1>r, <1>u, <2>1, <2>3 DEF StageInv, Claimed
  <2> QED
    BY <1>o, <1>u, <2>1, <2>2, <2>3, <2>4, StageStep DEF Charged
<1>3. UNCHANGED ledger \/ (Release(j) /\ (ReleaseCancelled(j) \/ ReleaseStale(j)))
  BY DEF ReadToCancel, CancelNext, CancelDies, RecoverNext, RecoveryDies, ProviderEnds, DeleteOutput,
     MarkCancelled, ReleaseCancelled, EnqueueCancelled, StopUpstream, WakeWorker,
     FailStale, ReleaseStale, EnqueueStale, ReleaseSucceeds, ReleaseFails, Fails
<1> QED
  BY <1>1, <1>2, <1>3
\* Where a worker may arrive, and with which job.
Arrived(s, j) ==
  \/ s \in {"idle", "pipe", "process", "ack", "settle", "check"}
  \/ s = "release" /\ status[j] \in Ended
  \/ /\ s \in {"get", "getRunning", "toRunning", "toIndexing", "index", "toSettling", "toFailed", "toCancelled"}
     /\ ~Charged(j)
  \/ s \in {"capture", "noteBilling"} /\ status[j] = "settling" /\ cost[j] <= Hold /\ (s = "noteBilling" => retry[j] < faults)
  \/ s \in {"noteCost", "exRelease", "noteRelease", "exFail"} /\ status[j] = "settling" /\ cost[j] > Hold
  \/ s = "settled" /\ status[j] = "settling" /\ Charged(j)

LEMMA Arrives ==
  ASSUME NEW w, NEW j, NEW s, pc'[w] = s, job'[w] = j, Arrived(s, j)'
  PROVE  WorkInv(w)'
  BY DEF Arrived, WorkInv, Charged

\* A worker that only looks, or lets a job go.
LEMMA LookingWork ==
  ASSUME TypeOK, Steady, NEW w \in Workers, NEW j \in Jobs, j = job[w], JobInv(j), WorkInv(w),
         faults <= MaxFaults,
         \/ Take(w) \/ WorkerDies(w) \/ ReadPipeline(w) \/ ReadJob(w) \/ AskProvider(w)
         \/ Acknowledge(w) \/ ReadSettling(w) \/ CheckEnded(w)
  PROVE  WorkInv(w)' /\ \A i \in Jobs : Same(i)
<1>d. /\ pc \in [Workers -> WorkStep] /\ retry[j] \in Nat /\ cost[j] \in Nat /\ faults \in Nat
      /\ status[j] \in Status
  BY Numbers DEF TypeOK, Costs
<1>o. \A i \in Jobs : Same(i)
  BY DEF Take, WorkerDies, ReadPipeline, ReadJob, AskProvider, Acknowledge, ReadSettling, CheckEnded, Same
<1>c. Charged(j)' <=> Charged(j)
  BY <1>o DEF Charged, Same
<1>1. CASE Take(w)
  <2>1. pc'[w] = "pipe"
    BY <1>1, <1>d DEF Take
  <2> QED
    BY <1>o, <2>1 DEF WorkInv
<1>2. CASE WorkerDies(w) \/ ReadPipeline(w) \/ Acknowledge(w) \/ CheckEnded(w)
  <2>1. pc'[w] \in {"idle", "settle", "process", "ack"}
    BY <1>2, <1>d DEF WorkerDies, ReadPipeline, Acknowledge, CheckEnded, Goto
  <2> QED
    BY <1>o, <2>1 DEF WorkInv
<1>3. CASE ReadJob(w)
  <2>1. job'[w] = j
    BY <1>3 DEF ReadJob, Goto
  <2>2. \/ pc'[w] = "release" /\ status[j] \in Ended
        \/ pc'[w] \in {"ack", "idle"}
        \/ pc'[w] \in {"index", "get", "getRunning"} /\ status[j] \notin {"settling"} \cup Settled
    BY <1>3, <1>d DEF ReadJob, Goto, Ended, Settled
  <2>3. pc'[w] \in {"index", "get", "getRunning"} => ~Charged(j)
    BY <2>2 DEF JobInv, ChargeInv
  <2>4. status'[j] = status[j]
    BY <1>o DEF Same
  <2>8. PICK s : pc'[w] = s
    OBVIOUS
  <2>9. Arrived(s, j)'
    BY <1>c, <2>2, <2>3, <2>4, <2>8 DEF Arrived
  <2> QED
    BY <1>o, <2>1, <2>8, <2>9, Arrives
<1>4. CASE AskProvider(w)
  <2>1. job'[w] = j /\ pc[w] \in {"get", "getRunning"}
    BY <1>4 DEF AskProvider, Goto
  <2>2. pc'[w] \in {"toRunning", "idle", "toIndexing", "toFailed", "toCancelled"}
    BY <1>4, <1>d DEF AskProvider, Goto
  <2>3. ~Charged(j)
    BY <2>1 DEF WorkInv
  <2>8. PICK s : pc'[w] = s
    OBVIOUS
  <2>9. Arrived(s, j)'
    BY <1>c, <2>2, <2>3, <2>8 DEF Arrived
  <2> QED
    BY <1>o, <2>1, <2>8, <2>9, Arrives
<1>5. CASE ReadSettling(w)
  <2>1. job'[w] = j
    BY <1>5 DEF ReadSettling, Goto
  <2>2. \/ pc'[w] \in {"ack", "idle"}
        \/ status[j] = "settling" /\ pc'[w] = "exRelease" /\ retry[j] >= MaxRetries
        \/ status[j] = "settling" /\ pc'[w] = "noteCost" /\ cost[j] > Hold
        \/ status[j] = "settling" /\ pc'[w] = "capture" /\ cost[j] <= Hold
    BY <1>5, <1>d, Numbers DEF ReadSettling, Goto
  <2>3. retry[j] >= MaxRetries => cost[j] > Hold
    BY <1>d, Numbers DEF JobInv, ChargeInv, Steady
  <2>4. status'[j] = status[j] /\ cost'[j] = cost[j]
    BY <1>o DEF Same
  <2>8. PICK s : pc'[w] = s
    OBVIOUS
  <2>9. Arrived(s, j)'
    BY <2>2, <2>3, <2>4, <2>8 DEF Arrived
  <2> QED
    BY <1>o, <2>1, <2>8, <2>9, Arrives
<1> QED
  BY <1>o, <1>1, <1>2, <1>3, <1>4, <1>5

\* A worker moves its job on.
LEMMA TransitionJob ==
  ASSUME TypeOK, NEW w \in Workers, NEW j \in Jobs, j = job[w], KnownInv(w), JobInv(j), WorkInv(w),
         Transition(w), faults' \in Nat, faults' >= faults
  PROVE  JobInv(j)' /\ WorkInv(w)' /\ \A i \in Jobs \ {j} : Same(i)
<1>d. /\ pc \in [Workers -> WorkStep] /\ status \in [Jobs -> Status] /\ retry[j] \in Nat /\ faults \in Nat
      /\ status[j] \in Status
  BY DEF TypeOK
<1>i. ClaimInv(j) /\ StageInv(j) /\ ChargeInv(j)
  BY DEF JobInv
<1>u. /\ UNCHANGED claims /\ UNCHANGED moved /\ UNCHANGED named /\ UNCHANGED retry /\ UNCHANGED cost
      /\ UNCHANGED sub /\ UNCHANGED can /\ UNCHANGED rec
  BY DEF Transition
<1>1. PICK to \in Status, s \in WorkStep :
        /\ <<pc[w], to>> \in {<<"toRunning", "running">>, <<"toIndexing", "indexing">>,
                             <<"toSettling", "settling">>, <<"toFailed", "failed">>,
                             <<"toCancelled", "cancelled">>, <<"exFail", "failed">>}
        /\ Goto(w, s)
        /\ \/ /\ CanTransition(status[j], to) /\ SetStatus(j, to)
              /\ s \in {"idle", "index", "release", "check"}
              /\ (s = "index" <=> pc[w] = "toIndexing")
              /\ (s = "release" <=> pc[w] \in {"toFailed", "toCancelled"})
           \/ s = "idle" /\ UNCHANGED status
  BY TransitionEffect
<1>2. pc'[w] = s /\ job'[w] = j
  BY <1>1, <1>d, GotoTypes
<1>c. Charged(j)' <=> Charged(j)
  BY <1>u DEF Charged
<1>3. CASE UNCHANGED status /\ s = "idle"
  <2>1. \A i \in Jobs : Same(i)
    BY <1>3, <1>u DEF Same
  <2> QED
    BY <1>2, <1>3, <2>1, SameKeeps, IdleWork
<1>4. CASE /\ CanTransition(status[j], to) /\ SetStatus(j, to)
           /\ s \in {"idle", "index", "release", "check"}
           /\ (s = "index" <=> pc[w] = "toIndexing")
           /\ (s = "release" <=> pc[w] \in {"toFailed", "toCancelled"})
  <2>1. status'[j] = to /\ \A i \in Jobs \ {j} : status'[i] = status[i]
    BY <1>4, <1>d, StatusTypes
  <2>2. /\ to \in {"running", "indexing", "settling", "failed", "cancelled"} /\ named[j]
        /\ s = "release" => to \in Ended
    BY <1>1, <1>4 DEF KnownInv, Ended
  <2>3. /\ status[j] \notin Terminal
        /\ to \in Ended \/ status[j] # "settling"
    BY <1>4, <1>d, <2>2, Transits DEF Terminal, Ended, CanTransition, Forward
  <2>4. to \in Ended \/ s = "index" => ~Charged(j)
    <3>1. pc[w] \in {"toFailed", "toCancelled", "toIndexing"} => ~Charged(j)
      BY DEF WorkInv
    <3>2. pc[w] = "exFail" => ~Charged(j)
      <4>1. pc[w] = "exFail" => cost[j] > Hold
        BY DEF WorkInv
      <4>2. Charged(j) => cost[j] <= Hold
        BY <1>i DEF ChargeInv
      <4>3. cost[j] \in Int
        BY Numbers DEF TypeOK, Costs
      <4> QED
        BY <4>1, <4>2, <4>3, Numbers
    <3>3. to \in Ended \/ s = "index" => pc[w] \in {"toFailed", "toCancelled", "toIndexing", "exFail"}
      BY <1>1, <1>4 DEF Ended
    <3> QED
      BY <3>1, <3>2, <3>3
  <2>5. ClaimInv(j)'
    BY <1>i, <1>u DEF ClaimInv, Claimed, Charged
  <2>6. StageInv(j)'
    BY <1>i, <1>u, <2>1, <2>2, <2>3 DEF StageInv, Claimed, Ended, Terminal
  <2>7. ChargeInv(j)'
    BY <1>c, <1>d, <1>i, <1>u, <2>1, <2>2, <2>3, <2>4 DEF ChargeInv, Charged, Ended, Settled, Terminal
  <2>8. WorkInv(w)'
    BY <1>2, <1>4, <1>c, <2>1, <2>2, <2>4 DEF WorkInv, Charged
  <2>9. \A i \in Jobs \ {j} : Same(i)
    BY <1>u, <2>1 DEF Same
  <2> QED
    BY <2>5, <2>6, <2>7, <2>8, <2>9 DEF JobInv
<1> QED
  BY <1>1, <1>3, <1>4

\* Results are written while nobody has settled the job.
LEMMA IndexJob ==
  ASSUME TypeOK, NEW w \in Workers, NEW j \in Jobs, j = job[w], JobInv(j), WorkInv(w), IndexResults(w),
         faults' \in Nat, faults' >= faults
  PROVE  /\ JobInv(j)' /\ WorkInv(w)' /\ \A i \in Jobs \ {j} : Same(i)
         /\ ~Charged(j) /\ UNCHANGED <<claims, moved>>
<1>d. pc \in [Workers -> WorkStep] /\ faults \in Nat /\ cost \in [Jobs -> Costs]
  BY DEF TypeOK
<1>i. ClaimInv(j) /\ StageInv(j) /\ ChargeInv(j)
  BY DEF JobInv
<1>u. /\ UNCHANGED claims /\ UNCHANGED moved /\ UNCHANGED named /\ UNCHANGED retry /\ UNCHANGED status
      /\ UNCHANGED sub /\ UNCHANGED can /\ UNCHANGED rec
  BY DEF IndexResults
<1>c. ~Charged(j) /\ ~Charged(j)'
  BY <1>u DEF IndexResults, WorkInv, Charged
<1>1. \/ status[j] = "indexing" /\ \E c \in Costs : cost' = [cost EXCEPT ![j] = c]
      \/ UNCHANGED cost
  BY DEF IndexResults, Fails
<1>2. \A i \in Jobs \ {j} : Same(i)
  BY <1>1, <1>u, <1>d DEF Same
<1>3. JobInv(j)'
  <2>1. CASE UNCHANGED cost
    <3>1. Same(j)
      BY <1>u, <2>1 DEF Same
    <3> QED
      BY <3>1, SameKeeps
  <2>2. CASE status[j] = "indexing"
    <3>1. ClaimInv(j)'
      BY <1>i, <1>u DEF ClaimInv, Claimed, Charged
    <3>2. StageInv(j)'
      BY <1>i, <1>u, <2>2 DEF StageInv, Claimed, Ended
    <3>3. retry[j] = 0
      BY <1>i, <2>2 DEF ChargeInv, Terminal
    <3>4. ChargeInv(j)'
      BY <1>c, <1>u, <2>2, <3>3 DEF ChargeInv, Settled
    <3> QED
      BY <3>1, <3>2, <3>4 DEF JobInv
  <2> QED
    BY <1>1, <2>1, <2>2
<1>4. WorkInv(w)'
  <2>1. job'[w] = j
    BY DEF IndexResults, Goto
  <2>2. PICK s : pc'[w] = s /\ s \in {"toSettling", "toFailed", "idle"}
    BY <1>d DEF IndexResults, Goto
  <2>3. Arrived(s, j)'
    BY <1>c, <2>2 DEF Arrived
  <2> QED
    BY <2>1, <2>2, <2>3, Arrives
<1> QED
  BY <1>2, <1>3, <1>4, <1>c, <1>u

\* The job that was charged completes.
LEMMA MarkJob ==
  ASSUME TypeOK, NEW w \in Workers, NEW j \in Jobs, j = job[w], JobInv(j), WorkInv(w), MarkSettled(w),
         faults' \in Nat, faults' >= faults
  PROVE  JobInv(j)' /\ WorkInv(w)' /\ \A i \in Jobs \ {j} : Same(i)
<1>d. /\ pc \in [Workers -> WorkStep] /\ faults \in Nat /\ status \in [Jobs -> Status]
      /\ retry[j] \in Nat
  BY DEF TypeOK
<1>i. ClaimInv(j) /\ StageInv(j) /\ ChargeInv(j)
  BY DEF JobInv
<1>u. /\ UNCHANGED claims /\ UNCHANGED moved /\ UNCHANGED named /\ UNCHANGED retry /\ UNCHANGED cost
      /\ UNCHANGED sub /\ UNCHANGED can /\ UNCHANGED rec
  BY DEF MarkSettled
<1>c. Charged(j) /\ Charged(j)' /\ status[j] = "settling"
  BY <1>u DEF MarkSettled, WorkInv, Charged
<1>1. SetStatus(j, "completed") \/ UNCHANGED status
  BY DEF MarkSettled, Fails
<1>2. \A i \in Jobs \ {j} : Same(i)
  BY <1>1, <1>u, <1>d DEF Same, SetStatus
<1>3. JobInv(j)'
  <2>1. CASE UNCHANGED status
    <3>1. Same(j)
      BY <1>u, <2>1 DEF Same
    <3> QED
      BY <3>1, SameKeeps
  <2>2. CASE SetStatus(j, "completed")
    <3>1. status'[j] = "completed"
      BY <1>d, <2>2 DEF SetStatus
    <3>2. ClaimInv(j)'
      BY <1>i, <1>u DEF ClaimInv, Claimed, Charged
    <3>3. StageInv(j)'
      <4>1. ~Claimed(j, "release")
        BY <1>c, <1>i DEF ClaimInv
      <4>2. ~(can[j] = "release" \/ rec[j] = "release")
        BY <1>c, <1>i DEF StageInv, Ended
      <4> QED
        BY <1>i, <1>u, <4>1, <4>2 DEF StageInv, Claimed
    <3>4. ChargeInv(j)'
      BY <1>c, <1>d, <1>i, <1>u, <3>1 DEF ChargeInv, Settled, Terminal
    <3> QED
      BY <3>2, <3>3, <3>4 DEF JobInv
  <2> QED
    BY <1>1, <2>1, <2>2
<1>4. WorkInv(w)'
  <2>1. job'[w] = j
    BY DEF MarkSettled, Goto
  <2>2. PICK s : pc'[w] = s /\ s \in {"ack", "idle"}
    BY <1>d DEF MarkSettled, Goto
  <2>3. Arrived(s, j)'
    BY <2>2 DEF Arrived
  <2> QED
    BY <2>1, <2>2, <2>3, Arrives
<1> QED
  BY <1>2, <1>3, <1>4

\* A failed attempt is counted: one that could still succeed never reaches the limit.
LEMMA NoteJob ==
  ASSUME TypeOK, Steady, NEW w \in Workers, NEW j \in Jobs, j = job[w], JobInv(j), WorkInv(w),
         NoteFailure(w), faults <= MaxFaults, faults' \in Nat, faults' >= faults
  PROVE  JobInv(j)' /\ WorkInv(w)' /\ \A i \in Jobs \ {j} : Same(i)
<1>d. /\ pc \in [Workers -> WorkStep] /\ faults \in Nat /\ retry \in [Jobs -> 0..MaxRetries]
      /\ retry[j] \in Nat /\ cost[j] \in Nat
  BY Numbers DEF TypeOK, Costs
<1>i. ClaimInv(j) /\ StageInv(j) /\ ChargeInv(j)
  BY DEF JobInv
<1>u. /\ UNCHANGED claims /\ UNCHANGED moved /\ UNCHANGED named /\ UNCHANGED cost /\ UNCHANGED status
      /\ UNCHANGED sub /\ UNCHANGED can /\ UNCHANGED rec
  BY DEF NoteFailure
<1>1. /\ status[j] = "settling" /\ pc[w] \in {"noteCost", "noteBilling", "noteRelease"}
      /\ pc[w] = "noteBilling" => cost[j] <= Hold /\ retry[j] + 1 <= faults /\ retry[j] + 1 < MaxRetries
      /\ pc[w] # "noteBilling" => cost[j] > Hold
  <2>1. pc[w] \in {"noteCost", "noteBilling", "noteRelease"}
    BY DEF NoteFailure
  <2>2. pc[w] = "noteBilling" => cost[j] <= Hold /\ retry[j] < faults
    BY DEF WorkInv
  <2>3. status[j] = "settling" /\ (pc[w] # "noteBilling" => cost[j] > Hold)
    BY <2>1 DEF WorkInv
  <2>4. retry[j] < faults => retry[j] + 1 <= faults /\ retry[j] + 1 < MaxRetries
    BY <1>d, Numbers DEF Steady
  <2> QED
    BY <2>1, <2>2, <2>3, <2>4
<1>2. \/ retry' = [retry EXCEPT ![j] = IF retry[j] + 1 >= MaxRetries THEN MaxRetries ELSE @ + 1]
      \/ UNCHANGED retry
  BY DEF NoteFailure, Fails
<1>3. \A i \in Jobs \ {j} : Same(i)
  BY <1>2, <1>u, <1>d DEF Same
<1>4. cost[j] <= Hold => retry'[j] <= faults'
  <2>1. retry'[j] = retry[j] \/ (retry[j] + 1 < MaxRetries => retry'[j] = retry[j] + 1)
    BY <1>2, <1>d, Numbers
  <2>2. cost[j] <= Hold => retry[j] <= faults
    BY <1>i DEF ChargeInv
  <2>3. cost[j] <= Hold => retry[j] + 1 <= faults /\ retry[j] + 1 < MaxRetries
    BY <1>1, <1>d, Numbers
  <2> QED
    BY <1>d, <2>1, <2>2, <2>3
<1>5. JobInv(j)'
  <2>1. ClaimInv(j)'
    BY <1>i, <1>u DEF ClaimInv, Claimed, Charged
  <2>2. StageInv(j)'
    BY <1>i, <1>u DEF StageInv, Claimed
  <2>3. ChargeInv(j)'
    BY <1>1, <1>4, <1>i, <1>u DEF ChargeInv, Charged
  <2> QED
    BY <2>1, <2>2, <2>3 DEF JobInv
<1>6. WorkInv(w)'
  <2>1. job'[w] = j
    BY DEF NoteFailure, Goto
  <2>2. PICK s : pc'[w] = s /\ s \in {"idle", "check", "exRelease"}
                 /\ (s = "exRelease" => pc[w] = "noteCost" \/ retry[j] + 1 >= MaxRetries)
    BY <1>d DEF NoteFailure, Goto
  <2>3. s = "exRelease" => cost[j] > Hold
    BY <1>1, <1>d, <2>2, Numbers
  <2>4. Arrived(s, j)'
    BY <1>1, <1>u, <2>2, <2>3 DEF Arrived
  <2> QED
    BY <2>1, <2>2, <2>4, Arrives
<1> QED
  BY <1>3, <1>5, <1>6

\* A worker releases the hold of a job that has ended, or that cannot be settled.
LEMMA ReleaseWork ==
  ASSUME TypeOK, NEW w \in Workers, NEW j \in Jobs, j = job[w], JobInv(j), WorkInv(w),
         ReleaseTerminal(w) \/ ReleaseExhausted(w), faults' \in Nat, faults' >= faults
  PROVE  JobInv(j)' /\ WorkInv(w)' /\ (\A i \in Jobs \ {j} : Same(i)) /\ ~Charged(j) /\ UNCHANGED cost
<1>d. pc \in [Workers -> WorkStep] /\ faults \in Nat /\ LedgerTypeOK /\ cost[j] \in Nat /\ retry[j] \in Nat
  BY Parts, Numbers DEF TypeOK, Costs
<1>i. ClaimInv(j) /\ StageInv(j) /\ ChargeInv(j)
  BY DEF JobInv
<1>u. /\ UNCHANGED named /\ UNCHANGED retry /\ UNCHANGED cost /\ UNCHANGED status
      /\ UNCHANGED sub /\ UNCHANGED can /\ UNCHANGED rec
  BY DEF ReleaseTerminal, ReleaseExhausted
<1>1. \/ pc[w] = "release" /\ status[j] \in Ended
      \/ pc[w] = "exRelease" /\ status[j] = "settling" /\ cost[j] > Hold
  BY DEF ReleaseTerminal, ReleaseExhausted, WorkInv
<1>2. ~Charged(j)
  BY <1>1, <1>d, <1>i, Numbers DEF ChargeInv, Ended, Settled
<1>3. Release(j) \/ UNCHANGED <<balance, frozen, claims, moved>>
  BY DEF ReleaseTerminal, ReleaseExhausted, ReleaseSucceeds, ReleaseFails, Fails
<1>4. \A i \in Jobs \ {j} : Same(i)
  <2>1. Untouched(j)
    <3>1. CASE Release(j)
      BY <1>d, <3>1, ReleaseEffect
    <3>2. CASE UNCHANGED <<balance, frozen, claims, moved>>
      BY <3>2 DEF Untouched
    <3> QED
      BY <1>3, <3>1, <3>2
  <2> QED
    BY <1>u, <2>1 DEF Same, Untouched
<1>5. JobInv(j)'
  <2>1. CASE UNCHANGED <<balance, frozen, claims, moved>>
    <3>1. Same(j)
      BY <1>u, <2>1 DEF Same
    <3> QED
      BY <3>1, SameKeeps
  <2>2. CASE Release(j)
    <3>1. ClaimInv(j)' /\ ("hold" \in claims'[j] <=> "hold" \in claims[j]) /\ "capture" \notin moved'[j]
      BY <1>2, <1>i, <2>2, ReleaseClaims
    <3>2. StageInv(j)'
      BY <1>1, <1>i, <1>u, <3>1 DEF StageInv, Claimed
    <3> QED
      BY <1>2, <1>u, <3>1, <3>2, StageStep DEF Charged
  <2> QED
    BY <1>3, <2>1, <2>2
<1>6. WorkInv(w)'
  <2>1. job'[w] = j
    BY DEF ReleaseTerminal, ReleaseExhausted, Goto
  <2>2. PICK s : /\ pc'[w] = s
                 /\ s \in {"idle", "ack"} \/ (s \in {"exFail", "noteRelease"} /\ pc[w] = "exRelease")
    BY <1>d DEF ReleaseTerminal, ReleaseExhausted, Goto
  <2>3. Arrived(s, j)'
    BY <1>1, <1>u, <2>2 DEF Arrived
  <2> QED
    BY <2>1, <2>2, <2>3, Arrives
<1> QED
  BY <1>2, <1>4, <1>5, <1>6, <1>u

\* A hold that is there can be captured.
LEMMA CaptureJob ==
  ASSUME TypeOK, NEW w \in Workers, NEW j \in Jobs, j = job[w], NameInv(j), JobInv(j), WorkInv(w),
         CaptureHold(w), Open(j) => frozen >= Hold, faults' \in Nat, faults' >= faults
  PROVE  JobInv(j)' /\ WorkInv(w)' /\ (\A i \in Jobs \ {j} : Same(i)) /\ ~Claimed(j, "release") /\ UNCHANGED cost
<1>d. /\ pc \in [Workers -> WorkStep] /\ faults \in Nat /\ LedgerTypeOK /\ cost[j] \in Costs /\ cost[j] \in Nat
      /\ retry[j] \in Nat
  BY Parts, Numbers DEF TypeOK, Costs
<1>i. ClaimInv(j) /\ StageInv(j) /\ ChargeInv(j)
  BY DEF JobInv
<1>u. /\ UNCHANGED named /\ UNCHANGED retry /\ UNCHANGED cost /\ UNCHANGED status
      /\ UNCHANGED sub /\ UNCHANGED can /\ UNCHANGED rec
  BY DEF CaptureHold
<1>1. pc[w] = "capture" /\ status[j] = "settling" /\ cost[j] <= Hold /\ named[j]
  BY DEF CaptureHold, WorkInv, NameInv, Ended
<1>2. Claimed(j, "hold") /\ ~Claimed(j, "release")
  BY <1>1, <1>d, <1>i, Numbers DEF StageInv, Ended
<1>3. CanCapture(j, cost[j])
  <2>1. Claimed(j, "capture") \/ Open(j)
    BY <1>2, <1>i DEF ClaimInv, Charged, Open
  <2> QED
    BY <1>1, <2>1 DEF CanCapture
<1>4. \/ Capture(j, cost[j]) /\ pc'[w] = "settled"
      \/ Capture(j, cost[j]) /\ pc'[w] = "noteBilling" /\ Fault
      \/ UNCHANGED <<balance, frozen, claims, moved>> /\ pc'[w] = "noteBilling" /\ Fault
  BY <1>3, <1>d DEF CaptureHold, Goto, Fails
<1>5. /\ Untouched(j) /\ "release" \notin claims'[j] /\ ClaimInv(j)'
      /\ "hold" \in claims'[j]
      /\ Capture(j, cost[j]) => "capture" \in moved'[j]
  <2>1. CASE Capture(j, cost[j])
    <3>1. /\ Untouched(j)
          /\ \/ "capture" \in claims[j] /\ UNCHANGED claims /\ UNCHANGED moved
             \/ claims'[j] = claims[j] \cup {"capture"} /\ moved'[j] = moved[j] \cup {"capture"}
      BY <1>d, <2>1, CaptureEffect DEF Claimed
    <3> QED
      BY <1>2, <1>i, <3>1 DEF ClaimInv, Claimed, Charged
  <2>2. CASE UNCHANGED <<balance, frozen, claims, moved>> /\ ~Capture(j, cost[j])
    BY <1>2, <1>i, <2>2 DEF ClaimInv, Claimed, Charged, Untouched
  <2> QED
    BY <1>4, <2>1, <2>2
<1>6. \A i \in Jobs \ {j} : Same(i)
  BY <1>5, <1>u DEF Same, Untouched
<1>7. JobInv(j)'
  <2>1. StageInv(j)'
    BY <1>5, <1>i, <1>u DEF StageInv, Claimed
  <2>2. ChargeInv(j)'
    BY <1>1, <1>d, <1>i, <1>u DEF ChargeInv, Charged, Settled, Terminal
  <2> QED
    BY <1>5, <2>1, <2>2 DEF JobInv
<1>8. WorkInv(w)'
  <2>1. job'[w] = j
    BY DEF CaptureHold, Goto
  <2>2. PICK s : pc'[w] = s
    OBVIOUS
  <2>3. retry[j] <= faults /\ (Fault => retry'[j] < faults')
    BY <1>1, <1>d, <1>i, <1>u DEF ChargeInv, Fault
  <2>4. Arrived(s, j)'
    BY <1>1, <1>4, <1>5, <1>u, <2>2, <2>3 DEF Arrived, Charged
  <2> QED
    BY <2>1, <2>2, <2>4, Arrives
<1> QED
  BY <1>2, <1>6, <1>7, <1>8, <1>u

LEMMA WorkJob ==
  ASSUME TypeOK, Steady, NEW w \in Workers, NEW j \in Jobs, j = job[w], NameInv(j), KnownInv(w),
         JobInv(j), WorkInv(w), faults <= MaxFaults, Open(j) => frozen >= Hold,
         Take(w) \/ WorkNext(w) \/ WorkerDies(w), faults' \in Nat, faults' >= faults
  PROVE  JobInv(j)' /\ WorkInv(w)' /\ \A i \in Jobs \ {j} : Same(i)
<1>1. CASE \/ Take(w) \/ WorkerDies(w) \/ ReadPipeline(w) \/ ReadJob(w) \/ AskProvider(w)
           \/ Acknowledge(w) \/ ReadSettling(w) \/ CheckEnded(w)
  BY <1>1, LookingWork, SameKeeps
<1>2. CASE \/ Transition(w) \/ IndexResults(w) \/ MarkSettled(w) \/ NoteFailure(w)
           \/ ReleaseTerminal(w) \/ ReleaseExhausted(w) \/ CaptureHold(w)
  BY <1>2, TransitionJob, IndexJob, MarkJob, NoteJob, ReleaseWork, CaptureJob
<1> QED
  BY <1>1, <1>2 DEF WorkNext

-----------------------------------------------------------------------------
(* The money. *)

LEMMA FiniteUnits ==
  ASSUME NEW S, S \subseteq Jobs \X (1..(Hold + 1))
  PROVE  IsFiniteSet(S) /\ Cardinality(S) \in Nat
<1>1. IsFiniteSet(1..(Hold + 1))
  BY Numbers, FS_Interval
<1>2. IsFiniteSet(Jobs \X (1..(Hold + 1)))
  BY <1>1, PeopleAssumption, FS_Product
<1> QED
  BY <1>2, FS_Subset, FS_CardinalityType

LEMMA FiniteJobs ==
  ASSUME NEW S, S \subseteq Jobs
  PROVE  IsFiniteSet(S) /\ Cardinality(S) \in Nat
  BY PeopleAssumption, FS_Subset, FS_CardinalityType

LEMMA Block ==
  ASSUME NEW j \in Jobs, NEW c \in 0..(Hold + 1)
  PROVE  /\ {j} \X (1..c) \subseteq Jobs \X (1..(Hold + 1))
         /\ Cardinality({j} \X (1..c)) = c
<1>1. c \in Nat /\ c <= Hold + 1
  BY Numbers
<1>2. IsFiniteSet(1..c) /\ Cardinality(1..c) = c
  BY <1>1, FS_Interval
<1>3. IsFiniteSet({j}) /\ Cardinality({j}) = 1
  BY FS_Singleton
<1>4. Cardinality({j} \X (1..c)) = Cardinality({j}) * Cardinality(1..c)
  BY <1>2, <1>3, FS_Product
<1>5. Cardinality({j} \X (1..c)) = 1 * c
  BY <1>2, <1>3, <1>4, Zenon
<1>6. {j} \X (1..c) \subseteq Jobs \X (1..(Hold + 1))
  <2>1. {j} \subseteq Jobs /\ 1..c \subseteq 1..(Hold + 1)
    BY <1>1, Numbers
  <2> QED
    BY <2>1
<1> QED
  BY <1>1, <1>5, <1>6

LEMMA UnitsAndJobs ==
  /\ OpenJobs \subseteq Jobs /\ PaidUnits \subseteq Jobs \X (1..(Hold + 1))
  /\ Cardinality(OpenJobs) \in Nat /\ Cardinality(PaidUnits) \in Nat
<1>1. OpenJobs \subseteq Jobs /\ PaidUnits \subseteq Jobs \X (1..(Hold + 1))
  BY DEF OpenJobs, PaidUnits
<1> QED
  BY <1>1, FiniteJobs, FiniteUnits

\* The money of an open hold is in the frozen balance.
LEMMA EnoughFrozen ==
  ASSUME TypeOK, MoneyAddsUp, NEW j \in Jobs, Open(j)
  PROVE  frozen >= Hold
<1> DEFINE n == Cardinality(OpenJobs)
<1>1. n \in Nat /\ n # 0
  <2>1. j \in OpenJobs
    BY DEF OpenJobs
  <2> QED
    BY <2>1, UnitsAndJobs, FiniteJobs, FS_EmptySet
<1>2. Hold * n >= Hold
  <2> HIDE DEF n
  <2>1. PICK m \in Nat : n = m + 1
    <3>1. n - 1 \in Nat /\ n = (n - 1) + 1
      BY <1>1
    <3> QED
      BY <3>1
  <2>2. Hold * (m + 1) = Hold * m + Hold /\ Hold * m \in Nat
    BY Numbers
  <2> QED
    BY <2>1, <2>2, Numbers
<1>3. frozen = Others + Hold * n /\ Hold * n \in Nat
  BY <1>1, Numbers DEF MoneyAddsUp
<1> HIDE DEF n
<1> QED
  BY <1>2, <1>3, Numbers

\* No money moves, and no charged job changes its cost.
LEMMA MoneyKept ==
  ASSUME TypeOK, MoneyAddsUp, UNCHANGED balance, UNCHANGED frozen,
         \A i \in Jobs : moved'[i] = moved[i] /\ (Charged(i) => cost'[i] = cost[i])
  PROVE  MoneyAddsUp'
<1>1. OpenJobs' = OpenJobs
  BY DEF OpenJobs, Open
<1>2. PaidUnits' = PaidUnits
  BY DEF PaidUnits, Charged
<1> QED
  BY <1>1, <1>2 DEF MoneyAddsUp

\* Neither a hold nor its release charges anybody.
LEMMA PaidSame ==
  ASSUME NEW j \in Jobs, \A i \in Jobs \ {j} : moved'[i] = moved[i] /\ cost'[i] = cost[i],
         cost'[j] = cost[j], "capture" \in moved'[j] <=> "capture" \in moved[j]
  PROVE  PaidUnits' = PaidUnits
<1>1. \A i \in Jobs : cost'[i] = cost[i] /\ ("capture" \in moved'[i] <=> "capture" \in moved[i])
  OBVIOUS
<1> QED
  BY <1>1 DEF PaidUnits, Charged

LEMMA OneMore ==
  ASSUME NEW n \in Nat
  PROVE  Hold * n \in Nat /\ Hold * (n + 1) = Hold * n + Hold
  BY Numbers

\* A job's hold becomes open: its money is added to the frozen balance.
LEMMA MoneyHeld ==
  ASSUME TypeOK, MoneyAddsUp, NEW j \in Jobs, ClaimInv(j), Reserve(j), UNCHANGED cost
  PROVE  MoneyAddsUp'
<1>0. /\ Untouched(j)
      /\ \/ UNCHANGED <<balance, frozen, claims, moved>>
         \/ /\ ~Claimed(j, "hold") /\ moved'[j] = moved[j] \cup {"hold"}
            /\ balance' = balance - Hold /\ frozen' = frozen + Hold
  BY ReserveEffect, Parts
<1>1. CASE UNCHANGED <<balance, frozen, claims, moved>>
  BY <1>1, MoneyKept
<1>2. CASE /\ ~Claimed(j, "hold") /\ moved'[j] = moved[j] \cup {"hold"}
           /\ balance' = balance - Hold /\ frozen' = frozen + Hold
  <2>1. moved[j] = {}
    BY <1>2 DEF ClaimInv
  <2>2. j \notin OpenJobs /\ OpenJobs' = OpenJobs \cup {j}
    BY <1>0, <1>2, <2>1 DEF OpenJobs, Open, Untouched
  <2>3. Cardinality(OpenJobs') = Cardinality(OpenJobs) + 1
    BY <2>2, UnitsAndJobs, FiniteJobs, FS_AddElement
  <2>4. PaidUnits' = PaidUnits
    BY <1>0, <1>2, PaidSame DEF Untouched
  <2>5. Hold * Cardinality(OpenJobs') = Hold * Cardinality(OpenJobs) + Hold /\ Hold * Cardinality(OpenJobs) \in Nat
    BY <2>3, UnitsAndJobs, OneMore
  <2>6. frozen' = Others + Hold * Cardinality(OpenJobs')
    BY <1>2, <2>5, Numbers DEF MoneyAddsUp
  <2>7. balance' + frozen' = Funds + Others - Cardinality(PaidUnits')
    BY <1>2, <2>4, Numbers DEF MoneyAddsUp, TypeOK, LedgerTypeOK
  <2> QED
    BY <2>6, <2>7 DEF MoneyAddsUp
<1> QED
  BY <1>0, <1>1, <1>2

\* A hold that was open is closed.
LEMMA Closed ==
  ASSUME TypeOK, NEW j \in Jobs, Open(j), Untouched(j), ~Open(j)'
  PROVE  Hold * Cardinality(OpenJobs) = Hold * Cardinality(OpenJobs') + Hold /\ Hold * Cardinality(OpenJobs') \in Nat
<1>1. j \in OpenJobs /\ OpenJobs' = OpenJobs \ {j}
  BY DEF OpenJobs, Open, Untouched
<1>2. Cardinality(OpenJobs) = Cardinality(OpenJobs') + 1 /\ Cardinality(OpenJobs') \in Nat
  <2>1. IsFiniteSet(OpenJobs) /\ IsFiniteSet(OpenJobs \ {j}) /\ Cardinality(OpenJobs \ {j}) \in Nat
        /\ Cardinality(OpenJobs) \in Nat
    BY UnitsAndJobs, FiniteJobs
  <2>2. Cardinality(OpenJobs \ {j}) = Cardinality(OpenJobs) - 1
    BY <1>1, <2>1, FS_RemoveElement
  <2> QED
    BY <1>1, <2>1, <2>2
<1> QED
  BY <1>2, OneMore

LEMMA MoneyReleased ==
  ASSUME TypeOK, MoneyAddsUp, NEW j \in Jobs, ClaimInv(j), ~Charged(j), Release(j), UNCHANGED cost
  PROVE  MoneyAddsUp'
<1>0. /\ Untouched(j)
      /\ \/ UNCHANGED <<balance, frozen, claims, moved>>
         \/ UNCHANGED balance /\ UNCHANGED frozen /\ moved'[j] = moved[j]
         \/ /\ ~Claimed(j, "release") /\ Claimed(j, "hold") /\ moved'[j] = moved[j] \cup {"release"}
            /\ balance' = balance + Hold /\ frozen' = frozen - Hold
  BY ReleaseEffect, Parts
<1>1. CASE UNCHANGED balance /\ UNCHANGED frozen /\ moved'[j] = moved[j]
  BY <1>0, <1>1, MoneyKept DEF Untouched
<1>2. CASE /\ ~Claimed(j, "release") /\ Claimed(j, "hold") /\ moved'[j] = moved[j] \cup {"release"}
           /\ balance' = balance + Hold /\ frozen' = frozen - Hold
  <2>1. Open(j) /\ ~Open(j)'
    BY <1>2 DEF ClaimInv, Charged, Open
  <2>2. Hold * Cardinality(OpenJobs) = Hold * Cardinality(OpenJobs') + Hold /\ Hold * Cardinality(OpenJobs') \in Nat
    BY <1>0, <2>1, Closed
  <2>3. PaidUnits' = PaidUnits
    BY <1>0, <1>2, PaidSame DEF Untouched
  <2>4. frozen' = Others + Hold * Cardinality(OpenJobs')
    BY <1>2, <2>2, Numbers DEF MoneyAddsUp
  <2>5. balance' + frozen' = Funds + Others - Cardinality(PaidUnits')
    BY <1>2, <2>3, Numbers DEF MoneyAddsUp, TypeOK, LedgerTypeOK
  <2> QED
    BY <2>4, <2>5 DEF MoneyAddsUp
<1> QED
  BY <1>0, <1>1, <1>2

LEMMA MoneyCaptured ==
  ASSUME TypeOK, MoneyAddsUp, NEW j \in Jobs, ClaimInv(j), ~Claimed(j, "release"), Claimed(j, "hold"),
         Capture(j, cost[j]), UNCHANGED cost
  PROVE  MoneyAddsUp'
<1>c. cost[j] \in Costs /\ cost[j] \in 0..(Hold + 1)
  BY DEF TypeOK, Costs
<1>0. /\ Untouched(j)
      /\ \/ UNCHANGED <<balance, frozen, claims, moved>>
         \/ /\ ~Claimed(j, "capture") /\ moved'[j] = moved[j] \cup {"capture"}
            /\ balance' = balance + Hold - cost[j] /\ frozen' = frozen - Hold
  BY <1>c, CaptureEffect, Parts
<1>1. CASE UNCHANGED <<balance, frozen, claims, moved>>
  BY <1>1, MoneyKept
<1>2. CASE /\ ~Claimed(j, "capture") /\ moved'[j] = moved[j] \cup {"capture"}
           /\ balance' = balance + Hold - cost[j] /\ frozen' = frozen - Hold
  <2>1. Open(j) /\ ~Open(j)' /\ ~Charged(j)
    BY <1>2 DEF ClaimInv, Charged, Open
  <2>2. Hold * Cardinality(OpenJobs) = Hold * Cardinality(OpenJobs') + Hold /\ Hold * Cardinality(OpenJobs') \in Nat
    BY <1>0, <2>1, Closed
  <2> DEFINE B == {j} \X (1..cost[j])
  <2>3. B \subseteq Jobs \X (1..(Hold + 1)) /\ Cardinality(B) = cost[j]
    BY <1>c, Block
  <2>4. PaidUnits' = PaidUnits \cup B /\ PaidUnits \cap B = {}
    <3>1. \A i \in Jobs : Charged(i)' <=> Charged(i) \/ i = j
      BY <1>0, <1>2 DEF Charged, Untouched
    <3>2. PaidUnits' = {u \in Jobs \X (1..(Hold + 1)) : (Charged(u[1]) \/ u[1] = j) /\ u[2] <= cost[u[1]]}
      BY <3>1 DEF PaidUnits
    <3>3. {u \in Jobs \X (1..(Hold + 1)) : u[1] = j /\ u[2] <= cost[u[1]]} = B
      BY <1>c, Numbers
    <3>4. PaidUnits' = PaidUnits \cup {u \in Jobs \X (1..(Hold + 1)) : u[1] = j /\ u[2] <= cost[u[1]]}
      BY <3>2 DEF PaidUnits
    <3>5. PaidUnits \cap B = {}
      BY <2>1 DEF PaidUnits
    <3> QED
      BY <3>3, <3>4, <3>5
  <2>5. Cardinality(PaidUnits') = Cardinality(PaidUnits) + cost[j]
    <3>1. IsFiniteSet(PaidUnits) /\ IsFiniteSet(B) /\ Cardinality(PaidUnits) \in Nat
      BY <2>3, UnitsAndJobs, FiniteUnits
    <3>2. Cardinality(PaidUnits \cup B) = Cardinality(PaidUnits) + Cardinality(B) - Cardinality(PaidUnits \cap B)
      BY <3>1, FS_Union
    <3>3. Cardinality(PaidUnits \cap B) = 0
      BY <2>4, FS_EmptySet
    <3> HIDE DEF B
    <3> QED
      BY <1>c, <2>3, <2>4, <3>1, <3>2, <3>3, Numbers
  <2>6. frozen' = Others + Hold * Cardinality(OpenJobs')
    BY <1>2, <2>2, Numbers DEF MoneyAddsUp
  <2>7. balance' + frozen' = Funds + Others - Cardinality(PaidUnits')
    <3>1. balance + frozen = Funds + Others - Cardinality(PaidUnits) /\ Cardinality(PaidUnits) \in Nat
          /\ balance \in Int /\ frozen \in Int /\ cost[j] \in Int
      BY <1>c, UnitsAndJobs DEF MoneyAddsUp, TypeOK, LedgerTypeOK
    <3> QED
      BY <1>2, <2>5, <3>1, Numbers
  <2> QED
    BY <2>6, <2>7 DEF MoneyAddsUp
<1> QED
  BY <1>0, <1>1, <1>2

\* Every step that moves money keeps the account.
LEMMA NextMoney ==
  ASSUME HoldInv, [Next]_vars
  PROVE  MoneyAddsUp'
<1>t. TypeOK /\ MoneyAddsUp /\ \A j \in Jobs : NameInv(j) /\ JobInv(j)
  BY DEF HoldInv, RowInv
<1>1. ASSUME NEW j \in Jobs,
             \/ SubmitNext(j) \/ SubmitAgain(j) \/ SubmitDies(j)
             \/ ReadToCancel(j) \/ CancelNext(j) \/ CancelDies(j)
             \/ RecoverNext(j) \/ RecoveryDies(j)
             \/ ProviderEnds(j) \/ DeleteOutput(j)
      PROVE  MoneyAddsUp'
  <2>1. UNCHANGED cost
    BY <1>1, JobActions
  <2>2. CASE UNCHANGED ledger
    BY <1>t, <2>1, <2>2, MoneyKept
  <2>3. CASE Reserve(j)
    BY <1>t, <2>1, <2>3, MoneyHeld DEF JobInv
  <2>4. CASE Release(j) /\ ~Charged(j)
    BY <1>t, <2>1, <2>4, MoneyReleased DEF JobInv
\* A request has charged nothing while it undoes its hold, and whoever else
\* releases one has seen the job ended.
  <2>5. Release(j) /\ ~Reserve(j) /\ ~UNCHANGED ledger => ~Charged(j)
    <3>1. Release(j) /\ ~Reserve(j) /\ ~UNCHANGED ledger => UndoHold(j) \/ ReleaseCancelled(j) \/ ReleaseStale(j)
      BY <1>1 DEF SubmitNext, SubmitAgain, SubmitDies, Create, ReserveHold, CreateItems, StartUpload, SubmitUpstream,
         RecordSubmitted, EnqueueSubmitted, AbortOrphan, FailSubmit, EnqueueUndo,
         ReadToCancel, CancelNext, CancelDies, RecoverNext, RecoveryDies, ProviderEnds, DeleteOutput,
         MarkCancelled, EnqueueCancelled, StopUpstream, WakeWorker,
         FailStale, EnqueueStale, Fails
    <3>2. UndoHold(j) => status[j] \notin {"settling"} \cup Settled
      BY <1>t DEF UndoHold, NameInv, Ended, Settled
    <3>3. ReleaseCancelled(j) \/ ReleaseStale(j) => status[j] \in Ended
      BY <1>t DEF ReleaseCancelled, ReleaseStale, JobInv, StageInv
    <3>4. Charged(j) => status[j] \in {"settling"} \cup Settled
      BY <1>t DEF JobInv, ChargeInv
    <3> QED
      BY <3>1, <3>2, <3>3, <3>4 DEF Ended, Settled
  <2> QED
    BY <1>1, <2>2, <2>3, <2>4, <2>5, JobLedger
<1>2. ASSUME NEW w \in Workers, Take(w) \/ WorkNext(w) \/ WorkerDies(w)
      PROVE  MoneyAddsUp'
  <2>1. PICK j \in Jobs : j = job[w]
    BY <1>t DEF TypeOK
  <2>2. WorkInv(w) /\ JobInv(j) /\ NameInv(j) /\ (Open(j) => frozen >= Hold)
        /\ faults' \in Nat /\ faults' >= faults
    <3>1. faults' \in Nat /\ faults' >= faults
      BY <1>2, <1>t, WorkFaults, FaultType
    <3> QED
      BY <1>t, <2>1, <3>1, EnoughFrozen DEF HoldInv
  <2>3. CASE ReleaseTerminal(w) \/ ReleaseExhausted(w)
    <3>1. ~Charged(j) /\ UNCHANGED cost
      BY <1>t, <2>1, <2>2, <2>3, ReleaseWork
    <3>2. Release(j) \/ UNCHANGED ledger
      BY <2>1, <2>3 DEF ReleaseTerminal, ReleaseExhausted, ReleaseSucceeds, ReleaseFails, Fails
    <3> QED
      BY <1>t, <2>2, <3>1, <3>2, MoneyReleased, MoneyKept DEF JobInv
  <2>4. CASE CaptureHold(w)
    <3>1. ~Claimed(j, "release") /\ UNCHANGED cost
      BY <1>t, <2>1, <2>2, <2>4, CaptureJob
    <3>2. Claimed(j, "hold")
      <4>1. status[j] = "settling"
        BY <2>1, <2>2, <2>4 DEF CaptureHold, WorkInv
      <4> QED
        BY <2>2, <4>1 DEF NameInv, JobInv, StageInv, Ended
    <3>3. Capture(j, cost[j]) \/ UNCHANGED ledger
      BY <2>1, <2>4 DEF CaptureHold, Fails
    <3> QED
      BY <1>t, <2>2, <3>1, <3>2, <3>3, MoneyCaptured, MoneyKept DEF JobInv
  <2>5. CASE IndexResults(w)
    <3>1. (\A i \in Jobs \ {j} : Same(i)) /\ ~Charged(j)
      BY <1>t, <2>1, <2>2, <2>5, IndexJob
    <3>2. UNCHANGED ledger
      BY <2>5 DEF IndexResults
    <3> QED
      BY <1>t, <3>1, <3>2, MoneyKept DEF Same
  <2>6. CASE UNCHANGED ledger /\ UNCHANGED cost
    BY <1>t, <2>6, MoneyKept
  <2>7. \/ UNCHANGED ledger /\ UNCHANGED cost
        \/ IndexResults(w) \/ CaptureHold(w) \/ ReleaseTerminal(w) \/ ReleaseExhausted(w)
    BY <1>2 DEF Take, WorkNext, WorkerDies, ReadPipeline, ReadJob, AskProvider, Transition,
       Acknowledge, ReadSettling, MarkSettled, NoteFailure, CheckEnded
  <2> QED
    BY <2>3, <2>4, <2>5, <2>6, <2>7
<1>3. CASE UNCHANGED vars
  BY <1>t, <1>3, MoneyKept DEF vars
<1> QED
  BY <1>1, <1>2, <1>3 DEF Next

\* What a step leaves of the jobs and the workers it is not about.
LEMMA OthersKept ==
  ASSUME HoldInv, NEW j \in Jobs, NEW W, JobInv(j)', Keeps(j),
         \A i \in Jobs \ {j} : Same(i), faults' \in Nat, faults' >= faults,
         W \subseteq Workers, \A v \in W : pc'[v] = pc[v] /\ job'[v] = job[v]
  PROVE  (\A i \in Jobs : JobInv(i)') /\ \A v \in W : WorkInv(v)'
<1>t. TypeOK /\ (\A i \in Jobs : JobInv(i)) /\ \A v \in Workers : WorkInv(v) /\ job[v] \in Jobs
  BY DEF HoldInv, RowInv, TypeOK
<1>1. \A i \in Jobs \ {j} : JobInv(i)' /\ Keeps(i)
  BY <1>t, SameKeeps
<1>2. ASSUME NEW v \in W PROVE WorkInv(v)'
  <2>1. PICK i \in Jobs : i = job[v]
    BY <1>t
  <2>2. Keeps(i)
    BY <1>1
  <2> QED
    BY <1>t, <2>1, <2>2, WorkKept
<1> QED
  BY <1>1, <1>2

LEMMA NextHold ==
  ASSUME Steady, HoldInv, [Next]_vars
  PROVE  HoldInv'
<1>t. TypeOK /\ MoneyAddsUp /\ SoleInv /\ RowInv /\ faults <= MaxFaults /\ ~LocksExpire
      /\ \A j \in Jobs : NameInv(j) /\ JobInv(j)
  BY DEF HoldInv, RowInv, Steady
<1>w. \A v \in Workers : WorkInv(v) /\ KnownInv(v) /\ job[v] \in Jobs
  BY <1>t DEF HoldInv, RowInv, TypeOK
<1>f. faults' >= faults /\ faults' <= MaxFaults /\ faults' \in Nat
  BY <1>t, NextFaults, NextTypes DEF TypeOK
<1>g. RowInv' /\ SoleInv' /\ MoneyAddsUp'
  BY <1>t, NextNames, NextSole, NextMoney
<1>r. ASSUME (\A j \in Jobs : JobInv(j)') /\ \A v \in Workers : WorkInv(v)'
      PROVE  HoldInv'
  BY <1>f, <1>g, <1>r DEF HoldInv
<1>1. ASSUME NEW j \in Jobs,
             \/ SubmitNext(j) \/ SubmitAgain(j) \/ SubmitDies(j)
             \/ ReadToCancel(j) \/ CancelNext(j) \/ CancelDies(j)
             \/ RecoverNext(j) \/ RecoveryDies(j)
             \/ ProviderEnds(j) \/ DeleteOutput(j)
      PROVE  HoldInv'
  <2>1. JobInv(j)' /\ Keeps(j) /\ \A i \in Jobs \ {j} : Same(i)
    BY <1>1, <1>f, <1>t, RequestJob, SideJob
  <2>2. \A v \in Workers : pc'[v] = pc[v] /\ job'[v] = job[v]
    BY <1>1, JobActions
  <2> QED
    BY <1>f, <1>r, <2>1, <2>2, OthersKept
<1>2. ASSUME NEW w \in Workers, Take(w) \/ WorkNext(w) \/ WorkerDies(w)
      PROVE  HoldInv'
  <2>1. PICK j \in Jobs : j = job[w]
    BY <1>w
  <2>2. JobInv(j)' /\ WorkInv(w)' /\ \A i \in Jobs \ {j} : Same(i)
    <3>1. Open(j) => frozen >= Hold
      BY <1>t, EnoughFrozen
    <3> QED
      BY <1>2, <1>f, <1>t, <1>w, <2>1, <3>1, WorkJob
  <2>3. \A v \in Workers \ {w} : pc'[v] = pc[v] /\ job'[v] = job[v]
    BY <1>2, <1>t, <1>w, <2>1, WorkNames
  <2>4. \A i \in Jobs : JobInv(i)'
    BY <1>f, <1>t, <2>2, SameKeeps
  <2>5. ASSUME NEW v \in Workers \ {w} PROVE WorkInv(v)'
    <3>1. CASE pc[v] = "idle"
      BY <2>3, <3>1, IdleWork
\* Nobody else has the job of a worker at work, and one that is not yet has none.
    <3>2. CASE pc[v] # "idle" /\ pc[w] # "idle"
      <4>1. PICK i \in Jobs : i = job[v]
        BY <1>w
      <4>2. i # j
        BY <1>t, <2>1, <3>2, <4>1 DEF SoleInv
      <4>3. Keeps(i)
        BY <1>f, <1>t, <2>2, <4>2, SameKeeps
      <4> QED
        BY <1>f, <1>t, <1>w, <2>3, <4>1, <4>3, WorkKept
    <3>3. CASE pc[w] = "idle"
      <4>1. Take(w)
        BY <1>2, <3>3, WorkBusy
      <4>2. \A i \in Jobs : Same(i)
        BY <4>1 DEF Take, Same
      <4>3. PICK i \in Jobs : i = job[v]
        BY <1>w
      <4>4. Keeps(i)
        BY <1>f, <1>t, <4>2, SameKeeps
      <4> QED
        BY <1>f, <1>t, <1>w, <2>3, <4>3, <4>4, WorkKept
    <3> QED
      BY <3>1, <3>2, <3>3
  <2> QED
    BY <1>r, <2>2, <2>4, <2>5
<1>3. CASE UNCHANGED vars
  <2>1. \A i \in Jobs : Same(i)
    BY <1>3 DEF vars, Same
  <2>2. \A i \in Jobs : JobInv(i)' /\ Keeps(i)
    BY <1>f, <1>t, <2>1, SameKeeps
  <2>3. ASSUME NEW v \in Workers PROVE WorkInv(v)'
    <3>1. PICK i \in Jobs : i = job[v]
      BY <1>w
    <3>2. pc'[v] = pc[v] /\ job'[v] = job[v]
      BY <1>3 DEF vars
    <3> QED
      BY <1>f, <1>t, <1>w, <2>2, <3>1, <3>2, WorkKept
  <2> QED
    BY <1>r, <2>2, <2>3
<1> QED
  BY <1>1, <1>2, <1>3 DEF Next

LEMMA InitHold ==
  ASSUME Init
  PROVE  HoldInv
<1>1. ASSUME NEW j \in Jobs PROVE JobInv(j) /\ ~Open(j) /\ ~Charged(j)
  <2>1. /\ claims[j] = {} /\ moved[j] = {} /\ status[j] = "none" /\ named[j] = FALSE
        /\ retry[j] = 0 /\ faults = 0 /\ sub[j] = "new" /\ can[j] = "idle" /\ rec[j] = "idle"
    BY DEF Init, LedgerInit
  <2>2. ClaimInv(j) /\ ~Open(j) /\ ~Charged(j)
    BY <2>1 DEF ClaimInv, Claimed, Charged, Open
  <2>3. StageInv(j)
    BY <2>1 DEF StageInv, Claimed
  <2>4. ChargeInv(j)
    BY <2>1, <2>2 DEF ChargeInv, Settled
  <2> QED
    BY <2>2, <2>3, <2>4 DEF JobInv
<1>2. ASSUME NEW w \in Workers PROVE WorkInv(w) /\ pc[w] = "idle"
  <2>1. pc[w] = "idle"
    BY DEF Init
  <2> QED
    BY <2>1 DEF WorkInv
<1>3. MoneyAddsUp
  <2>1. OpenJobs = {} /\ PaidUnits = {}
    BY <1>1 DEF OpenJobs, PaidUnits
  <2>2. Cardinality(OpenJobs) = 0 /\ Cardinality(PaidUnits) = 0
    BY <2>1, FS_EmptySet
  <2>3. frozen = Others /\ balance = Funds
    BY DEF Init, LedgerInit
  <2> QED
    BY <2>2, <2>3, Numbers DEF MoneyAddsUp
<1>4. SoleInv
  BY <1>2 DEF SoleInv
<1>5. faults <= MaxFaults
  BY Numbers DEF Init
<1> QED
  BY <1>1, <1>2, <1>3, <1>4, <1>5, InitNames DEF HoldInv

\* The inductive invariant holds as long as no worker goes on without its lock
\* and a job meets fewer faults than it has attempts to settle.
THEOREM HoldInvariance == Steady /\ Spec => []HoldInv
<1>1. Steady /\ Init => HoldInv
  BY InitHold
<1>2. Steady /\ HoldInv /\ [Next]_vars => HoldInv'
  BY NextHold
<1>3. Steady' <=> Steady
  BY DEF Steady
<1> QED
  BY <1>1, <1>2, <1>3, PTL DEF Spec

\* A job is charged exactly when it completes, and a failed or cancelled one
\* costs nothing (batch_image_settlement.go, MarkBatchImageJobSettled,
\* failExhaustedSettlement).
THEOREM ChargedOnCompletion == Steady /\ Spec => []ChargedIfCompleted
<1>1. HoldInv => ChargedIfCompleted
  <2> SUFFICES ASSUME HoldInv, NEW j \in Jobs
               PROVE  /\ status[j] \in {"completed", "output_deleted"} => Charged(j) /\ "release" \notin moved[j]
                      /\ status[j] \in {"failed", "cancelled"} => ~Charged(j)
    BY DEF ChargedIfCompleted
  <2>1. ClaimInv(j) /\ ChargeInv(j)
    BY DEF HoldInv, JobInv
  <2> QED
    BY <2>1 DEF ClaimInv, ChargeInv, Settled
<1> QED
  BY <1>1, HoldInvariance, PTL

\* No job's money is taken for another's, and the user has paid what the
\* charged jobs cost (captureBatchImageBalanceHold, releaseBatchImageBalanceHold).
THEOREM AccountAddsUp == Steady /\ Spec => []MoneyAddsUp
<1>1. HoldInv => MoneyAddsUp
  BY DEF HoldInv
<1> QED
  BY <1>1, HoldInvariance, PTL
=============================================================================
