----------------------------- MODULE BatchImage -----------------------------
(***************************************************************************)
(* A batch image job from its submission to its settlement: Submit and     *)
(* Cancel of batch_image_public.go, the worker's pipeline of               *)
(* batch_image_processor.go and batch_image_settlement.go, the recovery of *)
(* batch_image_billing_recovery.go, and the deletion of outputs.           *)
(*                                                                         *)
(* The job's row, the user's money (BalanceHold), the queue and the        *)
(* provider are four parties with no transaction across them: each         *)
(* statement, transaction or call is one step, and every other process may *)
(* run in between.  The Redis queue is used here for what BatchQueue shows *)
(* of it: a queued job stays queued until a worker acknowledges it.  Two   *)
(* workers have one job only after one of them has lost its lock, which    *)
(* happens when it stalls for longer than its heartbeats allow.            *)
(*                                                                         *)
(* A job's hold can be forgotten in a few ways the code leaves open, each  *)
(* of which sets dropped; the properties say that there are no others.     *)
(***************************************************************************)
EXTENDS BalanceHold, FiniteSets, Faults

CONSTANTS
  Workers,     \* queue workers, one per server
  LocksExpire, \* a worker may lose its lock on a job and go on
  MaxRetries   \* batchImageSettlementMaxRetries

ASSUME PeopleAssumption == IsFiniteSet(Jobs) /\ Jobs # {}
ASSUME LimitsAssumption ==
  LocksExpire \in BOOLEAN /\ MaxRetries \in Nat \ {0} /\ MaxFaults \in Nat

Terminal == {"completed", "failed", "cancelled", "output_deleted"}
Status == {"none", "created", "uploading", "submitted", "running", "indexing",
           "settling"} \cup Terminal

Forward == {<<"created", "uploading">>, <<"created", "submitted">>,
            <<"created", "cancelled">>, <<"uploading", "submitted">>,
            <<"uploading", "cancelled">>, <<"submitted", "running">>,
            <<"submitted", "indexing">>, <<"submitted", "cancelled">>,
            <<"running", "running">>, <<"running", "indexing">>,
            <<"running", "cancelled">>, <<"indexing", "settling">>,
            <<"settling", "completed">>}

CanTransition(from, to) ==
  IF from \in Terminal
    THEN to = "output_deleted" /\ from # "output_deleted"
    ELSE to = "failed" \/ <<from, to>> \in Forward

Upstream == {"none", "live", "succeeded", "failed", "cancelled"}
Costs == 0..(Hold + 1)

SubmitStep == {"new", "reserve", "items", "upload", "submit", "record", "enqueue",
               "undo", "undoOnly", "fail", "undoFail", "undoEnqueue", "abort",
               "end", "dead"}
CancelStep == {"idle", "mark", "stop", "wake", "release", "enqueue"}
RecoverStep == {"idle", "release", "enqueue"}
WorkStep == {"idle", "pipe", "process", "get", "getRunning", "toRunning",
             "toIndexing", "index", "toSettling", "toFailed", "toCancelled",
             "release", "ack", "settle", "capture", "settled", "noteCost",
             "noteBilling", "exRelease", "noteRelease", "exFail", "check"}

VARIABLES
  status,    \* batch_image_jobs.status
  named,     \* batch_image_jobs.provider_job_name is set
  hidden,    \* batch_image_jobs.user_deleted_at is set
  retry,     \* batch_image_jobs.retry_count, up to MaxRetries; counted with a SETTLEMENT_ code
  cost,      \* what the indexed results cost
  inflight,  \* the queue holds the job
  upstream,  \* what the provider makes of the job
  dropped,   \* history: whoever was to end the hold is gone
  sub,       \* per job: next step of Submit
  can,       \* per job: next step of Cancel
  rec,       \* per job: next step of the recovery
  pc, job    \* per worker: next step and job

row  == <<status, named, hidden, retry, cost>>
vars == <<ledger, row, inflight, upstream, dropped, sub, can, rec, pc, job, faults>>

TypeOK ==
  /\ LedgerTypeOK
  /\ status \in [Jobs -> Status]
  /\ named \in [Jobs -> BOOLEAN] /\ hidden \in [Jobs -> BOOLEAN]
  /\ retry \in [Jobs -> 0..MaxRetries]
  /\ cost \in [Jobs -> Costs]
  /\ inflight \in [Jobs -> BOOLEAN]
  /\ upstream \in [Jobs -> Upstream]
  /\ dropped \in [Jobs -> BOOLEAN]
  /\ sub \in [Jobs -> SubmitStep]
  /\ can \in [Jobs -> CancelStep]
  /\ rec \in [Jobs -> RecoverStep]
  /\ pc \in [Workers -> WorkStep]
  /\ job \in [Workers -> Jobs]
  /\ faults \in Nat

Init ==
  /\ LedgerInit
  /\ status = [j \in Jobs |-> "none"]
  /\ named = [j \in Jobs |-> FALSE] /\ hidden = [j \in Jobs |-> FALSE]
  /\ retry = [j \in Jobs |-> 0] /\ cost = [j \in Jobs |-> 0]
  /\ inflight = [j \in Jobs |-> FALSE]
  /\ upstream = [j \in Jobs |-> "none"]
  /\ dropped = [j \in Jobs |-> FALSE]
  /\ sub = [j \in Jobs |-> "new"]
  /\ can = [j \in Jobs |-> "idle"]
  /\ rec = [j \in Jobs |-> "idle"]
  /\ pc = [w \in Workers |-> "idle"]
  /\ job = [w \in Workers |-> CHOOSE j \in Jobs : TRUE]
  /\ faults = 0

-----------------------------------------------------------------------------
(* What the steps are made of.  An operator introduced as a slip is no part *)
(* of the program: it is the definition after it with a mistake a change to *)
(* the code could bring in, kept to show which property would notice.       *)

SubmitTo(j, s)  == sub' = [sub EXCEPT ![j] = s]
CancelTo(j, s)  == can' = [can EXCEPT ![j] = s]
RecoverTo(j, s) == rec' = [rec EXCEPT ![j] = s]
Goto(w, s)      == pc' = [pc EXCEPT ![w] = s] /\ UNCHANGED job
SetStatus(j, s) == status' = [status EXCEPT ![j] = s]
Drop(j)         == dropped' = [dropped EXCEPT ![j] = TRUE]

others == <<sub, can, rec>>
worker == <<pc, job>>

\* A statement or transaction fails, with no effect.
Fails(what) == Fault /\ UNCHANGED what

-----------------------------------------------------------------------------
(* Submit. *)

Create(j) ==
  /\ sub[j] = "new"
  /\ SetStatus(j, "created")
  /\ SubmitTo(j, "reserve")
  /\ UNCHANGED <<ledger, named, hidden, retry, cost, inflight, upstream, dropped, can, rec, worker, faults>>

\* A cancellation or recovery that came first has claimed the release: what is
\* frozen now is not released any more.  A lost answer is taken for a refusal,
\* and a refused reservation is not undone.
ReserveHold(j) ==
  /\ sub[j] = "reserve"
  /\ \/ /\ CanReserve(j) /\ Reserve(j)
        /\ IF Claimed(j, "release") THEN Drop(j) ELSE UNCHANGED dropped
        /\ SubmitTo(j, "items") /\ UNCHANGED faults
     \/ /\ CanReserve(j) /\ Reserve(j) /\ Fault
        /\ Drop(j) /\ SubmitTo(j, "fail")
     \/ /\ ~CanReserve(j) /\ SubmitTo(j, "fail")
        /\ UNCHANGED <<ledger, dropped, faults>>
     \/ Fails(ledger) /\ SubmitTo(j, "fail") /\ UNCHANGED dropped
  /\ UNCHANGED <<row, inflight, upstream, can, rec, worker>>

CreateItems(j) ==
  /\ sub[j] = "items"
  /\ \/ SubmitTo(j, "upload") /\ UNCHANGED faults
     \/ Fault /\ SubmitTo(j, "undo")
  /\ UNCHANGED <<ledger, row, inflight, upstream, dropped, can, rec, worker>>

\* When another process has ended the job, its status is left alone.
StartUpload(j) ==
  /\ sub[j] = "upload"
  /\ \/ /\ CanTransition(status[j], "uploading") /\ SetStatus(j, "uploading")
        /\ SubmitTo(j, "submit") /\ UNCHANGED faults
     \/ /\ ~CanTransition(status[j], "uploading")
        /\ SubmitTo(j, "undoOnly") /\ UNCHANGED <<status, faults>>
     \/ Fails(status) /\ SubmitTo(j, "undo")
  /\ UNCHANGED <<ledger, named, hidden, retry, cost, inflight, upstream, dropped, can, rec, worker>>

\* The provider takes the job, refuses it, or takes it while its answer is lost.
SubmitUpstream(j) ==
  /\ sub[j] = "submit"
  /\ \/ /\ upstream' = [upstream EXCEPT ![j] = "live"]
        /\ \/ SubmitTo(j, "record") /\ UNCHANGED faults
           \/ SubmitTo(j, "undo") /\ Fault
     \/ SubmitTo(j, "undo") /\ UNCHANGED <<upstream, faults>>
  /\ UNCHANGED <<ledger, row, inflight, dropped, can, rec, worker>>

\* Slip: the status is not looked at before the provider's job is recorded.
RecordAnyway(j) ==
  /\ \/ /\ SetStatus(j, "submitted")
        /\ named' = [named EXCEPT ![j] = TRUE]
        /\ SubmitTo(j, "enqueue") /\ UNCHANGED faults
     \/ Fails(<<status, named>>) /\ SubmitTo(j, "abort")
  /\ UNCHANGED <<ledger, hidden, retry, cost, inflight, upstream, dropped, can, rec, worker>>

RecordSubmitted(j) ==
  /\ sub[j] = "record"
  /\ \/ /\ CanTransition(status[j], "submitted") /\ SetStatus(j, "submitted")
        /\ named' = [named EXCEPT ![j] = TRUE]
        /\ SubmitTo(j, "enqueue") /\ UNCHANGED faults
     \/ /\ ~CanTransition(status[j], "submitted")
        /\ SubmitTo(j, "abort") /\ UNCHANGED <<status, named, faults>>
     \/ Fails(<<status, named>>) /\ SubmitTo(j, "abort")
  /\ UNCHANGED <<ledger, hidden, retry, cost, inflight, upstream, dropped, can, rec, worker>>

Enqueue(j) == inflight' = [inflight EXCEPT ![j] = TRUE]

\* Nobody else queues a submitted job, unless the user repeats the request.
EnqueueSubmitted(j) ==
  /\ sub[j] = "enqueue"
  /\ \/ Enqueue(j) /\ UNCHANGED <<dropped, faults>>
     \/ Fails(inflight) /\ Drop(j)
  /\ SubmitTo(j, "end")
  /\ UNCHANGED <<ledger, row, upstream, can, rec, worker>>

\* The same request again, by its idempotency key.
SubmitAgain(j) ==
  /\ sub[j] \in {"end", "dead"} /\ status[j] = "submitted"
  /\ SubmitTo(j, "enqueue")
  /\ UNCHANGED <<ledger, row, inflight, upstream, dropped, can, rec, worker, faults>>

AbortOrphan(j) ==
  /\ sub[j] = "abort"
  /\ \/ /\ upstream' = [upstream EXCEPT ![j] = IF @ = "live" THEN "cancelled" ELSE @]
        /\ UNCHANGED faults
     \/ Fails(upstream)
  /\ SubmitTo(j, "end")
  /\ UNCHANGED <<ledger, row, inflight, dropped, can, rec, worker>>

-----------------------------------------------------------------------------
(* Releasing a hold: releaseBatchImageBalanceHold, whose transaction may    *)
(* take effect while its answer is lost.                                    *)

ReleaseSucceeds(j) == CanRelease(j) /\ Release(j) /\ UNCHANGED faults
ReleaseFails(j) ==
  \/ CanRelease(j) /\ Release(j) /\ Fault
  \/ ~CanRelease(j) /\ UNCHANGED <<ledger, faults>>
  \/ Fails(ledger)

\* releaseFailedSubmitHold.
UndoHold(j) ==
  /\ sub[j] \in {"undo", "undoOnly"}
  /\ \/ ReleaseSucceeds(j) /\ SubmitTo(j, IF sub[j] = "undo" THEN "fail" ELSE "end")
     \/ ReleaseFails(j) /\ SubmitTo(j, "undoFail")
  /\ UNCHANGED <<row, inflight, upstream, dropped, can, rec, worker>>

\* RecordBatchImageJobSubmitFailure whatever the status is, its errors ignored,
\* and hidePreUpstreamSubmitFailure.
FailSubmit(j) ==
  /\ sub[j] \in {"fail", "undoFail"}
  /\ \/ /\ SetStatus(j, "failed") /\ UNCHANGED faults
        /\ hidden' = [hidden EXCEPT ![j] = @ \/ sub[j] = "fail"]
     \/ Fails(<<status, hidden>>)
  /\ SubmitTo(j, IF sub[j] = "fail" THEN "end" ELSE "undoEnqueue")
  /\ UNCHANGED <<ledger, named, retry, cost, inflight, upstream, dropped, can, rec, worker>>

EnqueueUndo(j) ==
  /\ sub[j] = "undoEnqueue"
  /\ \/ Enqueue(j) /\ UNCHANGED <<dropped, faults>>
     \/ Fails(inflight) /\ Drop(j)
  /\ SubmitTo(j, "end")
  /\ UNCHANGED <<ledger, row, upstream, can, rec, worker>>

\* A request that dies with the job out of the recovery's sight drops it.
SubmitDies(j) ==
  /\ sub[j] \notin {"new", "end", "dead"} /\ Fault
  /\ SubmitTo(j, "dead")
  /\ IF sub[j] \in {"enqueue", "undoEnqueue"}
       THEN Drop(j) ELSE UNCHANGED dropped
  /\ UNCHANGED <<ledger, row, inflight, upstream, can, rec, worker>>

-----------------------------------------------------------------------------
(* Cancel, by a user who sees the job from its creation on. *)

ReadToCancel(j) ==
  /\ can[j] = "idle" /\ status[j] # "none" /\ ~hidden[j]
  /\ CancelTo(j, CASE status[j] \in {"failed", "cancelled"} -> "release"
                   [] status[j] \in {"settling", "completed", "output_deleted"} -> "idle"
                   [] OTHER -> IF named[j] THEN "stop" ELSE "mark")
  /\ UNCHANGED <<ledger, row, inflight, upstream, dropped, sub, rec, worker, faults>>

\* A job whose provider job the request did not see is cancelled here alone.
MarkCancelled(j) ==
  /\ can[j] = "mark"
  /\ \/ /\ CanTransition(status[j], "cancelled") /\ SetStatus(j, "cancelled")
        /\ CancelTo(j, "release") /\ UNCHANGED faults
     \/ /\ ~CanTransition(status[j], "cancelled")
        /\ CancelTo(j, "idle") /\ UNCHANGED <<status, faults>>
     \/ Fails(status) /\ CancelTo(j, "idle")
  /\ UNCHANGED <<ledger, named, hidden, retry, cost, inflight, upstream, dropped, sub, rec, worker>>

ReleaseCancelled(j) ==
  /\ can[j] = "release"
  /\ \/ ReleaseSucceeds(j) /\ CancelTo(j, "idle")
     \/ ReleaseFails(j) /\ CancelTo(j, "enqueue")
  /\ UNCHANGED <<row, inflight, upstream, dropped, sub, rec, worker>>

EnqueueCancelled(j) ==
  /\ can[j] = "enqueue"
  /\ \/ Enqueue(j) /\ UNCHANGED <<dropped, faults>>
     \/ Fails(inflight) /\ Drop(j)
  /\ CancelTo(j, "idle")
  /\ UNCHANGED <<ledger, row, upstream, sub, rec, worker>>

\* A job at the provider is cancelled there; the worker sees it end.
StopUpstream(j) ==
  /\ can[j] = "stop"
  /\ \/ /\ upstream' = [upstream EXCEPT ![j] = IF @ = "live" THEN "cancelled" ELSE @]
        /\ CancelTo(j, "wake") /\ UNCHANGED faults
     \/ Fails(upstream) /\ CancelTo(j, "idle")
  /\ UNCHANGED <<ledger, row, inflight, dropped, sub, rec, worker>>

WakeWorker(j) ==
  /\ can[j] = "wake"
  /\ \/ Enqueue(j) /\ UNCHANGED faults
     \/ Fails(inflight)
  /\ CancelTo(j, "idle")
  /\ UNCHANGED <<ledger, row, upstream, dropped, sub, rec, worker>>

CancelDies(j) ==
  /\ can[j] # "idle" /\ Fault
  /\ CancelTo(j, "idle")
  /\ IF can[j] \in {"release", "enqueue"} THEN Drop(j) ELSE UNCHANGED dropped
  /\ UNCHANGED <<ledger, row, inflight, upstream, sub, rec, worker>>

-----------------------------------------------------------------------------
(* ReleaseStaleUnsubmittedOnce: a job that was not touched for ten minutes   *)
(* is failed, by a statement that looks once more, and then released.  The   *)
(* row of a live request is that old only when the request stalls or its     *)
(* heartbeats fail.                                                          *)

Unsubmitted(j) == status[j] \in {"created", "uploading"} /\ ~named[j]

FailStale(j) ==
  /\ rec[j] = "idle" /\ Unsubmitted(j)
  /\ IF sub[j] \in {"end", "dead"} THEN UNCHANGED faults ELSE Fault
  /\ SetStatus(j, "failed")
  /\ RecoverTo(j, "release")
  /\ UNCHANGED <<ledger, named, hidden, retry, cost, inflight, upstream, dropped, sub, can, worker>>

ReleaseStale(j) ==
  /\ rec[j] = "release"
  /\ \/ ReleaseSucceeds(j) /\ RecoverTo(j, "idle")
     \/ ReleaseFails(j) /\ RecoverTo(j, "enqueue")
  /\ UNCHANGED <<row, inflight, upstream, dropped, sub, can, worker>>

EnqueueStale(j) ==
  /\ rec[j] = "enqueue"
  /\ \/ Enqueue(j) /\ UNCHANGED <<dropped, faults>>
     \/ Fails(inflight) /\ Drop(j)
  /\ RecoverTo(j, "idle")
  /\ UNCHANGED <<ledger, row, upstream, sub, can, worker>>

RecoveryDies(j) ==
  /\ rec[j] # "idle" /\ Fault
  /\ RecoverTo(j, "idle") /\ Drop(j)
  /\ UNCHANGED <<ledger, row, inflight, upstream, sub, can, worker>>

-----------------------------------------------------------------------------
(* The worker: reserve, lock, Process, and acknowledge or queue again, which *)
(* the step "idle" stands for.  Any error queues the job again.              *)

Take(w) ==
  /\ pc[w] = "idle"
  /\ \E j \in Jobs :
       /\ inflight[j]
       /\ IF \A v \in Workers : pc[v] # "idle" => job[v] # j
            THEN UNCHANGED faults ELSE LocksExpire /\ Fault
       /\ job' = [job EXCEPT ![w] = j]
  /\ pc' = [pc EXCEPT ![w] = "pipe"]
  /\ UNCHANGED <<ledger, row, inflight, upstream, dropped, others>>

\* BatchImagePipelineProcessor.Process.
ReadPipeline(w) ==
  /\ pc[w] = "pipe"
  /\ Goto(w, IF status[job[w]] = "settling" THEN "settle" ELSE "process")
  /\ UNCHANGED <<ledger, row, inflight, upstream, dropped, others, faults>>

\* BatchImageProviderProcessor.Process reads the row again.
ReadJob(w) ==
  /\ pc[w] = "process"
  /\ LET s == status[job[w]] IN
     Goto(w, CASE s \in {"failed", "cancelled"} -> "release"
               [] s \in {"settling", "completed", "output_deleted"} -> "ack"
               [] OTHER -> IF ~named[job[w]] THEN "idle"
                           ELSE IF s = "indexing" THEN "index"
                           ELSE IF s = "running" THEN "getRunning" ELSE "get")
  /\ UNCHANGED <<ledger, row, inflight, upstream, dropped, others, faults>>

\* A live job is queued or running at the provider.
AskProvider(w) ==
  /\ pc[w] \in {"get", "getRunning"}
  /\ \/ /\ \/ upstream[job[w]] = "live" /\ Goto(w, IF pc[w] = "get" THEN "toRunning" ELSE "idle")
           \/ upstream[job[w]] = "live" /\ Goto(w, "idle")
           \/ upstream[job[w]] = "succeeded" /\ Goto(w, "toIndexing")
           \/ upstream[job[w]] = "failed" /\ Goto(w, "toFailed")
           \/ upstream[job[w]] = "cancelled" /\ Goto(w, "toCancelled")
        /\ UNCHANGED faults
     \/ Goto(w, "idle") /\ Fault
  /\ UNCHANGED <<ledger, row, inflight, upstream, dropped, others>>

\* TransitionBatchImageJobStatus: from which step, to which status, then what.
Transitions == [toRunning   |-> <<"running", "idle">>,
                toIndexing  |-> <<"indexing", "index">>,
                toSettling  |-> <<"settling", "idle">>,
                toFailed    |-> <<"failed", "release">>,
                toCancelled |-> <<"cancelled", "release">>,
                exFail      |-> <<"failed", "check">>]

Transition(w) ==
  /\ pc[w] \in DOMAIN Transitions
  /\ LET to == Transitions[pc[w]][1] IN
     \/ /\ CanTransition(status[job[w]], to) /\ SetStatus(job[w], to)
        /\ Goto(w, Transitions[pc[w]][2]) /\ UNCHANGED faults
     \/ /\ ~CanTransition(status[job[w]], to)
        /\ Goto(w, "idle") /\ UNCHANGED <<status, faults>>
     \/ Fails(status) /\ Goto(w, "idle")
  /\ UNCHANGED <<ledger, named, hidden, retry, cost, inflight, upstream, dropped, others>>

\* The results are read and written to the items, with the counts, while the
\* status is indexing; output that cannot be parsed fails the job.
IndexResults(w) ==
  /\ pc[w] = "index"
  /\ \/ /\ status[job[w]] = "indexing"
        /\ \E c \in Costs : cost' = [cost EXCEPT ![job[w]] = c]
        /\ Goto(w, "toSettling") /\ UNCHANGED faults
     \/ /\ status[job[w]] # "indexing"
        /\ Goto(w, "idle") /\ UNCHANGED <<cost, faults>>
     \/ Goto(w, "toFailed") /\ UNCHANGED <<cost, faults>>
     \/ Goto(w, "idle") /\ Fails(cost)
  /\ UNCHANGED <<ledger, status, named, hidden, retry, inflight, upstream, dropped, others>>

\* Slip: the error of the release is ignored and the job acknowledged.
ReleaseAndForget(w) ==
  /\ pc[w] = "release"
  /\ Goto(w, "ack")
  /\ ReleaseSucceeds(job[w]) \/ ReleaseFails(job[w])
  /\ UNCHANGED <<row, inflight, upstream, dropped, others>>

\* releaseTerminalHold.
ReleaseTerminal(w) ==
  /\ pc[w] = "release"
  /\ \/ ReleaseSucceeds(job[w]) /\ Goto(w, "ack")
     \/ ReleaseFails(job[w]) /\ Goto(w, "idle")
  /\ UNCHANGED <<row, inflight, upstream, dropped, others>>

\* Ack: the queue forgets the job, whoever else has it.
Acknowledge(w) ==
  /\ pc[w] = "ack"
  /\ inflight' = [inflight EXCEPT ![job[w]] = FALSE]
  /\ Goto(w, "idle")
  /\ UNCHANGED <<ledger, row, upstream, dropped, others, faults>>

WorkerDies(w) ==
  /\ pc[w] # "idle" /\ Fault
  /\ Goto(w, "idle")
  /\ UNCHANGED <<ledger, row, inflight, upstream, dropped, others>>

-----------------------------------------------------------------------------
(* Settle. *)

ReadSettling(w) ==
  /\ pc[w] = "settle"
  /\ LET s == status[job[w]] IN
     Goto(w, CASE s = "completed" -> "ack"
               [] s = "settling" -> IF retry[job[w]] >= MaxRetries THEN "exRelease"
                                    ELSE IF cost[job[w]] > Hold THEN "noteCost" ELSE "capture"
               [] OTHER -> "idle")
  /\ UNCHANGED <<ledger, row, inflight, upstream, dropped, others, faults>>

CaptureHold(w) ==
  /\ pc[w] = "capture"
  /\ LET j == job[w] IN
     \/ CanCapture(j, cost[j]) /\ Capture(j, cost[j]) /\ Goto(w, "settled") /\ UNCHANGED faults
     \/ CanCapture(j, cost[j]) /\ Capture(j, cost[j]) /\ Goto(w, "noteBilling") /\ Fault
     \/ ~CanCapture(j, cost[j]) /\ Goto(w, "noteBilling") /\ UNCHANGED <<ledger, faults>>
     \/ Goto(w, "noteBilling") /\ Fails(ledger)
  /\ UNCHANGED <<row, inflight, upstream, dropped, others>>

\* MarkBatchImageJobSettled: the charged job is queued again when this fails.
MarkSettled(w) ==
  /\ pc[w] = "settled"
  /\ \/ /\ status[job[w]] = "settling" /\ SetStatus(job[w], "completed")
        /\ Goto(w, "ack") /\ UNCHANGED faults
     \/ /\ status[job[w]] # "settling"
        /\ Goto(w, "idle") /\ UNCHANGED <<status, faults>>
     \/ Fails(status) /\ Goto(w, "idle")
  /\ UNCHANGED <<ledger, named, hidden, retry, cost, inflight, upstream, dropped, others>>

\* recordSettlementFailure, whose own errors are ignored; the failed attempt
\* that reaches the limit ends the job.
NoteFailure(w) ==
  /\ pc[w] \in {"noteCost", "noteBilling", "noteRelease"}
  /\ LET j == job[w]
         last == retry[j] + 1 >= MaxRetries
         next == IF pc[w] = "noteCost" THEN "idle" ELSE "check" IN
     \/ /\ retry' = [retry EXCEPT ![j] = IF last THEN MaxRetries ELSE @ + 1]
        /\ Goto(w, IF last /\ pc[w] # "noteRelease" THEN "exRelease" ELSE next)
        /\ UNCHANGED faults
     \/ Fails(retry) /\ Goto(w, next)
  /\ UNCHANGED <<ledger, status, named, hidden, cost, inflight, upstream, dropped, others>>

\* failExhaustedSettlement.
ReleaseExhausted(w) ==
  /\ pc[w] = "exRelease"
  /\ \/ ReleaseSucceeds(job[w]) /\ Goto(w, "exFail")
     \/ ReleaseFails(job[w]) /\ Goto(w, "noteRelease")
  /\ UNCHANGED <<row, inflight, upstream, dropped, others>>

\* After a billing failure the pipeline looks whether the job has ended.
CheckEnded(w) ==
  /\ pc[w] = "check"
  /\ Goto(w, IF status[job[w]] \in Terminal THEN "ack" ELSE "idle")
  /\ UNCHANGED <<ledger, row, inflight, upstream, dropped, others, faults>>

-----------------------------------------------------------------------------
(* The provider, and the deletion of a finished job's output. *)

ProviderEnds(j) ==
  /\ upstream[j] = "live"
  /\ \E s \in {"succeeded", "failed"} : upstream' = [upstream EXCEPT ![j] = s]
  /\ UNCHANGED <<ledger, row, inflight, dropped, others, worker, faults>>

DeleteOutput(j) ==
  /\ status[j] = "completed"
  /\ SetStatus(j, "output_deleted")
  /\ UNCHANGED <<ledger, named, hidden, retry, cost, inflight, upstream, dropped, others, worker, faults>>

SubmitNext(j) ==
  \/ Create(j) \/ ReserveHold(j) \/ CreateItems(j) \/ StartUpload(j)
  \/ SubmitUpstream(j) \/ RecordSubmitted(j) \/ EnqueueSubmitted(j)
  \/ AbortOrphan(j) \/ UndoHold(j) \/ FailSubmit(j) \/ EnqueueUndo(j)

CancelNext(j) ==
  \/ MarkCancelled(j) \/ ReleaseCancelled(j) \/ EnqueueCancelled(j)
  \/ StopUpstream(j) \/ WakeWorker(j)

RecoverNext(j) == FailStale(j) \/ ReleaseStale(j) \/ EnqueueStale(j)

WorkNext(w) ==
  \/ ReadPipeline(w) \/ ReadJob(w) \/ AskProvider(w) \/ Transition(w)
  \/ IndexResults(w) \/ ReleaseTerminal(w) \/ Acknowledge(w)
  \/ ReadSettling(w) \/ CaptureHold(w) \/ MarkSettled(w) \/ NoteFailure(w)
  \/ ReleaseExhausted(w) \/ CheckEnded(w)

Next ==
  \/ \E j \in Jobs :
       \/ SubmitNext(j) \/ SubmitAgain(j) \/ SubmitDies(j)
       \/ ReadToCancel(j) \/ CancelNext(j) \/ CancelDies(j)
       \/ RecoverNext(j) \/ RecoveryDies(j)
       \/ ProviderEnds(j) \/ DeleteOutput(j)
  \/ \E w \in Workers : Take(w) \/ WorkNext(w) \/ WorkerDies(w)

\* A live process takes its next step, the recovery and the workers keep
\* looking, and the provider ends every job.
Fairness ==
  /\ \A j \in Jobs :
       /\ WF_vars(SubmitNext(j) /\ sub[j] # "new") /\ WF_vars(CancelNext(j))
       /\ WF_vars(RecoverNext(j)) /\ WF_vars(ProviderEnds(j))
  /\ \A w \in Workers : WF_vars(Take(w)) /\ WF_vars(WorkNext(w))

Spec == Init /\ [][Next]_vars /\ Fairness

-----------------------------------------------------------------------------
(* What is checked. *)

\* A finished job is charged, once and what it cost, exactly when it completed;
\* a failed or cancelled one costs nothing (MarkBatchImageJobSettled).  Like
\* MoneyAddsUp it needs a lock that outlives its holder and retries that outlast
\* the faults.
Charged(j) == "capture" \in moved[j]
ChargedIfCompleted ==
  \A j \in Jobs :
    /\ status[j] \in {"completed", "output_deleted"} => Charged(j) /\ "release" \notin moved[j]
    /\ status[j] \in {"failed", "cancelled"} => ~Charged(j)

\* The frozen balance is what the open holds and the user's other jobs keep in
\* it, so no job's money is taken for another's, and the user has paid for the
\* charged jobs and nothing else (captureBatchImageBalanceHold,
\* releaseBatchImageBalanceHold and their request ids).
OpenJobs == {j \in Jobs : Open(j)}
PaidUnits == {u \in Jobs \X (1..(Hold + 1)) : Charged(u[1]) /\ u[2] <= cost[u[1]]}
MoneyAddsUp ==
  /\ frozen = Others + Hold * Cardinality(OpenJobs)
  /\ balance + frozen = Funds + Others - Cardinality(PaidUnits)

\* A finished job never starts again, and a completed one is not failed
\* afterwards (the statements of batch_image_repo.go that write the status).
FinishedStaysFinished ==
  [][\A j \in Jobs :
       /\ status[j] \in Terminal => status'[j] \in Terminal
       /\ status[j] \in {"completed", "output_deleted"} =>
            status'[j] \in {"completed", "output_deleted"}]_vars

\* A hold ends by its capture or its release, whoever dies in between, except
\* where its last holder died or could not queue the job, the answer to the
\* reservation was lost, or a cancellation overtook it (Submit, Cancel,
\* ReleaseStaleUnsubmittedOnce, releaseTerminalHold, Ack).
HoldEnds == \A j \in Jobs : Open(j) ~> ~Open(j) \/ dropped[j]

-----------------------------------------------------------------------------
(* The inductive invariant behind them. *)

\* No worker goes on without its lock, and a job meets fewer faults than it has
\* attempts to settle: without either a charged job may be failed.
Steady == ~LocksExpire /\ MaxFaults < MaxRetries

SoleInv == \A v, w \in Workers : pc[v] # "idle" /\ pc[w] # "idle" /\ job[v] = job[w] => v = w

\* What the claimed request ids say of the money that moved.
ClaimInv(j) ==
  /\ Claimed(j, "hold") <=> "hold" \in moved[j]
  /\ Claimed(j, "capture") <=> Charged(j)
  /\ "release" \in moved[j] => Claimed(j, "release")
  /\ moved[j] # {} => "hold" \in moved[j]
  /\ Charged(j) => ~Claimed(j, "release")

Ended == {"failed", "cancelled"}
Settled == {"completed", "output_deleted"}

\* A job gets its name when its request has nothing left to undo, and before
\* anybody works on it.
NameInv(j) ==
  /\ sub[j] = "new" => status[j] = "none"
  /\ named[j] => /\ sub[j] \in {"enqueue", "end", "dead"}
                 /\ status[j] \notin {"none", "created", "uploading"}
  /\ named[j] \/ status[j] \in {"none", "created", "uploading"} \cup Ended
KnownInv(w) ==
  pc[w] \notin {"idle", "pipe", "process", "release", "ack", "settle", "check"} => named[job[w]]
RowInv == TypeOK /\ (\A j \in Jobs : NameInv(j)) /\ \A w \in Workers : KnownInv(w)

\* It keeps its hold until it ends.
StageInv(j) ==
  /\ named[j] \/ sub[j] \in {"items", "upload", "submit", "record"} => Claimed(j, "hold")
  /\ Claimed(j, "release") =>
       \/ status[j] \in Ended
       \/ ~named[j] /\ sub[j] \in {"fail", "undoFail", "undoEnqueue", "end", "dead"}
       \/ status[j] = "settling" /\ cost[j] > Hold
  /\ can[j] = "release" \/ rec[j] = "release" => status[j] \in Ended

\* A charge is never too high, and follows few failures.
ChargeInv(j) ==
  /\ Charged(j) => status[j] \in {"settling"} \cup Settled /\ cost[j] <= Hold
  /\ status[j] \in Settled => Charged(j)
  /\ status[j] \notin {"settling"} \cup Terminal => retry[j] = 0
  /\ cost[j] <= Hold => retry[j] <= faults

WorkInv(w) ==
  LET j == job[w] IN
  /\ pc[w] = "release" => status[j] \in Ended
  /\ pc[w] \in {"get", "getRunning", "toRunning", "toIndexing", "index", "toSettling",
                "toFailed", "toCancelled"} => ~Charged(j)
  /\ pc[w] \in {"capture", "settled", "noteCost", "noteBilling", "exRelease", "noteRelease",
                "exFail"} => status[j] = "settling"
  /\ pc[w] \in {"capture", "noteBilling"} => cost[j] <= Hold
  /\ pc[w] = "noteBilling" => retry[j] < faults
  /\ pc[w] \in {"noteCost", "exRelease", "noteRelease", "exFail"} => cost[j] > Hold
  /\ pc[w] = "settled" => Charged(j)

JobInv(j) == ClaimInv(j) /\ StageInv(j) /\ ChargeInv(j)

HoldInv ==
  /\ RowInv /\ faults <= MaxFaults /\ SoleInv /\ MoneyAddsUp
  /\ \A j \in Jobs : JobInv(j)
  /\ \A w \in Workers : WorkInv(w)
=============================================================================
