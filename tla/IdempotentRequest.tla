------------------------- MODULE IdempotentRequest --------------------------
(***************************************************************************)
(* Write requests that carry an Idempotency-Key: IdempotencyCoordinator's  *)
(* Execute (idempotency.go) as the handlers of the admin and user API call *)
(* it.  All requests here carry the same scope and key; Prints are the     *)
(* payloads they come with.  The operation either takes effect or fails    *)
(* without one.                                                            *)
(*                                                                         *)
(* A request is assumed to claim its record before the locked_until, and   *)
(* to be done before the expires_at, that it computed from its reading of  *)
(* the clock.                                                              *)
(***************************************************************************)
EXTENDS IdempotencyRecords

CONSTANT
  Backoff     \* FailedRetryBackoff

ASSUME BackoffAssumption == Backoff \in Nat /\ MaxTime \in Nat /\ MaxFaults \in Nat

VARIABLES
  pay,        \* per worker: the request's payload
  copy,       \* per worker: the record as it read or inserted it
  window,     \* history: until when the last effect's record is kept
  effected,   \* history: payloads the operation took effect for
  told,       \* history: payloads for which a request was answered with success
  overtaken   \* history: a record was reclaimed that had changed since it was read

history == <<window, effected, told, overtaken>>
vars    == <<clock, rec, pc, at, pay, copy, history, faults>>

Claiming == {"create", "read", "reclaim", "reread", "retry"}
Executing == {"execute", "succeed", "fail"}
Step == {"idle"} \cup Claiming \cup Executing

TypeOK ==
  /\ clock \in Nat /\ rec \in Rows
  /\ pc \in [Workers -> Step]
  /\ at \in [Workers -> Nat]
  /\ pay \in [Workers -> Prints \cup {NoPrint}]
  /\ copy \in [Workers -> Rows]
  /\ window \in Nat
  /\ effected \subseteq Prints /\ told \subseteq Prints
  /\ overtaken \in BOOLEAN /\ faults \in Nat

Init ==
  /\ clock = 0 /\ rec = NoRow(0)
  /\ pc = [w \in Workers |-> "idle"]
  /\ at = [w \in Workers |-> 0]
  /\ pay = [w \in Workers |-> NoPrint]
  /\ copy = [w \in Workers |-> NoRow(0)]
  /\ window = 0
  /\ effected = {} /\ told = {}
  /\ overtaken = FALSE /\ faults = 0

-----------------------------------------------------------------------------
(* What the steps are made of.  An operator introduced as a slip is no part *)
(* of the program: it is the definition after it with a mistake a change to *)
(* the code could bring in, kept to show which property would notice.       *)

Goto(w, s) == pc' = [pc EXCEPT ![w] = s] /\ UNCHANGED <<at, pay>>

\* The request is answered with an error and everything it knew is gone.
Stop(w) ==
  /\ pc' = [pc EXCEPT ![w] = "idle"]
  /\ at' = [at EXCEPT ![w] = 0]
  /\ pay' = [pay EXCEPT ![w] = NoPrint]
  /\ copy' = [copy EXCEPT ![w] = NoRow(0)]

Refuse(w) == Stop(w) /\ UNCHANGED told

\* It is answered with success, either its own or a replayed one.
Answer(w) == Stop(w) /\ told' = told \cup {pay[w]}

\* Slip: the payload is not compared.
AnyPayload(w) == rec.status # "none"

SamePayload(w) == rec.status # "none" /\ rec.print = pay[w]

-----------------------------------------------------------------------------

Submit(w, p) ==
  /\ pc[w] = "idle"
  /\ pc' = [pc EXCEPT ![w] = "create"]
  /\ at' = [at EXCEPT ![w] = clock]
  /\ pay' = [pay EXCEPT ![w] = p]
  /\ UNCHANGED <<clock, rec, copy, history, faults>>

InsertRecord(w) ==
  /\ pc[w] = "create"
  /\ CreateProcessing(pay[w], at[w])
  /\ \/ /\ Goto(w, "execute")
        /\ copy' = [copy EXCEPT ![w] = rec']
        /\ UNCHANGED <<told, faults>>
     \/ Fault /\ Refuse(w)
  /\ UNCHANGED <<clock, window, effected, overtaken>>

RecordExists(w) ==
  /\ pc[w] = "create" /\ rec.status # "none"
  /\ Goto(w, "read")
  /\ UNCHANGED <<clock, rec, copy, history, faults>>

\* Slip: a processing record whose lease has run out is claimed again.
DecideByLease(w) ==
  CASE rec.status = "succeeded" -> Answer(w)
    [] rec.status # "succeeded" /\ rec.until <= at[w] ->
         /\ Goto(w, "retry")
         /\ copy' = [copy EXCEPT ![w] = rec]
         /\ UNCHANGED told
    [] OTHER -> Refuse(w)

\* What an unexpired record of the same payload leads to.  A processing one is
\* a conflict, however long ago its lease ran out.
Decide(w) ==
  CASE rec.status = "succeeded" -> Answer(w)
    [] rec.status = "failed_retryable" /\ rec.until <= at[w] ->
         /\ Goto(w, "retry")
         /\ copy' = [copy EXCEPT ![w] = rec]
         /\ UNCHANGED told
    [] OTHER -> Refuse(w)

ReadRecord(w) ==
  /\ pc[w] = "read"
  /\ IF ~SamePayload(w) THEN Refuse(w)
     ELSE IF rec.expires <= at[w]
       THEN /\ Goto(w, "reclaim")
            /\ copy' = [copy EXCEPT ![w] = rec]
            /\ UNCHANGED told
       ELSE Decide(w)
  /\ UNCHANGED <<clock, rec, window, effected, overtaken, faults>>

\* When somebody else got an expired record first, the request looks at it
\* again; when it was a failed one, that is a conflict.
ReclaimRecord(w) ==
  /\ pc[w] \in {"reclaim", "retry"}
  /\ IF Reclaimable(copy[w].id, copy[w].status, at[w])
       THEN /\ TryReclaim(at[w])
            /\ overtaken' = (overtaken \/ rec # copy[w])
            /\ \/ Goto(w, "execute") /\ UNCHANGED <<copy, told, faults>>
               \/ Fault /\ Refuse(w)
       ELSE /\ IF pc[w] = "reclaim"
                 THEN Goto(w, "reread") /\ UNCHANGED <<copy, told>>
                 ELSE Refuse(w)
            /\ UNCHANGED <<rec, overtaken, faults>>
  /\ UNCHANGED <<clock, window, effected>>

\* This time nobody asks whether the record has expired.
RereadRecord(w) ==
  /\ pc[w] = "reread"
  /\ IF SamePayload(w) THEN Decide(w) ELSE Refuse(w)
  /\ UNCHANGED <<clock, rec, window, effected, overtaken, faults>>

StoreFails(w) ==
  /\ pc[w] \in Claiming /\ Fault
  /\ Refuse(w)
  /\ UNCHANGED <<clock, rec, window, effected, overtaken>>

Execute(w) ==
  /\ pc[w] = "execute"
  /\ \/ /\ Goto(w, "succeed")
        /\ window' = at[w] + Retention
        /\ effected' = effected \cup {pay[w]}
     \/ Goto(w, "fail") /\ UNCHANGED <<window, effected>>
  /\ UNCHANGED <<clock, rec, copy, told, overtaken, faults>>

\* The operation has taken effect, but a client whose result cannot be stored
\* is answered with "store unavailable".
RecordSuccess(w) ==
  /\ pc[w] = "succeed"
  /\ \/ /\ MarkSucceeded(copy[w].id, at[w] + Retention)
        /\ \/ Answer(w) /\ UNCHANGED faults
           \/ Refuse(w) /\ Fault
     \/ Refuse(w) /\ Fault /\ UNCHANGED rec
  /\ UNCHANGED <<clock, window, effected, overtaken>>

RecordFailure(w) ==
  /\ pc[w] = "fail"
  /\ \/ /\ MarkFailedRetryable(copy[w].id, clock + Backoff, at[w] + Retention)
        /\ UNCHANGED faults
     \/ Fault /\ UNCHANGED rec
  /\ Refuse(w)
  /\ UNCHANGED <<clock, window, effected, overtaken>>

Crash(w) ==
  /\ pc[w] \in Executing /\ Fault
  /\ Refuse(w)
  /\ UNCHANGED <<clock, rec, window, effected, overtaken>>

-----------------------------------------------------------------------------

Cleanup ==
  /\ DeleteExpired
  /\ UNCHANGED <<clock, pc, at, pay, copy, history, faults>>

InTime(w) ==
  /\ pc[w] \in Claiming  => clock + 1 < at[w] + Lease
  /\ pc[w] \in Executing => clock + 1 < at[w] + Retention

Tick ==
  /\ clock < MaxTime /\ \A w \in Workers : InTime(w)
  /\ clock' = clock + 1
  /\ UNCHANGED <<rec, pc, at, pay, copy, history, faults>>

Claim(w) == \/ InsertRecord(w) \/ RecordExists(w) \/ ReadRecord(w)
            \/ ReclaimRecord(w) \/ RereadRecord(w) \/ StoreFails(w)
Run(w)   == Execute(w) \/ RecordSuccess(w) \/ RecordFailure(w) \/ Crash(w)

Next ==
  \/ \E w \in Workers : Claim(w) \/ Run(w) \/ \E p \in Prints : Submit(w, p)
  \/ Cleanup
  \/ Tick

Spec == Init /\ [][Next]_vars

-----------------------------------------------------------------------------
(* What must hold. *)

Owners == {w \in Workers : pc[w] \in Executing}

\* The operation of one key is never executed by two requests at once.
OneExecution == \A v, w \in Owners : v = w

TakesEffect(w) == pc[w] = "execute" /\ pc'[w] = "succeed"

\* Once the operation took effect, no request with the same key makes it take
\* effect again before the record's retention has passed, although its result
\* may not have been stored, its answer lost or its server gone; unless a
\* record was reclaimed that had changed since it was read.
OncePerRetention ==
  [][~overtaken => \A w \in Workers : TakesEffect(w) => clock >= window]_vars

\* A client is told of a success only for a payload that took effect: a replay
\* never answers another payload that came with the same key.
SuccessIsReal == told \subseteq effected

-----------------------------------------------------------------------------
(* The inductive invariant behind these properties. *)

\* What a request knows: its reading of the clock is past and recent enough,
\* and why it tries to reclaim the record it has read.
Knows(w) ==
  /\ at[w] <= clock
  /\ pc[w] # "idle" => pay[w] \in Prints
  /\ pc[w] \in Claiming => clock < at[w] + Lease
  /\ pc[w] \in Executing => clock < at[w] + Retention
  /\ pc[w] = "reclaim" => copy[w].expires <= at[w]
  /\ pc[w] = "retry" => copy[w].status = "failed_retryable"
  /\ copy[w].id <= rec.id
  /\ pc[w] \in {"reclaim", "retry"} \cup Executing /\ IsRow(copy[w].id) =>
       rec.print = pay[w]

LocalInv == \A w \in Workers : Knows(w)

\* An owner's record is there and will not expire, and whoever is about to
\* reclaim it read the clock before its lease ends.
OwnerInv ==
  \A w \in Owners :
    /\ rec.status = "processing" /\ rec.id = copy[w].id
    /\ rec.expires >= at[w] + Retention
    /\ \A v \in Workers : pc[v] = "reclaim" => at[v] < rec.until

\* As long as the effect is protected its record is, and nobody is about to
\* repeat the effect or to mark it failed.
WindowInv ==
  /\ \A w \in Workers : pc[w] = "succeed" => window <= at[w] + Retention
  /\ ~overtaken /\ clock < window =>
       /\ rec.status \in {"processing", "succeeded"} /\ rec.expires >= window
       /\ \A w \in Workers : pc[w] \notin {"execute", "fail"}

EffectInv ==
  /\ rec.status = "succeeded" => rec.print \in effected
  /\ \A w \in Workers : pc[w] = "succeed" => pay[w] \in effected
  /\ SuccessIsReal

RequestInv == TypeOK /\ LocalInv /\ OwnerInv /\ OneExecution /\ WindowInv /\ EffectInv
=============================================================================
