--------------------------- MODULE ConcurrencySlots ---------------------------
(***************************************************************************)
(* Concurrency limits of the gateway: concurrency_cache.go with the        *)
(* helpers and handlers around it.  Every request passes two gates, the    *)
(* one of its user and the one of the upstream account it is sent to; at   *)
(* each it takes one of a limited number of slots, in Redis, and may wait  *)
(* for one in a queue of limited length.                                   *)
(*                                                                         *)
(* A slot is a member of a sorted set, scored with the time it was taken.  *)
(* It is never refreshed: it counts until it is released or too old.  A    *)
(* live call keeps a lease instead, one for both gates, which takes over   *)
(* from its slots and is refreshed until the call ends.  The length of a   *)
(* queue is a counter, whose key expires some time after its last          *)
(* increment.                                                              *)
(*                                                                         *)
(* Redis' clock advances in ticks.  Redis calls may fail, with or without  *)
(* effect, and a process may die: what it held is then nobody's.           *)
(***************************************************************************)
EXTENDS Naturals, FiniteSets, Functions, Faults

CONSTANTS
  Clients,   \* clients that send one request after the other
  Live,      \* those whose requests are live calls
  Limit,     \* per gate: maxConcurrency
  QueueLimit,\* how many may wait at a gate
  SlotTTL, LeaseTTL, QueueTTL, \* how long slots, leases and counters last
  MaxWait    \* how long a request waits

Gates == {"user", "account"}

ASSUME ClientsAssumption ==
  Live \subseteq Clients /\ IsFiniteSet(Clients) /\ Clients \cap 1..MaxFaults = {}
ASSUME LimitsAssumption  == Limit \in [Gates -> Nat \ {0}] /\ QueueLimit \in Nat \ {0}
ASSUME TimesAssumption ==
  /\ SlotTTL \in Nat \ {0} /\ LeaseTTL \in Nat \ {0, 1} /\ MaxFaults \in Nat
  /\ MaxWait \in Nat \ {0} /\ QueueTTL \in Nat \ {0}

\* A counter lasts as long as the longest wait, to which the configuration sets it
\* (ProvideConcurrencyCache); a user's wait is longer only if that is set lower.
CounterLastsAWait == MaxWait <= QueueTTL

\* A member of the sets is the request's id; one whose request is gone is
\* numbered by the fault that left it behind.
Members == Clients \cup 1..MaxFaults

VARIABLES
  slots,   \* per gate: the members of the slot set, with their age
  leases,  \* the members of the lease sets, with their age
  waits,   \* per gate: the queue's counter
  waitAge, \* per gate: time since it was incremented, 0 while there is none
  open,    \* per gate, history: how many may wait uncounted
  pc, gate,\* per client: next step, and the gate it is at
  held,    \* per client: the gates whose slot it has to release
  leased,  \* per client: it has a lease to release
  waited,  \* per client: how long it has waited
  late     \* the live calls that missed a refresh

sets    == <<slots, leases>>
counter == <<waits, waitAge, open>>
client  == <<pc, gate, held, leased, waited>>
vars    == <<sets, counter, client, late, faults>>

Steps == {"idle", "try", "count", "wait", "uncount", "lease", "create", "hand",
          "run", "session", "leave", "rest"}

Ages(f, ttl) == DOMAIN f \subseteq Members /\ \A i \in DOMAIN f : f[i] \in 0..ttl

TypeOK ==
  /\ DOMAIN slots = Gates /\ \A g \in Gates : Ages(slots[g], SlotTTL)
  /\ Ages(leases, LeaseTTL)
  /\ waits \in [Gates -> 0..QueueLimit] /\ waitAge \in [Gates -> 0..QueueTTL]
  /\ open \in [Gates -> Nat]
  /\ pc \in [Clients -> Steps] /\ gate \in [Clients -> Gates]
  /\ held \in [Clients -> SUBSET Gates] /\ leased \in [Clients -> BOOLEAN]
  /\ waited \in [Clients -> 0..MaxWait]
  /\ late \subseteq Live
  /\ faults \in 0..MaxFaults

Init ==
  /\ slots = [g \in Gates |-> <<>>] /\ leases = <<>>
  /\ waits = [g \in Gates |-> 0] /\ waitAge = [g \in Gates |-> 0]
  /\ open = [g \in Gates |-> 0]
  /\ pc = [c \in Clients |-> "idle"] /\ gate = [c \in Clients |-> "user"]
  /\ held = [c \in Clients |-> {}] /\ leased = [c \in Clients |-> FALSE]
  /\ waited = [c \in Clients |-> 0]
  /\ late = {} /\ faults = 0

Goto(c, s) == pc' = [pc EXCEPT ![c] = s]

With(f, i)    == [j \in DOMAIN f \cup {i} |-> IF j = i THEN 0 ELSE f[j]]
Without(f, i) == Restrict(f, DOMAIN f \ {i})
Fresh(f, ttl) == Restrict(f, {i \in DOMAIN f : f[i] < ttl})
\* What c has in f is nobody's from now on.
Disown(f, c) ==
  IF c \notin DOMAIN f THEN f
  ELSE [i \in (DOMAIN f \ {c}) \cup {faults + 1} |-> IF i = faults + 1 THEN f[c] ELSE f[i]]

-----------------------------------------------------------------------------
(* The scripts.  All of them remove expired leases before they look at the  *)
(* others, so an expired lease is dropped at once; an expired slot is still *)
(* counted by acquireLiveLeaseScript, which does not remove it.             *)

Slots(g) == Fresh(slots[g], SlotTTL)
Size(f)  == Cardinality(DOMAIN f)

\* Slip: live calls are not counted.
FreeOfSlots(g) == Size(Slots(g)) < Limit[g]

\* acquireScript, which removes expired members before it counts the others.
Free(g) == Size(Slots(g)) + Size(leases) < Limit[g]

Purge(g) == slots' = [slots EXCEPT ![g] = Slots(g)] /\ UNCHANGED leases
TakeSlot(i, g) == slots' = [slots EXCEPT ![g] = With(Slots(g), i)] /\ UNCHANGED leases

\* acquireLiveLeaseScript: the slots the call itself has are allowed for.
LeaseAllowed == \A g \in Gates : Size(slots[g]) + Size(leases) < Limit[g] + 1

TakeLease(i) == leases' = With(leases, i) /\ UNCHANGED slots

CanCount(g) == waits[g] < QueueLimit
Counted(g)  == waits' = [waits EXCEPT ![g] = @ + 1]
Timed(g)    == waitAge' = [waitAge EXCEPT ![g] = 0]

\* Slip: a refused increment keeps the counter alive.
RefreshAlways(g) == (IF CanCount(g) THEN Counted(g) ELSE UNCHANGED waits) /\ Timed(g)

\* Slip: only a counter that is new gets a time to live.
TimeIfNew(g) ==
  IF CanCount(g) THEN Counted(g) /\ UNCHANGED waitAge ELSE UNCHANGED <<waits, waitAge>>

\* incrementWaitScript, incrementAccountWaitScript.
Increment(g) ==
  IF CanCount(g) THEN Counted(g) /\ Timed(g) ELSE UNCHANGED <<waits, waitAge>>

\* decrementWaitScript.
Decrement(g) == waits' = [waits EXCEPT ![g] = IF @ > 0 THEN @ - 1 ELSE 0]

-----------------------------------------------------------------------------
(* A request. *)

\* After the user's gate comes the account's; then an ordinary request runs
\* and a live call takes its lease.
PassGate(c) ==
  /\ Goto(c, IF gate[c] = "user" THEN "try" ELSE IF c \in Live THEN "lease" ELSE "run")
  /\ gate' = [gate EXCEPT ![c] = "account"]

\* A request arrives and tries at once, and then again and again while it waits; a live
\* call does not wait.  A slot taken by a call that failed has no owner.
TryAcquire(c) ==
  LET g == gate[c]
      waiting == pc[c] = "wait" IN
  /\ pc[c] \in {"idle", "try", "wait"}
  /\ \/ /\ Free(g) /\ TakeSlot(c, g)
        /\ held' = [held EXCEPT ![c] = @ \cup {g}]
        /\ IF waiting THEN Goto(c, "uncount") /\ UNCHANGED gate ELSE PassGate(c)
        /\ UNCHANGED faults
     \/ /\ ~Free(g) /\ Purge(g)
        /\ Goto(c, IF waiting THEN "wait" ELSE IF c \in Live THEN "leave" ELSE "count")
        /\ UNCHANGED <<gate, held, faults>>
     \/ /\ Free(g) /\ TakeSlot(faults + 1, g) /\ Fault
        /\ Goto(c, IF waiting THEN "uncount" ELSE "leave") /\ UNCHANGED <<gate, held>>
     \/ /\ Fault /\ UNCHANGED <<sets, gate, held>>
        /\ Goto(c, IF waiting THEN "uncount" ELSE "leave")
  /\ UNCHANGED <<counter, leased, waited, late>>

\* A full queue turns the request away; when the counter fails it waits all the
\* same, and will decrement a counter it may not have incremented.
JoinQueue(c) ==
  LET g == gate[c] IN
  /\ pc[c] = "count"
  /\ \/ /\ Increment(g) /\ Goto(c, IF CanCount(g) THEN "wait" ELSE "leave")
        /\ UNCHANGED <<open, faults>>
     \/ /\ CanCount(g) /\ Increment(g) /\ Goto(c, "wait") /\ Fault
        /\ UNCHANGED open
     \/ /\ open' = [open EXCEPT ![g] = @ + 1] /\ Goto(c, "wait") /\ Fault
        /\ UNCHANGED <<waits, waitAge>>
  /\ UNCHANGED <<sets, gate, held, leased, waited, late>>

\* Its time is over, or the client has gone away.
GiveUp(c) ==
  /\ pc[c] = "wait" /\ Goto(c, "uncount")
  /\ UNCHANGED <<sets, counter, gate, held, leased, waited, late, faults>>

\* Whoever finds nothing to decrement takes nobody's count along.
LeaveQueue(c) ==
  LET g == gate[c] IN
  /\ pc[c] = "uncount"
  /\ \/ /\ Decrement(g) /\ UNCHANGED faults
        /\ open' = [open EXCEPT ![g] = IF waits[g] = 0 /\ @ > 0 THEN @ - 1 ELSE @]
     \/ UNCHANGED <<waits, open>> /\ Fault
  /\ IF g \in held[c] THEN PassGate(c) ELSE Goto(c, "leave") /\ UNCHANGED gate
  /\ waited' = [waited EXCEPT ![c] = 0]
  /\ UNCHANGED <<sets, waitAge, held, leased, late>>

\* The request ends, or its client goes away, which releases its slots too.
Finish(c) ==
  /\ pc[c] = "run" /\ Goto(c, "leave")
  /\ UNCHANGED <<sets, counter, gate, held, leased, waited, late, faults>>

Release(c, g) ==
  /\ pc[c] \in {"hand", "leave"} /\ g \in held[c]
  /\ held' = [held EXCEPT ![c] = @ \ {g}]
  /\ \/ slots' = [slots EXCEPT ![g] = Without(Slots(g), c)] /\ UNCHANGED faults
     \/ slots' = [slots EXCEPT ![g] = Disown(@, c)] /\ Fault
  /\ UNCHANGED <<leases, counter, pc, gate, leased, waited, late>>

Depart(c) ==
  /\ pc[c] = "leave" /\ held[c] = {} /\ ~leased[c]
  /\ Goto(c, "rest") /\ gate' = [gate EXCEPT ![c] = "user"]
  /\ UNCHANGED <<sets, counter, held, leased, waited, late, faults>>

\* A process dies in the middle of a request.
Die(c) ==
  /\ pc[c] \notin {"idle", "rest"} /\ Fault
  /\ Goto(c, "rest") /\ gate' = [gate EXCEPT ![c] = "user"]
  /\ waited' = [waited EXCEPT ![c] = 0]
  /\ held' = [held EXCEPT ![c] = {}] /\ leased' = [leased EXCEPT ![c] = FALSE]
  /\ slots' = [g \in Gates |-> Disown(slots[g], c)] /\ leases' = Disown(leases, c)
  /\ late' = late \ {c}
  /\ UNCHANGED counter

-----------------------------------------------------------------------------
(* A live call: CreateLiveCall and the controller of the session. *)

AcquireLease(c) ==
  /\ pc[c] = "lease"
  /\ \/ /\ LeaseAllowed /\ TakeLease(c)
        /\ leased' = [leased EXCEPT ![c] = TRUE]
        /\ Goto(c, "create") /\ UNCHANGED faults
     \/ /\ ~LeaseAllowed /\ UNCHANGED sets
        /\ Goto(c, "leave") /\ UNCHANGED <<leased, faults>>
     \/ /\ LeaseAllowed /\ TakeLease(faults + 1) /\ Fault
        /\ Goto(c, "leave") /\ UNCHANGED leased
     \/ Fault /\ Goto(c, "leave") /\ UNCHANGED <<sets, leased>>
  /\ UNCHANGED <<counter, gate, held, waited, late>>

\* The upstream call is made, or fails, or its record cannot be saved.
Create(c) ==
  /\ pc[c] = "create"
  /\ Goto(c, "hand") \/ Goto(c, "leave")
  /\ UNCHANGED <<sets, counter, gate, held, leased, waited, late, faults>>

\* Both slots are released; from now on the lease stands for the call.
Hand(c) ==
  /\ pc[c] = "hand" /\ held[c] = {}
  /\ Goto(c, "session")
  /\ UNCHANGED <<sets, counter, gate, held, leased, waited, late, faults>>

\* refreshLiveLeaseScript: a lease that is gone is not taken again, and the
\* session ends as it does when the call fails.
RefreshLease(c) ==
  /\ pc[c] = "session"
  /\ \/ /\ c \in DOMAIN leases /\ leases' = With(leases, c)
        /\ UNCHANGED <<pc, faults>>
     \/ c \notin DOMAIN leases /\ Goto(c, "leave") /\ UNCHANGED <<leases, faults>>
     \/ Goto(c, "leave") /\ Fault /\ UNCHANGED leases
  /\ late' = late \ {c}
  /\ UNCHANGED <<slots, counter, gate, held, leased, waited>>

EndSession(c) ==
  /\ pc[c] = "session" /\ Goto(c, "leave") /\ late' = late \ {c}
  /\ UNCHANGED <<sets, counter, gate, held, leased, waited, faults>>

ReleaseLease(c) ==
  /\ pc[c] = "leave" /\ leased[c]
  /\ leased' = [leased EXCEPT ![c] = FALSE]
  /\ \/ leases' = Without(leases, c) /\ UNCHANGED faults
     \/ leases' = Disown(leases, c) /\ Fault
  /\ UNCHANGED <<slots, counter, pc, gate, held, waited, late>>

-----------------------------------------------------------------------------
(* Time.  A waiting request gives up in time, a session refreshes its lease  *)
(* in every tick unless it is late, and all other steps but running and      *)
(* creating a call are quick.  A client sends at most one request in a tick. *)

BeLate(c) ==
  /\ pc[c] = "session" /\ c \notin late /\ Fault
  /\ late' = late \cup {c}
  /\ UNCHANGED <<sets, counter, client>>

InTime(c) ==
  CASE pc[c] = "wait"    -> waited[c] < MaxWait
    [] pc[c] = "session" -> c \in late \/ (c \in DOMAIN leases /\ leases[c] = 0)
    [] OTHER             -> pc[c] \in {"idle", "rest", "run", "create"}

Waiting(g) == {c \in Clients : pc[c] \in {"wait", "uncount"} /\ gate[c] = g}

\* The counter expires, and nobody who waits is counted any more.  Excused are those
\* whose time is over then, and those who were uncounted before.
Uncounted(g) ==
  LET overdue == {c \in Waiting(g) : waited[c] + 1 >= MaxWait}
      excused == open[g] + Cardinality(overdue)
  IN IF excused < Cardinality(Waiting(g)) THEN excused ELSE Cardinality(Waiting(g))

Older(f, ttl) == [i \in DOMAIN f |-> IF f[i] < ttl THEN f[i] + 1 ELSE ttl]

Tick ==
  /\ \A c \in Clients : InTime(c)
  /\ slots' = [g \in Gates |-> Older(slots[g], SlotTTL)]
  /\ leases' = Fresh(Older(leases, LeaseTTL), LeaseTTL)
  /\ LET expires(g) == waitAge[g] + 1 >= QueueTTL IN
     /\ waits'   = [g \in Gates |-> IF expires(g) THEN 0 ELSE waits[g]]
     /\ waitAge' = [g \in Gates |-> IF expires(g) \/ waits[g] = 0 THEN 0 ELSE waitAge[g] + 1]
     /\ open'    = [g \in Gates |-> IF expires(g) THEN Uncounted(g) ELSE open[g]]
  /\ waited' = [c \in Clients |-> IF pc[c] = "wait" THEN waited[c] + 1 ELSE waited[c]]
  /\ pc' = [c \in Clients |-> IF pc[c] = "rest" THEN "idle" ELSE pc[c]]
  /\ UNCHANGED <<gate, held, leased, late, faults>>

\* CleanupExpiredAccountSlotKeys, CleanupStaleProcessSlots.
Cleanup(g) ==
  /\ slots' = [slots EXCEPT ![g] = Slots(g)]
  /\ UNCHANGED <<leases, counter, client, late, faults>>

Progress(c) ==
  \/ pc[c] # "idle" /\ TryAcquire(c)
  \/ JoinQueue(c) \/ GiveUp(c) \/ LeaveQueue(c)
  \/ \E g \in Gates : Release(c, g)
  \/ Depart(c)
  \/ AcquireLease(c) \/ Hand(c) \/ RefreshLease(c) \/ ReleaseLease(c)

Next ==
  \/ \E c \in Clients :
       TryAcquire(c) \/ Progress(c) \/ Finish(c) \/ Create(c) \/ EndSession(c) \/ Die(c) \/ BeLate(c)
  \/ \E g \in Gates : Cleanup(g)
  \/ Tick

\* Handlers go on, nothing is assumed of upstream calls, and time passes: the clock
\* does not wait for handlers that are always busy, hence strong fairness.
Fairness == SF_vars(Tick) /\ \A c \in Clients : WF_vars(Progress(c))

Spec == Init /\ [][Next]_vars /\ Fairness

-----------------------------------------------------------------------------
(* What is checked. *)

\* The client occupies the gate by a slot or a lease that is still valid.
Uses(c, g) ==
  \/ pc[c] \in {"run", "create"} /\ c \in DOMAIN Slots(g)
  \/ pc[c] \in {"create", "hand", "session"} /\ c \in DOMAIN leases

\* Ordinary requests and live calls together never exceed a limit, also while
\* a live call changes over from its slots to its lease; a request counts
\* until its slot is too old, a call until its lease expires (acquireScript,
\* acquireLiveLeaseScript, CreateLiveCall).
WithinLimit == \A g \in Gates : Cardinality({c \in Clients : Uses(c, g)}) <= Limit[g]

\* Everyone who waits is counted, so a queue is never longer than its limit, but
\* for those the failing counter let in, and those who come in while others still
\* wait whose time ended with the counter's: it does not expire under a waiter with
\* time left (incrementWaitScript, which refreshes it).
WaitersCounted == \A g \in Gates : Cardinality(Waiting(g)) <= waits[g] + open[g]

\* A full queue opens again, also when those who filled it died: requests that
\* are turned away do not keep its counter alive.
QueueReopens == \A g \in Gates : waits[g] = QueueLimit ~> waits[g] < QueueLimit

-----------------------------------------------------------------------------
(* The inductive invariants behind WithinLimit and WaitersCounted. *)

\* Only live calls have leases, and none of them waits; no request is past a gate it
\* has not passed.
PathInv ==
  \A c \in Clients :
    /\ pc[c] \in {"lease", "create", "hand", "session"} => c \in Live
    /\ pc[c] \in {"count", "wait", "uncount"} => c \notin Live
    /\ pc[c] \in {"idle", "rest"} => gate[c] = "user"
    /\ pc[c] = "try" => gate[c] = "account"

\* A live call comes to its lease at once, so its slots are as new as can be.
NewSlot(c, g) == c \in DOMAIN slots[g] /\ slots[g][c] = 0
SwiftInv ==
  \A c \in Live :
    /\ pc[c] \in {"try", "lease"} => NewSlot(c, "user")
    /\ pc[c] = "lease" => NewSlot(c, "account")

\* The clients that have a valid slot or lease; what is nobody's counts against
\* the limit but takes part in nothing.
Valid(g) == Clients \cap (DOMAIN Slots(g) \cup DOMAIN leases)
ShareInv == \A g \in Gates : Cardinality(Valid(g)) <= Limit[g]

SlotsInv == TypeOK /\ PathInv /\ SwiftInv /\ ShareInv

\* Of those who wait some may be uncounted; the counter has been kept alive since
\* the others joined.  Who is uncounted changes: whoever leaves takes a count along.
CountInv ==
  \A g \in Gates : \E uncounted \in SUBSET Waiting(g) :
    LET counted == Waiting(g) \ uncounted IN
    /\ Cardinality(uncounted) <= open[g] /\ Cardinality(counted) <= waits[g]
    /\ \A c \in counted : waitAge[g] <= waited[c]
=============================================================================
