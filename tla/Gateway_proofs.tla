---------------------------- MODULE Gateway_proofs -----------------------------
(***************************************************************************)
(* Proofs about what a request of the gateway passes through: the limits   *)
(* of concurrency (ConcurrencySlots), the scheduler's snapshot of the      *)
(* accounts (SchedulerSnapshot) and the billing of its use (UsageBilling). *)
(*                                                                         *)
(* The three share no state but the count of faults, and each has its own  *)
(* specification: Spec, SnapshotSpec and BillingSpec.                      *)
(***************************************************************************)
EXTENDS ConcurrencySlots, SchedulerSnapshot, UsageBilling, FiniteSetTheorems, TLAPS

(***************************************************************************)
(* Proofs about ConcurrencySlots, for any number of clients, any limits    *)
(* and times to live, and any number of faults.                            *)
(***************************************************************************)

USE DEF sets, counter, client

-----------------------------------------------------------------------------
(* The helpers. *)

LEMMA WithAges ==
  ASSUME NEW f, NEW ttl \in Nat, Ages(f, ttl), NEW i \in Members
  PROVE  /\ DOMAIN With(f, i) = DOMAIN f \cup {i} /\ With(f, i)[i] = 0
         /\ \A j \in DOMAIN f \ {i} : With(f, i)[j] = f[j]
         /\ Ages(With(f, i), ttl)
  BY DEF With, Ages

LEMMA FreshAges ==
  ASSUME NEW f, NEW ttl \in Nat, Ages(f, ttl)
  PROVE  /\ DOMAIN Fresh(f, ttl) = {i \in DOMAIN f : f[i] < ttl}
         /\ \A j \in DOMAIN Fresh(f, ttl) : Fresh(f, ttl)[j] = f[j]
         /\ Ages(Fresh(f, ttl), ttl)
  BY DEF Fresh, Ages, Restrict

LEMMA WithoutAges ==
  ASSUME NEW f, NEW ttl \in Nat, Ages(f, ttl), NEW i
  PROVE  /\ DOMAIN Without(f, i) = DOMAIN f \ {i}
         /\ \A j \in DOMAIN Without(f, i) : Without(f, i)[j] = f[j]
         /\ Ages(Without(f, i), ttl)
  BY DEF Without, Ages, Restrict

LEMMA OlderAges ==
  ASSUME NEW f, NEW ttl \in Nat, Ages(f, ttl)
  PROVE  /\ DOMAIN Older(f, ttl) = DOMAIN f
         /\ \A j \in DOMAIN f : Older(f, ttl)[j] = IF f[j] < ttl THEN f[j] + 1 ELSE ttl
         /\ Ages(Older(f, ttl), ttl)
  BY DEF Older, Ages

LEMMA GhostIsNobody ==
  ASSUME TypeOK, faults < MaxFaults
  PROVE  faults + 1 \in Members /\ faults + 1 \notin Clients /\ faults + 1 \in 1..MaxFaults
  BY ClientsAssumption, TimesAssumption DEF TypeOK, Members

LEMMA DisownAges ==
  ASSUME TypeOK, faults < MaxFaults, NEW f, NEW ttl \in Nat, Ages(f, ttl), NEW c \in Clients
  PROVE  /\ Clients \cap DOMAIN Disown(f, c) = (Clients \cap DOMAIN f) \ {c}
         /\ \A j \in (Clients \cap DOMAIN f) \ {c} : Disown(f, c)[j] = f[j]
         /\ Ages(Disown(f, c), ttl)
  BY GhostIsNobody DEF Disown, Ages

-----------------------------------------------------------------------------
(* What happens to the sets. *)

SetsOK ==
  /\ DOMAIN slots = Gates /\ \A g \in Gates : Ages(slots[g], SlotTTL)
  /\ Ages(leases, LeaseTTL)

\* No client gets a slot or a lease, or a newer one, and those outside D keep
\* what is new.
Sheds(D) ==
  /\ SetsOK'
  /\ Clients \cap DOMAIN leases' \subseteq DOMAIN leases
  /\ \A g \in Gates, c \in Clients :
       /\ c \in DOMAIN slots'[g] => c \in DOMAIN slots[g] /\ slots[g][c] <= slots'[g][c]
       /\ c \notin D /\ NewSlot(c, g) => NewSlot(c, g)'

LEMMA Positive == SlotTTL \in Nat /\ LeaseTTL \in Nat /\ SlotTTL > 0 /\ LeaseTTL > 0
  BY TimesAssumption

LEMMA TypeSets == ASSUME TypeOK PROVE SetsOK
  BY DEF TypeOK, SetsOK

LEMMA SlotsOf ==
  ASSUME SetsOK, NEW g \in Gates
  PROVE  /\ DOMAIN Slots(g) = {i \in DOMAIN slots[g] : slots[g][i] < SlotTTL}
         /\ \A j \in DOMAIN Slots(g) : Slots(g)[j] = slots[g][j]
         /\ Ages(Slots(g), SlotTTL)
  BY FreshAges, Positive DEF SetsOK, Slots

LEMMA SlotsOfNext ==
  ASSUME SetsOK', NEW g \in Gates
  PROVE  DOMAIN Slots(g)' = {i \in DOMAIN slots'[g] : slots'[g][i] < SlotTTL}
<1> DEFINE f == slots'[g]
<1>1. Ages(f, SlotTTL) /\ Slots(g)' = Fresh(f, SlotTTL)
  BY DEF SetsOK, Slots
<1> HIDE DEF f
<1>2. DOMAIN Fresh(f, SlotTTL) = {i \in DOMAIN f : f[i] < SlotTTL}
  BY <1>1, FreshAges, Positive
<1> QED
  BY <1>1, <1>2 DEF f

LEMMA NewIsFresh ==
  ASSUME SetsOK, NEW g \in Gates, NEW c \in Clients, NewSlot(c, g)
  PROVE  c \in DOMAIN Slots(g)
  BY SlotsOf, Positive DEF NewSlot

LEMMA Stays == ASSUME SetsOK, UNCHANGED sets PROVE Sheds({})
<1>1. SetsOK' /\ \A g \in Gates, c \in Clients : NewSlot(c, g) => NewSlot(c, g)'
  BY DEF SetsOK, NewSlot
<1>2. \A g \in Gates, c \in Clients :
        c \in DOMAIN slots'[g] => c \in DOMAIN slots[g] /\ slots[g][c] <= slots'[g][c]
  BY DEF SetsOK, Ages
<1> QED
  BY <1>1, <1>2 DEF Sheds

\* The set of one gate is replaced by one in which no client has more.
LEMMA GateSheds ==
  ASSUME SetsOK, NEW g \in Gates, NEW f, Ages(f, SlotTTL), NEW D,
         slots' = [slots EXCEPT ![g] = f], UNCHANGED leases,
         \A c \in Clients : c \in DOMAIN f => c \in DOMAIN slots[g] /\ f[c] = slots[g][c],
         \A c \in Clients \ D : NewSlot(c, g) => c \in DOMAIN f
  PROVE  Sheds(D)
<1>1. SetsOK' /\ slots'[g] = f /\ \A h \in Gates \ {g} : slots'[h] = slots[h]
  BY DEF SetsOK
<1>2. \A h \in Gates, c \in Clients :
        c \in DOMAIN slots'[h] => c \in DOMAIN slots[h] /\ slots[h][c] <= slots'[h][c]
  BY <1>1 DEF SetsOK, Ages
<1>3. \A h \in Gates, c \in Clients : c \notin D /\ NewSlot(c, h) => NewSlot(c, h)'
  BY <1>1 DEF NewSlot
<1> QED
  BY <1>1, <1>2, <1>3 DEF Sheds

LEMMA PurgeSheds ==
  ASSUME SetsOK, NEW g \in Gates, slots' = [slots EXCEPT ![g] = Slots(g)], UNCHANGED leases
  PROVE  Sheds({})
<1>1. \A c \in Clients : c \in DOMAIN Slots(g) => c \in DOMAIN slots[g] /\ Slots(g)[c] = slots[g][c]
  BY SlotsOf
<1>2. Ages(Slots(g), SlotTTL) /\ \A c \in Clients : NewSlot(c, g) => c \in DOMAIN Slots(g)
  BY SlotsOf, NewIsFresh
<1> QED
  BY <1>1, <1>2, GateSheds

LEMMA GhostSlotSheds ==
  ASSUME TypeOK, NEW g \in Gates, TakeSlot(faults + 1, g), faults < MaxFaults
  PROVE  Sheds({})
<1> DEFINE f == With(Slots(g), faults + 1)
<1>1. SetsOK /\ Ages(Slots(g), SlotTTL)
  BY TypeSets, SlotsOf
<1>2. /\ DOMAIN f = DOMAIN Slots(g) \cup {faults + 1} /\ Ages(f, SlotTTL)
      /\ \A j \in DOMAIN Slots(g) \ {faults + 1} : f[j] = Slots(g)[j]
  BY <1>1, WithAges, GhostIsNobody, Positive
<1> HIDE DEF f
<1>3. \A c \in Clients : c \in DOMAIN f <=> c \in DOMAIN Slots(g)
  BY <1>2, GhostIsNobody
<1>4. \A c \in Clients : c \in DOMAIN f => c \in DOMAIN slots[g] /\ f[c] = slots[g][c]
  BY <1>1, <1>2, <1>3, SlotsOf, GhostIsNobody
<1>5. \A c \in Clients : NewSlot(c, g) => c \in DOMAIN f
  BY <1>1, <1>3, NewIsFresh
<1>6. slots' = [slots EXCEPT ![g] = f] /\ UNCHANGED leases
  BY DEF TakeSlot, f
<1> QED
  BY <1>1, <1>2, <1>4, <1>5, <1>6, GateSheds

LEMMA WithoutSheds ==
  ASSUME SetsOK, NEW g \in Gates, NEW c \in Clients,
         slots' = [slots EXCEPT ![g] = Without(Slots(g), c)], UNCHANGED leases
  PROVE  Sheds({c})
<1> DEFINE f == Without(Slots(g), c)
<1>1. /\ DOMAIN f = DOMAIN Slots(g) \ {c} /\ Ages(f, SlotTTL)
      /\ \A j \in DOMAIN f : f[j] = Slots(g)[j]
  BY SlotsOf, WithoutAges, Positive
<1> HIDE DEF f
<1>2. \A b \in Clients : b \in DOMAIN f => b \in DOMAIN slots[g] /\ f[b] = slots[g][b]
  BY <1>1, SlotsOf
<1>3. \A b \in Clients \ {c} : NewSlot(b, g) => b \in DOMAIN f
  BY <1>1, NewIsFresh
<1>4. slots' = [slots EXCEPT ![g] = f]
  BY DEF f
<1> QED
  BY <1>1, <1>2, <1>3, <1>4, GateSheds

LEMMA DisownSheds ==
  ASSUME TypeOK, NEW g \in Gates, NEW c \in Clients, faults < MaxFaults,
         slots' = [slots EXCEPT ![g] = Disown(slots[g], c)], UNCHANGED leases
  PROVE  Sheds({c})
<1> DEFINE f == Disown(slots[g], c)
<1>1. SetsOK
  BY TypeSets
<1>2. /\ Clients \cap DOMAIN f = (Clients \cap DOMAIN slots[g]) \ {c} /\ Ages(f, SlotTTL)
      /\ \A j \in (Clients \cap DOMAIN slots[g]) \ {c} : f[j] = slots[g][j]
  BY <1>1, DisownAges, Positive DEF SetsOK
<1>3. slots' = [slots EXCEPT ![g] = f]
  OBVIOUS
<1> HIDE DEF f
<1>4. \A b \in Clients : b \in DOMAIN f => b \in DOMAIN slots[g] /\ f[b] = slots[g][b]
  BY <1>2
<1>5. \A b \in Clients \ {c} : NewSlot(b, g) => b \in DOMAIN f
  BY <1>2 DEF NewSlot
<1> QED
  BY <1>1, <1>2, <1>3, <1>4, <1>5, GateSheds

\* Only the leases change.
LEMMA LeasesShed ==
  ASSUME SetsOK, NEW f, Ages(f, LeaseTTL), leases' = f, UNCHANGED slots,
         Clients \cap DOMAIN f \subseteq DOMAIN leases
  PROVE  Sheds({})
<1>1. SetsOK' /\ \A g \in Gates, c \in Clients : NewSlot(c, g) => NewSlot(c, g)'
  BY DEF SetsOK, NewSlot
<1>2. \A g \in Gates, c \in Clients :
        c \in DOMAIN slots'[g] => c \in DOMAIN slots[g] /\ slots[g][c] <= slots'[g][c]
  BY DEF SetsOK, Ages
<1> QED
  BY <1>1, <1>2 DEF Sheds

\* The set of every gate is replaced by one in which no client has a newer slot.
LEMMA AllShed ==
  ASSUME SetsOK, NEW D, DOMAIN slots' = Gates,
         \A g \in Gates :
           /\ Ages(slots'[g], SlotTTL)
           /\ \A c \in Clients :
                /\ c \in DOMAIN slots'[g] => c \in DOMAIN slots[g] /\ slots[g][c] <= slots'[g][c]
                /\ c \notin D /\ NewSlot(c, g) => c \in DOMAIN slots'[g] /\ slots'[g][c] = 0,
         Ages(leases', LeaseTTL), Clients \cap DOMAIN leases' \subseteq DOMAIN leases
  PROVE  Sheds(D)
  BY DEF Sheds, SetsOK, NewSlot

LEMMA DieSheds ==
  ASSUME TypeOK, NEW c \in Clients, faults < MaxFaults,
         slots' = [g \in Gates |-> Disown(slots[g], c)], leases' = Disown(leases, c)
  PROVE  Sheds({c})
<1>1. SetsOK
  BY TypeSets
<1>2. Ages(leases', LeaseTTL) /\ Clients \cap DOMAIN leases' \subseteq DOMAIN leases
  BY <1>1, DisownAges, Positive DEF SetsOK
<1>3. ASSUME NEW g \in Gates
      PROVE  /\ Ages(slots'[g], SlotTTL)
             /\ Clients \cap DOMAIN slots'[g] = (Clients \cap DOMAIN slots[g]) \ {c}
             /\ \A b \in (Clients \cap DOMAIN slots[g]) \ {c} : slots'[g][b] = slots[g][b]
  <2>1. slots'[g] = Disown(slots[g], c) /\ Ages(slots[g], SlotTTL)
    BY <1>1 DEF SetsOK
  <2> QED
    BY <2>1, DisownAges, Positive
<1>4. ASSUME NEW g \in Gates, NEW b \in Clients
      PROVE  /\ b \in DOMAIN slots'[g] => b \in DOMAIN slots[g] /\ slots[g][b] <= slots'[g][b]
             /\ b \notin {c} /\ NewSlot(b, g) => b \in DOMAIN slots'[g] /\ slots'[g][b] = 0
  <2>1. Ages(slots[g], SlotTTL)
    BY <1>1 DEF SetsOK
  <2> QED
    BY <1>3, <2>1 DEF Ages, NewSlot
<1> QED
  BY <1>1, <1>2, <1>3, <1>4, AllShed

LEMMA TickSheds ==
  ASSUME SetsOK, slots' = [g \in Gates |-> Older(slots[g], SlotTTL)],
         leases' = Fresh(Older(leases, LeaseTTL), LeaseTTL)
  PROVE  Sheds(Clients)
<1>1. Ages(leases', LeaseTTL) /\ Clients \cap DOMAIN leases' \subseteq DOMAIN leases
  <2>1. Ages(Older(leases, LeaseTTL), LeaseTTL) /\ DOMAIN Older(leases, LeaseTTL) = DOMAIN leases
    BY OlderAges, Positive DEF SetsOK
  <2> DEFINE f == Older(leases, LeaseTTL)
  <2> HIDE DEF f
  <2>2. Ages(f, LeaseTTL) /\ DOMAIN f = DOMAIN leases
    BY <2>1 DEF f
  <2>3. Ages(Fresh(f, LeaseTTL), LeaseTTL) /\ DOMAIN Fresh(f, LeaseTTL) \subseteq DOMAIN f
    <3>1. DOMAIN Fresh(f, LeaseTTL) = {i \in DOMAIN f : f[i] < LeaseTTL} /\ Ages(Fresh(f, LeaseTTL), LeaseTTL)
      BY <2>2, FreshAges, Positive
    <3> QED
      BY <3>1
  <2> QED
    BY <2>2, <2>3 DEF f
<1>2. ASSUME NEW g \in Gates
      PROVE  /\ Ages(slots'[g], SlotTTL) /\ DOMAIN slots'[g] = DOMAIN slots[g]
             /\ \A b \in DOMAIN slots[g] : slots[g][b] <= slots'[g][b]
  <2>1. slots'[g] = Older(slots[g], SlotTTL) /\ Ages(slots[g], SlotTTL)
    BY DEF SetsOK
  <2>2. /\ Ages(slots'[g], SlotTTL) /\ DOMAIN slots'[g] = DOMAIN slots[g]
        /\ \A b \in DOMAIN slots[g] : slots'[g][b] = IF slots[g][b] < SlotTTL THEN slots[g][b] + 1 ELSE SlotTTL
    BY <2>1, OlderAges, Positive
  <2> QED
    BY <2>1, <2>2, Positive DEF Ages
<1> QED
  BY <1>1, <1>2, AllShed

-----------------------------------------------------------------------------
(* Shares of the limit. *)

LEMMA FiniteShares ==
  ASSUME NEW S, S \subseteq Clients
  PROVE  IsFiniteSet(S) /\ Cardinality(S) \in Nat
  BY ClientsAssumption, FS_Subset, FS_CardinalityType

LEMMA FiniteMembers ==
  /\ IsFiniteSet(Members)
  /\ \A S : S \subseteq Members => IsFiniteSet(S) /\ Cardinality(S) \in Nat
<1>1. IsFiniteSet(Clients) /\ IsFiniteSet(1..MaxFaults)
  BY ClientsAssumption, TimesAssumption, FS_Interval
<1>2. IsFiniteSet(Members)
  BY <1>1, FS_Union DEF Members
<1> QED
  BY <1>2, FS_Subset, FS_CardinalityType

LEMMA UnionBound ==
  ASSUME NEW S, NEW T, IsFiniteSet(S), IsFiniteSet(T)
  PROVE  Cardinality(S \cup T) <= Cardinality(S) + Cardinality(T)
<1>1. Cardinality(S \cup T) = Cardinality(S) + Cardinality(T) - Cardinality(S \cap T)
  BY FS_Union
<1>2. Cardinality(S) \in Nat /\ Cardinality(T) \in Nat /\ Cardinality(S \cap T) \in Nat
  BY FS_CardinalityType, FS_Intersection
<1> QED
  BY <1>1, <1>2

LEMMA OneMore ==
  ASSUME NEW S, NEW x, IsFiniteSet(S)
  PROVE  IsFiniteSet(S \cup {x}) /\ Cardinality(S \cup {x}) <= Cardinality(S) + 1
<1>1. Cardinality(S) \in Nat
  BY FS_CardinalityType
<1> QED
  BY <1>1, FS_AddElement

LEMMA Limits == \A g \in Gates : Limit[g] \in Nat
  BY LimitsAssumption

LEMMA ShareShrinks ==
  ASSUME ShareInv, NEW g \in Gates, Valid(g)' \subseteq Valid(g)
  PROVE  Cardinality(Valid(g)') <= Limit[g]
<1>1. Cardinality(Valid(g)) <= Limit[g] /\ Valid(g) \subseteq Clients
  BY DEF ShareInv, Valid
<1>2. Cardinality(Valid(g)') <= Cardinality(Valid(g)) /\ Cardinality(Valid(g)') \in Nat
  BY <1>1, FiniteShares, FS_Subset, FS_CardinalityType
<1> QED
  BY <1>1, <1>2, FiniteShares, Limits

LEMMA ShedsShare ==
  ASSUME SetsOK, ShareInv, NEW D, Sheds(D)
  PROVE  ShareInv'
<1>1. SetsOK'
  BY DEF Sheds
<1>2. ASSUME NEW g \in Gates PROVE Valid(g)' \subseteq Valid(g)
  <2>1. \A c \in Clients : c \in DOMAIN Slots(g)' => c \in DOMAIN Slots(g)
    <3> TAKE c \in Clients
    <3> HAVE c \in DOMAIN Slots(g)'
    <3>1. DOMAIN Slots(g)' = {i \in DOMAIN slots'[g] : slots'[g][i] < SlotTTL}
      BY <1>1, SlotsOfNext
    <3>2. /\ c \in DOMAIN slots[g] /\ slots[g][c] <= slots'[g][c] /\ slots'[g][c] < SlotTTL
          /\ Ages(slots[g], SlotTTL) /\ Ages(slots'[g], SlotTTL) /\ c \in DOMAIN slots'[g]
      BY <1>1, <3>1 DEF Sheds, SetsOK
    <3>3. slots[g][c] < SlotTTL
      BY <3>2, Positive DEF Ages
    <3> QED
      BY <3>2, <3>3, SlotsOf
  <2> QED
    BY <2>1 DEF Valid, Sheds
<1> QED
  BY <1>2, ShareShrinks DEF ShareInv

\* The room that acquireScript finds is room for one more.
LEMMA TakeShare ==
  ASSUME SetsOK, ShareInv, NEW c \in Clients, NEW g \in Gates, Free(g), TakeSlot(c, g)
  PROVE  /\ SetsOK' /\ ShareInv' /\ NewSlot(c, g)'
         /\ \A h \in Gates, b \in Clients : NewSlot(b, h) => NewSlot(b, h)'
<1> DEFINE f == With(Slots(g), c)
<1>1. /\ DOMAIN f = DOMAIN Slots(g) \cup {c} /\ Ages(f, SlotTTL) /\ f[c] = 0
      /\ \A j \in DOMAIN Slots(g) \ {c} : f[j] = Slots(g)[j]
  BY SlotsOf, WithAges, Positive DEF Members
<1>2. slots' = [slots EXCEPT ![g] = f] /\ UNCHANGED leases
  BY DEF TakeSlot
<1> HIDE DEF f
<1>3. slots'[g] = f /\ DOMAIN slots' = Gates /\ \A h \in Gates \ {g} : slots'[h] = slots[h]
  BY <1>2 DEF SetsOK
<1>4. SetsOK'
  BY <1>1, <1>2, <1>3 DEF SetsOK
<1>5. NewSlot(c, g)'
  BY <1>1, <1>3 DEF NewSlot
<1>6. ASSUME NEW h \in Gates, NEW b \in Clients, NewSlot(b, h) PROVE NewSlot(b, h)'
  <2>1. CASE h = g /\ b # c
    <3>1. b \in DOMAIN Slots(g) /\ Slots(g)[b] = 0
      BY <1>6, <2>1, NewIsFresh, SlotsOf DEF NewSlot
    <3> QED
      BY <1>1, <1>3, <2>1, <3>1 DEF NewSlot
  <2> QED
    BY <1>3, <1>5, <1>6, <2>1 DEF NewSlot
<1>7. Cardinality(Valid(g)') <= Limit[g]
  <2> DEFINE all == DOMAIN Slots(g) \cup DOMAIN leases
  <2>1. DOMAIN Slots(g) \subseteq Members /\ DOMAIN leases \subseteq Members /\ all \subseteq Members
    BY SlotsOf DEF SetsOK, Ages
  <2>2. DOMAIN Slots(g)' \subseteq DOMAIN f
    BY <1>3, <1>4, SlotsOfNext
  <2>3. Valid(g)' \subseteq all \cup {c}
    BY <1>1, <1>2, <2>2 DEF Valid
  <2>4. Cardinality(all) <= Cardinality(DOMAIN Slots(g)) + Cardinality(DOMAIN leases)
    BY <2>1, FiniteMembers, UnionBound
  <2>5. Cardinality(all \cup {c}) <= Cardinality(all) + 1 /\ IsFiniteSet(all \cup {c})
    BY <2>1, FiniteMembers, OneMore
  <2>6. Cardinality(Valid(g)') <= Cardinality(all \cup {c}) /\ Cardinality(Valid(g)') \in Nat
    BY <2>3, <2>5, FS_Subset, FS_CardinalityType
  <2>7. Cardinality(DOMAIN Slots(g)) + Cardinality(DOMAIN leases) < Limit[g]
    BY DEF Free, Size
  <2> HIDE DEF all
  <2>8. /\ Cardinality(all) \in Nat /\ Cardinality(all \cup {c}) \in Nat
        /\ Cardinality(DOMAIN Slots(g)) \in Nat /\ Cardinality(DOMAIN leases) \in Nat
    BY <2>1, <2>5, FiniteMembers, FS_CardinalityType
  <2> QED
    BY <2>4, <2>5, <2>6, <2>7, <2>8, Limits
<1>8. ASSUME NEW h \in Gates \ {g} PROVE Cardinality(Valid(h)') <= Limit[h]
  <2>1. Slots(h)' = Slots(h)
    BY <1>3 DEF Slots
  <2> QED
    BY <1>2, <2>1, ShareShrinks DEF Valid
<1> QED
  BY <1>4, <1>5, <1>6, <1>7, <1>8 DEF ShareInv

-----------------------------------------------------------------------------
(* The steps. *)

CounterOK ==
  /\ waits \in [Gates -> 0..QueueLimit] /\ waitAge \in [Gates -> 0..QueueTTL]
  /\ open \in [Gates -> Nat]
  /\ late \subseteq Live /\ faults \in 0..MaxFaults
ClientOK ==
  /\ pc \in [Clients -> Steps] /\ gate \in [Clients -> Gates]
  /\ held \in [Clients -> SUBSET Gates] /\ leased \in [Clients -> BOOLEAN]
  /\ waited \in [Clients -> 0..MaxWait]

PathOf(c) ==
  /\ pc[c] \in {"lease", "create", "hand", "session"} => c \in Live
  /\ pc[c] \in {"count", "wait", "uncount"} => c \notin Live
  /\ pc[c] \in {"idle", "rest"} => gate[c] = "user"
  /\ pc[c] = "try" => gate[c] = "account"
SwiftOf(c) ==
  c \in Live =>
    /\ pc[c] \in {"try", "lease"} => NewSlot(c, "user")
    /\ pc[c] = "lease" => NewSlot(c, "account")

LEMMA Parts ==
  SlotsInv <=> /\ SetsOK /\ ShareInv /\ CounterOK /\ ClientOK
               /\ \A c \in Clients : PathOf(c) /\ SwiftOf(c)
<1>1. TypeOK /\ PathInv <=> SetsOK /\ CounterOK /\ ClientOK /\ \A c \in Clients : PathOf(c)
  BY DEF TypeOK, PathInv, SetsOK, CounterOK, ClientOK, PathOf
<1>2. SwiftInv <=> \A c \in Clients : SwiftOf(c)
  BY ClientsAssumption DEF SwiftInv, SwiftOf
<1> QED
  BY <1>1, <1>2 DEF SlotsInv

LEMMA PartsNext ==
  ASSUME SetsOK', ShareInv', CounterOK', ClientOK', \A c \in Clients : PathOf(c)' /\ SwiftOf(c)'
  PROVE  SlotsInv'
<1>1. TypeOK' /\ PathInv'
  BY DEF TypeOK, PathInv, SetsOK, CounterOK, ClientOK, PathOf
<1>2. SwiftInv'
  BY ClientsAssumption DEF SwiftInv, SwiftOf
<1> QED
  BY <1>1, <1>2 DEF SlotsInv

\* One client moves; what is new stays so for the others.
LEMMA OneMoves ==
  ASSUME SlotsInv, SetsOK', ShareInv', CounterOK', ClientOK', NEW c \in Clients,
         \A b \in Clients \ {c} : pc'[b] = pc[b] /\ gate'[b] = gate[b],
         \A b \in Clients \ {c}, g \in Gates : NewSlot(b, g) => NewSlot(b, g)',
         PathOf(c)', SwiftOf(c)'
  PROVE  SlotsInv'
<1>1. ASSUME NEW b \in Clients PROVE PathOf(b)' /\ SwiftOf(b)'
  <2>1. CASE b = c
    BY <2>1
  <2>2. CASE b # c
    <3>1. PathOf(b) /\ SwiftOf(b)
      BY Parts
    <3>2. pc'[b] = pc[b] /\ gate'[b] = gate[b] /\ \A g \in Gates : NewSlot(b, g) => NewSlot(b, g)'
      BY <2>2
    <3>3. PathOf(b)'
      BY <3>1, <3>2 DEF PathOf
    <3>4. SwiftOf(b)'
      BY <3>1, <3>2 DEF SwiftOf, Gates
    <3> QED
      BY <3>3, <3>4
  <2> QED
    BY <2>1, <2>2
<1> QED
  BY <1>1, PartsNext

LEMMA OneSheds ==
  ASSUME SlotsInv, NEW c \in Clients, Sheds({}) \/ Sheds({c}), CounterOK', ClientOK',
         \A b \in Clients \ {c} : pc'[b] = pc[b] /\ gate'[b] = gate[b],
         PathOf(c)', SwiftOf(c)'
  PROVE  SlotsInv'
<1>1. SetsOK' /\ ShareInv' /\ \A b \in Clients \ {c}, g \in Gates : NewSlot(b, g) => NewSlot(b, g)'
  <2>1. SetsOK /\ ShareInv
    BY Parts
  <2> QED
    BY <2>1, ShedsShare DEF Sheds
<1> QED
  BY <1>1, OneMoves

\* Where SwiftOf says nothing.
Slow == Steps \ {"try", "lease"}
LEMMA StayIsSwift ==
  ASSUME SlotsInv, NEW c \in Clients, Sheds({}), pc'[c] = pc[c]
  PROVE  SwiftOf(c)'
<1>1. \A g \in Gates : NewSlot(c, g) => NewSlot(c, g)'
  BY DEF Sheds
<1>2. SwiftOf(c)
  BY Parts
<1> QED
  BY <1>1, <1>2 DEF SwiftOf, Gates

LEMMA GoesOn ==
  ASSUME ClientOK, NEW c \in Clients, NEW s \in Steps, Goto(c, s)
  PROVE  pc' \in [Clients -> Steps] /\ pc'[c] = s /\ \A b \in Clients \ {c} : pc'[b] = pc[b]
  BY DEF ClientOK, Goto

LEMMA PassesOn ==
  ASSUME ClientOK, NEW c \in Clients, PassGate(c)
  PROVE  /\ pc' \in [Clients -> Steps] /\ gate' \in [Clients -> Gates]
         /\ \A b \in Clients \ {c} : pc'[b] = pc[b] /\ gate'[b] = gate[b]
         /\ gate'[c] = "account"
         /\ pc'[c] = IF gate[c] = "user" THEN "try" ELSE IF c \in Live THEN "lease" ELSE "run"
  BY DEF ClientOK, PassGate, Goto, Steps, Gates

LEMMA OneFault ==
  ASSUME CounterOK, Fault
  PROVE  faults < MaxFaults /\ faults' \in 0..MaxFaults /\ faults <= faults' /\ faults' = faults + 1
  BY TimesAssumption DEF CounterOK, Fault

\* The counters stay, late calls may be refreshed or end.
LEMMA CounterStays ==
  ASSUME CounterOK, UNCHANGED counter, late' \subseteq Live, faults' = faults \/ Fault
  PROVE  CounterOK'
<1>1. faults' \in 0..MaxFaults /\ faults <= faults'
  BY OneFault DEF CounterOK
<1> QED
  BY <1>1, TimesAssumption DEF CounterOK

LEMMA TryStep ==
  ASSUME SlotsInv, NEW c \in Clients, TryAcquire(c)
  PROVE  SlotsInv'
<1> DEFINE waiting == pc[c] = "wait"
<1>p. SetsOK /\ ShareInv /\ CounterOK /\ ClientOK /\ TypeOK /\ PathOf(c) /\ SwiftOf(c)
  BY Parts DEF SlotsInv
<1>g. PICK g \in Gates : g = gate[c] /\ pc[c] \in {"idle", "try", "wait"}
  BY <1>p DEF TryAcquire, ClientOK
<1>c. CounterOK'
  <2>1. UNCHANGED <<counter, late>> /\ (faults' = faults \/ Fault)
    BY DEF TryAcquire
  <2> QED
    BY <1>p, <2>1, CounterStays DEF CounterOK
<1>1. ASSUME Free(g), TakeSlot(c, g), held' = [held EXCEPT ![c] = @ \cup {g}],
             IF waiting THEN Goto(c, "uncount") /\ UNCHANGED gate ELSE PassGate(c)
      PROVE  SlotsInv'
  <2>1. /\ SetsOK' /\ ShareInv' /\ NewSlot(c, g)'
        /\ \A h \in Gates, b \in Clients : NewSlot(b, h) => NewSlot(b, h)'
    BY <1>1, <1>p, <1>g, TakeShare
  <2>2. held' \in [Clients -> SUBSET Gates]
    BY <1>1, <1>p, <1>g DEF ClientOK
  <2>3. CASE waiting
    <3>1. pc' \in [Clients -> Steps] /\ pc'[c] = "uncount" /\ \A b \in Clients \ {c} : pc'[b] = pc[b]
      BY <1>1, <1>p, <2>3, GoesOn DEF Steps
    <3>2. gate' = gate /\ UNCHANGED <<leased, waited>>
      BY <1>1, <2>3 DEF TryAcquire
    <3>3. ClientOK'
      BY <1>p, <2>2, <3>1, <3>2 DEF ClientOK
    <3>4. PathOf(c)' /\ SwiftOf(c)'
      BY <1>p, <2>3, <3>1, <3>2 DEF PathOf, SwiftOf
    <3> QED
      BY <1>c, <2>1, <3>1, <3>2, <3>3, <3>4, OneMoves
  <2>4. CASE ~waiting
    <3>1. /\ pc' \in [Clients -> Steps] /\ gate' \in [Clients -> Gates]
          /\ \A b \in Clients \ {c} : pc'[b] = pc[b] /\ gate'[b] = gate[b]
          /\ gate'[c] = "account"
          /\ pc'[c] = IF gate[c] = "user" THEN "try" ELSE IF c \in Live THEN "lease" ELSE "run"
      BY <1>1, <1>p, <2>4, PassesOn
    <3>2. UNCHANGED <<leased, waited>>
      BY DEF TryAcquire
    <3>3. ClientOK'
      BY <1>p, <2>2, <3>1, <3>2 DEF ClientOK
    <3>4. PathOf(c)'
      BY <3>1 DEF PathOf
    <3>5. SwiftOf(c)'
      <4>1. CASE gate[c] = "user"
        BY <1>g, <2>1, <3>1, <4>1 DEF SwiftOf
      <4>2. CASE gate[c] # "user"
        <5>1. pc[c] = "try" /\ gate[c] = "account"
          BY <1>p, <1>g, <2>4, <4>2 DEF PathOf, ClientOK, Gates
        <5>2. c \in Live => NewSlot(c, "user")
          BY <1>p, <5>1 DEF SwiftOf
        <5> QED
          BY <1>g, <2>1, <3>1, <5>1, <5>2 DEF SwiftOf, Gates
      <4> QED
        BY <4>1, <4>2
    <3> QED
      BY <1>c, <2>1, <3>1, <3>3, <3>4, <3>5, OneMoves
  <2> QED
    BY <2>3, <2>4
<1>2. ASSUME NEW s \in Steps, Goto(c, s), UNCHANGED <<gate, held>>, Sheds({}),
             s = (IF waiting THEN "wait" ELSE IF c \in Live THEN "leave" ELSE "count")
               \/ s = (IF waiting THEN "uncount" ELSE "leave")
      PROVE  SlotsInv'
  <2>1. pc' \in [Clients -> Steps] /\ pc'[c] = s /\ \A b \in Clients \ {c} : pc'[b] = pc[b]
    BY <1>2, <1>p, GoesOn
  <2>2. ClientOK'
    BY <1>p, <1>2, <2>1 DEF ClientOK, TryAcquire
  <2>3. PathOf(c)'
    BY <1>p, <1>2, <2>1 DEF PathOf
  <2>4. SwiftOf(c)'
    BY <1>2, <2>1 DEF SwiftOf
  <2> QED
    BY <1>c, <1>2, <2>1, <2>2, <2>3, <2>4, OneSheds
<1>3. CASE /\ ~Free(g) /\ Purge(g)
           /\ Goto(c, IF waiting THEN "wait" ELSE IF c \in Live THEN "leave" ELSE "count")
           /\ UNCHANGED <<gate, held, faults>>
  <2>1. Sheds({})
    BY <1>3, <1>p, <1>g, PurgeSheds DEF Purge
  <2> QED
    BY <1>2, <1>3, <2>1 DEF Steps
<1>4. CASE /\ Free(g) /\ TakeSlot(faults + 1, g) /\ Fault
           /\ Goto(c, IF waiting THEN "uncount" ELSE "leave") /\ UNCHANGED <<gate, held>>
  <2>1. Sheds({})
    BY <1>4, <1>p, <1>g, GhostSlotSheds DEF Fault
  <2> QED
    BY <1>2, <1>4, <2>1 DEF Steps
<1>5. CASE /\ Fault /\ UNCHANGED <<sets, gate, held>>
           /\ Goto(c, IF waiting THEN "uncount" ELSE "leave")
  <2>1. Sheds({})
    BY <1>5, <1>p, Stays
  <2> QED
    BY <1>2, <1>5, <2>1 DEF Steps
<1> QED
  BY <1>g, <1>1, <1>3, <1>4, <1>5 DEF TryAcquire

\* A client goes on to a step that asks nothing of its slots, at the same gate.
LEMMA SlowStep ==
  ASSUME SlotsInv, NEW c \in Clients, NEW s \in Slow, Goto(c, s), UNCHANGED <<gate, held>>,
         leased' \in [Clients -> BOOLEAN], waited' \in [Clients -> 0..MaxWait],
         Sheds({}) \/ Sheds({c}), CounterOK',
         s \in {"create", "hand", "session"} => c \in Live,
         s \in {"count", "wait", "uncount"} => c \notin Live,
         s \notin {"idle", "rest"}
  PROVE  SlotsInv'
<1>p. ClientOK
  BY Parts
<1>1. pc' \in [Clients -> Steps] /\ pc'[c] = s /\ \A b \in Clients \ {c} : pc'[b] = pc[b]
  BY <1>p, GoesOn DEF Slow
<1>2. ClientOK' /\ gate' = gate
  BY <1>p, <1>1 DEF ClientOK
<1>3. PathOf(c)' /\ SwiftOf(c)'
  BY <1>1 DEF PathOf, SwiftOf, Slow
<1> QED
  BY <1>1, <1>2, <1>3, OneSheds

LEMMA CountStep ==
  ASSUME CounterOK, NEW g \in Gates, Increment(g)
  PROVE  waits' \in [Gates -> 0..QueueLimit] /\ waitAge' \in [Gates -> 0..QueueTTL]
  BY LimitsAssumption, TimesAssumption
  DEF CounterOK, Increment, CanCount, Counted, Timed

LEMMA UncountStep ==
  ASSUME CounterOK, NEW g \in Gates, Decrement(g),
         open' = [open EXCEPT ![g] = IF waits[g] = 0 /\ @ > 0 THEN @ - 1 ELSE @]
  PROVE  waits' \in [Gates -> 0..QueueLimit] /\ open' \in [Gates -> Nat]
<1>1. waits' \in [Gates -> 0..QueueLimit]
  BY LimitsAssumption DEF CounterOK, Decrement
<1>2. open' \in [Gates -> Nat]
  <2>1. (IF waits[g] = 0 /\ open[g] > 0 THEN open[g] - 1 ELSE open[g]) \in Nat
    BY DEF CounterOK
  <2> QED
    BY <2>1 DEF CounterOK
<1> QED
  BY <1>1, <1>2

LEMMA JoinStep ==
  ASSUME SlotsInv, NEW c \in Clients, JoinQueue(c)
  PROVE  SlotsInv'
<1>p. SetsOK /\ CounterOK /\ ClientOK /\ PathOf(c)
  BY Parts
<1>g. PICK g \in Gates : g = gate[c]
  BY <1>p DEF ClientOK
<1>1. Sheds({}) /\ UNCHANGED <<gate, held, leased, waited, late>> /\ pc[c] = "count"
  BY <1>p, Stays DEF JoinQueue
<1>2. leased' \in [Clients -> BOOLEAN] /\ waited' \in [Clients -> 0..MaxWait] /\ c \notin Live
  BY <1>1, <1>p DEF ClientOK, PathOf
<1>3. CounterOK'
  <2>1. CASE Increment(g) /\ UNCHANGED <<open, faults>>
    BY <1>1, <1>p, <2>1, CountStep DEF CounterOK
  <2>2. CASE Increment(g) /\ Fault /\ UNCHANGED open
    <3>1. faults' \in 0..MaxFaults /\ faults <= faults'
      BY <1>p, <2>2, OneFault
    <3> QED
      BY <1>1, <1>p, <2>2, <3>1, CountStep, TimesAssumption DEF CounterOK
  <2>3. CASE open' = [open EXCEPT ![g] = @ + 1] /\ Fault /\ UNCHANGED <<waits, waitAge>>
    <3>1. faults' \in 0..MaxFaults
      BY <1>p, <2>3, OneFault
    <3>2. open[g] + 1 \in Nat
      BY <1>p DEF CounterOK
    <3>3. open' \in [Gates -> Nat]
      BY <1>p, <2>3, <3>2 DEF CounterOK
    <3> QED
      BY <1>1, <1>p, <2>3, <3>1, <3>3 DEF CounterOK
  <2> QED
    BY <1>g, <2>1, <2>2, <2>3 DEF JoinQueue
<1>4. Goto(c, "wait") \/ Goto(c, "leave")
  BY DEF JoinQueue
<1> QED
  BY <1>1, <1>2, <1>3, <1>4, SlowStep DEF Slow, Steps

LEMMA UncountedStep ==
  ASSUME SlotsInv, NEW c \in Clients, LeaveQueue(c)
  PROVE  SlotsInv'
<1>p. SetsOK /\ CounterOK /\ ClientOK /\ PathOf(c)
  BY Parts
<1>g. PICK g \in Gates : g = gate[c]
  BY <1>p DEF ClientOK
<1>1. Sheds({}) /\ UNCHANGED <<waitAge, held, leased, late>> /\ c \notin Live
  BY <1>p, Stays DEF LeaveQueue, PathOf
<1>2. CounterOK'
  <2>1. CASE /\ Decrement(g) /\ UNCHANGED faults
             /\ open' = [open EXCEPT ![g] = IF waits[g] = 0 /\ @ > 0 THEN @ - 1 ELSE @]
    BY <1>1, <1>p, <2>1, UncountStep DEF CounterOK
  <2>2. CASE UNCHANGED <<waits, open>> /\ Fault
    BY <1>1, <1>p, <2>2, CounterStays DEF CounterOK
  <2> QED
    BY <1>g, <2>1, <2>2 DEF LeaveQueue
<1>3. waited' \in [Clients -> 0..MaxWait] /\ leased' \in [Clients -> BOOLEAN]
  BY <1>1, <1>p, TimesAssumption DEF LeaveQueue, ClientOK
<1>4. CASE PassGate(c)
  <2>1. /\ pc' \in [Clients -> Steps] /\ gate' \in [Clients -> Gates]
        /\ \A b \in Clients \ {c} : pc'[b] = pc[b] /\ gate'[b] = gate[b]
        /\ gate'[c] = "account" /\ pc'[c] \in {"try", "run"}
    BY <1>1, <1>4, <1>p, PassesOn
  <2>2. ClientOK'
    BY <1>1, <1>3, <1>p, <2>1 DEF ClientOK
  <2>3. PathOf(c)' /\ SwiftOf(c)'
    BY <1>1, <2>1 DEF PathOf, SwiftOf
  <2> QED
    BY <1>1, <1>2, <2>1, <2>2, <2>3, OneSheds
<1>5. CASE Goto(c, "leave") /\ UNCHANGED gate
  BY <1>1, <1>2, <1>3, <1>5, SlowStep DEF Slow, Steps
<1> QED
  BY <1>4, <1>5 DEF LeaveQueue

LEMMA ReleaseStep ==
  ASSUME SlotsInv, NEW c \in Clients, NEW g \in Gates, Release(c, g)
  PROVE  SlotsInv'
<1>p. SetsOK /\ CounterOK /\ ClientOK /\ TypeOK /\ PathOf(c)
  BY Parts DEF SlotsInv
<1>1. Sheds({c}) /\ (faults' = faults \/ Fault)
  <2>1. CASE slots' = [slots EXCEPT ![g] = Without(Slots(g), c)] /\ UNCHANGED faults
    BY <1>p, <2>1, WithoutSheds DEF Release
  <2>2. CASE slots' = [slots EXCEPT ![g] = Disown(@, c)] /\ Fault
    BY <1>p, <2>2, DisownSheds DEF Release, Fault
  <2> QED
    BY <2>1, <2>2 DEF Release
<1>2. CounterOK'
  BY <1>1, <1>p, CounterStays DEF Release, CounterOK
<1>3. ClientOK' /\ UNCHANGED <<pc, gate>> /\ pc[c] \in {"hand", "leave"}
  BY <1>p DEF Release, ClientOK
<1>4. PathOf(c)' /\ SwiftOf(c)'
  BY <1>p, <1>3 DEF PathOf, SwiftOf
<1> QED
  BY <1>1, <1>2, <1>3, <1>4, OneSheds

\* A new lease for a client that has a slot or a lease at both gates.
LEMMA LeaseShare ==
  ASSUME SetsOK, ShareInv, NEW c \in Clients, TakeLease(c), \A g \in Gates : c \in Valid(g)
  PROVE  SetsOK' /\ ShareInv' /\ \A g \in Gates, b \in Clients : NewSlot(b, g) => NewSlot(b, g)'
<1>1. DOMAIN leases' = DOMAIN leases \cup {c} /\ Ages(leases', LeaseTTL) /\ slots' = slots
  BY WithAges, Positive DEF TakeLease, SetsOK, Members
<1>2. SetsOK'
  BY <1>1 DEF SetsOK
<1>3. ASSUME NEW g \in Gates PROVE Valid(g)' \subseteq Valid(g)
  <2>1. Slots(g)' = Slots(g)
    BY <1>1 DEF Slots
  <2> QED
    BY <1>1, <2>1 DEF Valid
<1> QED
  BY <1>1, <1>2, <1>3, ShareShrinks DEF ShareInv, NewSlot

LEMMA LeaseStep ==
  ASSUME SlotsInv, NEW c \in Clients, AcquireLease(c)
  PROVE  SlotsInv'
<1>p. SetsOK /\ ShareInv /\ CounterOK /\ ClientOK /\ TypeOK /\ PathOf(c) /\ SwiftOf(c)
  BY Parts DEF SlotsInv
<1>1. /\ pc[c] = "lease" /\ c \in Live /\ UNCHANGED <<counter, gate, held, waited, late>>
      /\ faults' = faults \/ Fault
  BY <1>p DEF AcquireLease, PathOf
<1>2. CounterOK' /\ waited' \in [Clients -> 0..MaxWait]
  BY <1>1, <1>p, CounterStays DEF CounterOK, ClientOK
<1>3. ASSUME TakeLease(c), leased' = [leased EXCEPT ![c] = TRUE], Goto(c, "create")
      PROVE  SlotsInv'
  <2>1. \A g \in Gates : c \in Valid(g)
    <3>1. NewSlot(c, "user") /\ NewSlot(c, "account")
      BY <1>1, <1>p DEF SwiftOf
    <3> QED
      BY <3>1, <1>p, NewIsFresh DEF Valid, Gates
  <2>2. SetsOK' /\ ShareInv' /\ \A g \in Gates, b \in Clients : NewSlot(b, g) => NewSlot(b, g)'
    BY <1>3, <1>p, <2>1, LeaseShare
  <2>3. pc' \in [Clients -> Steps] /\ pc'[c] = "create" /\ \A b \in Clients \ {c} : pc'[b] = pc[b]
    BY <1>3, <1>p, GoesOn DEF Steps
  <2>4. ClientOK' /\ gate' = gate
    BY <1>1, <1>2, <1>3, <1>p, <2>3 DEF ClientOK
  <2>5. PathOf(c)' /\ SwiftOf(c)'
    BY <1>1, <2>3 DEF PathOf, SwiftOf
  <2> QED
    BY <1>2, <2>2, <2>3, <2>4, <2>5, OneMoves
<1>4. ASSUME Sheds({}), UNCHANGED leased, Goto(c, "leave")
      PROVE  SlotsInv'
  BY <1>1, <1>2, <1>4, <1>p, SlowStep DEF Slow, Steps, ClientOK
<1>5. CASE ~LeaseAllowed /\ UNCHANGED sets /\ Goto(c, "leave") /\ UNCHANGED <<leased, faults>>
  BY <1>4, <1>5, <1>p, Stays
<1>6. CASE LeaseAllowed /\ TakeLease(faults + 1) /\ Fault /\ Goto(c, "leave") /\ UNCHANGED leased
  <2>1. faults + 1 \in Members /\ faults + 1 \notin Clients
    BY <1>6, <1>p, GhostIsNobody DEF Fault
  <2>2. /\ DOMAIN leases' = DOMAIN leases \cup {faults + 1} /\ Ages(leases', LeaseTTL)
        /\ UNCHANGED slots
    BY <1>6, <1>p, <2>1, WithAges, Positive DEF TakeLease, SetsOK
  <2>3. Sheds({})
    BY <1>p, <2>1, <2>2, LeasesShed
  <2> QED
    BY <1>4, <1>6, <2>3
<1>7. CASE Fault /\ Goto(c, "leave") /\ UNCHANGED <<sets, leased>>
  BY <1>4, <1>7, <1>p, Stays
<1> QED
  BY <1>3, <1>5, <1>6, <1>7 DEF AcquireLease

\* Steps of one client at its gate, its sets untouched.
LEMMA PlainStep ==
  ASSUME SlotsInv, NEW c \in Clients, GiveUp(c) \/ Finish(c) \/ Create(c) \/ Hand(c) \/ EndSession(c)
  PROVE  SlotsInv'
<1>p. SetsOK /\ CounterOK /\ ClientOK /\ PathOf(c)
  BY Parts
<1>1. /\ UNCHANGED <<sets, counter, gate, held, leased, waited, faults>>
      /\ late' = late \/ late' = late \ {c}
      /\ pc[c] \in {"wait", "run", "create", "hand", "session"}
  BY DEF GiveUp, Finish, Create, Hand, EndSession
<1>2. Sheds({}) /\ CounterOK'
  BY <1>1, <1>p, Stays, CounterStays DEF CounterOK
<1>3. PICK s \in Slow : /\ Goto(c, s)
                        /\ s \in {"uncount"} => pc[c] = "wait"
                        /\ s \in {"hand", "session"} => pc[c] \in {"create", "hand"}
                        /\ s \in {"uncount", "leave", "hand", "session"}
  BY DEF GiveUp, Finish, Create, Hand, EndSession, Slow, Steps
<1>4. leased' \in [Clients -> BOOLEAN] /\ waited' \in [Clients -> 0..MaxWait]
  BY <1>1, <1>p DEF ClientOK
<1>5. /\ s \in {"create", "hand", "session"} => c \in Live
      /\ s \in {"count", "wait", "uncount"} => c \notin Live
      /\ s \notin {"idle", "rest"}
  BY <1>3, <1>p DEF PathOf
<1> QED
  BY <1>1, <1>2, <1>3, <1>4, <1>5, SlowStep

LEMMA DepartStep ==
  ASSUME SlotsInv, NEW c \in Clients, Depart(c)
  PROVE  SlotsInv'
<1>p. SetsOK /\ CounterOK /\ ClientOK
  BY Parts
<1>1. Sheds({}) /\ CounterOK'
  BY <1>p, Stays, CounterStays DEF Depart, CounterOK
<1>2. pc' \in [Clients -> Steps] /\ pc'[c] = "rest" /\ \A b \in Clients \ {c} : pc'[b] = pc[b]
  BY <1>p, GoesOn DEF Depart, Steps
<1>3. /\ gate' \in [Clients -> Gates] /\ gate'[c] = "user"
      /\ \A b \in Clients \ {c} : gate'[b] = gate[b]
  BY <1>p DEF Depart, ClientOK, Gates
<1>4. ClientOK'
  BY <1>p, <1>2, <1>3 DEF ClientOK, Depart
<1>5. PathOf(c)' /\ SwiftOf(c)'
  BY <1>2, <1>3 DEF PathOf, SwiftOf
<1> QED
  BY <1>1, <1>2, <1>3, <1>4, <1>5, OneSheds

LEMMA RefreshStep ==
  ASSUME SlotsInv, NEW c \in Clients, RefreshLease(c)
  PROVE  SlotsInv'
<1>p. SetsOK /\ CounterOK /\ ClientOK /\ PathOf(c)
  BY Parts
<1>1. /\ pc[c] = "session" /\ UNCHANGED <<slots, counter, gate, held, leased, waited>>
      /\ late' = late \ {c} /\ (faults' = faults \/ Fault)
  BY DEF RefreshLease
<1>2. CounterOK'
  BY <1>1, <1>p, CounterStays DEF CounterOK
<1>3. Sheds({})
  <2>1. CASE c \in DOMAIN leases /\ leases' = With(leases, c)
    <3>1. DOMAIN leases' = DOMAIN leases \cup {c} /\ Ages(leases', LeaseTTL)
      BY <1>p, <2>1, WithAges, Positive DEF SetsOK, Members
    <3> QED
      BY <1>p, <1>1, <2>1, <3>1, LeasesShed
  <2>2. CASE UNCHANGED leases
    BY <1>p, <1>1, <2>2, Stays
  <2> QED
    BY <2>1, <2>2 DEF RefreshLease
<1>4. CASE UNCHANGED pc
  <2>1. ClientOK'
    BY <1>p, <1>1, <1>4 DEF ClientOK
  <2>2. PathOf(c)' /\ SwiftOf(c)'
    BY <1>p, <1>1, <1>4 DEF PathOf, SwiftOf
  <2> QED
    BY <1>1, <1>2, <1>3, <1>4, <2>1, <2>2, OneSheds
<1>5. CASE Goto(c, "leave")
  BY <1>p, <1>1, <1>2, <1>3, <1>5, SlowStep DEF Slow, Steps, ClientOK
<1> QED
  BY <1>4, <1>5 DEF RefreshLease

LEMMA ReleaseLeaseStep ==
  ASSUME SlotsInv, NEW c \in Clients, ReleaseLease(c)
  PROVE  SlotsInv'
<1>p. SetsOK /\ CounterOK /\ ClientOK /\ TypeOK /\ PathOf(c)
  BY Parts DEF SlotsInv
<1>1. /\ pc[c] = "leave" /\ UNCHANGED <<slots, counter, pc, gate, held, waited, late>>
      /\ leased' = [leased EXCEPT ![c] = FALSE]
      /\ faults' = faults \/ Fault
  BY DEF ReleaseLease
<1>2. CounterOK' /\ ClientOK'
  BY <1>1, <1>p, CounterStays DEF CounterOK, ClientOK
<1>3. Sheds({})
  <2>1. CASE leases' = Without(leases, c)
    <3>1. DOMAIN leases' = DOMAIN leases \ {c} /\ Ages(leases', LeaseTTL)
      BY <1>p, <2>1, WithoutAges, Positive DEF SetsOK
    <3> QED
      BY <1>p, <1>1, <3>1, LeasesShed
  <2>2. CASE leases' = Disown(leases, c) /\ Fault
    <3>1. Clients \cap DOMAIN leases' \subseteq DOMAIN leases /\ Ages(leases', LeaseTTL)
      BY <1>p, <2>2, DisownAges, Positive DEF SetsOK, Fault
    <3> QED
      BY <1>p, <1>1, <3>1, LeasesShed
  <2> QED
    BY <2>1, <2>2 DEF ReleaseLease
<1>4. PathOf(c)' /\ SwiftOf(c)'
  BY <1>p, <1>1 DEF PathOf, SwiftOf
<1> QED
  BY <1>1, <1>2, <1>3, <1>4, OneSheds

LEMMA DieStep ==
  ASSUME SlotsInv, NEW c \in Clients, Die(c)
  PROVE  SlotsInv'
<1>p. SetsOK /\ CounterOK /\ ClientOK /\ TypeOK
  BY Parts DEF SlotsInv
<1>1. Sheds({c}) /\ CounterOK'
  BY <1>p, DieSheds, CounterStays DEF Die, Fault, CounterOK
<1>2. pc' \in [Clients -> Steps] /\ pc'[c] = "rest" /\ \A b \in Clients \ {c} : pc'[b] = pc[b]
  BY <1>p, GoesOn DEF Die, Steps
<1>3. /\ gate' \in [Clients -> Gates] /\ gate'[c] = "user"
      /\ \A b \in Clients \ {c} : gate'[b] = gate[b]
  BY <1>p DEF Die, ClientOK, Gates
<1>4. ClientOK'
  BY <1>p, <1>2, <1>3, TimesAssumption DEF ClientOK, Die
<1>5. PathOf(c)' /\ SwiftOf(c)'
  BY <1>2, <1>3 DEF PathOf, SwiftOf
<1> QED
  BY <1>1, <1>2, <1>3, <1>4, <1>5, OneSheds

\* Nobody moves.
LEMMA NobodyMoves ==
  ASSUME SlotsInv, Sheds({}), CounterOK', UNCHANGED client
  PROVE  SlotsInv'
<1>1. SetsOK' /\ ShareInv' /\ ClientOK'
  BY Parts, ShedsShare DEF Sheds, ClientOK
<1>2. ASSUME NEW c \in Clients PROVE PathOf(c)' /\ SwiftOf(c)'
  <2>1. PathOf(c)
    BY Parts
  <2>2. PathOf(c)'
    BY <2>1 DEF PathOf
  <2>3. pc'[c] = pc[c]
    OBVIOUS
  <2> QED
    BY <2>2, <2>3, StayIsSwift
<1> QED
  BY <1>1, <1>2, PartsNext

LEMMA LateStep ==
  ASSUME SlotsInv, NEW c \in Clients, BeLate(c)
  PROVE  SlotsInv'
<1>p. SetsOK /\ CounterOK /\ PathOf(c)
  BY Parts
<1>1. late' \subseteq Live
  BY <1>p DEF BeLate, PathOf, CounterOK
<1> QED
  BY <1>1, <1>p, Stays, CounterStays, NobodyMoves DEF BeLate

LEMMA CleanupStep ==
  ASSUME SlotsInv, NEW g \in Gates, Cleanup(g)
  PROVE  SlotsInv'
<1>p. SetsOK /\ CounterOK
  BY Parts
<1> QED
  BY <1>p, PurgeSheds, CounterStays, NobodyMoves DEF Cleanup, CounterOK

\* Those whose time is over when the counter expires.
Overdue(g) == {c \in Waiting(g) : waited[c] + 1 >= MaxWait}
LEMMA UncountedIsLess ==
  ASSUME NEW g \in Gates
  PROVE  Uncounted(g) = IF open[g] + Cardinality(Overdue(g)) < Cardinality(Waiting(g))
                        THEN open[g] + Cardinality(Overdue(g)) ELSE Cardinality(Waiting(g))
  BY DEF Uncounted, Overdue

LEMMA UncountedIsNat ==
  ASSUME NEW g \in Gates, open[g] \in Nat
  PROVE  Uncounted(g) \in Nat
<1>1. Waiting(g) \subseteq Clients /\ Overdue(g) \subseteq Clients
  BY DEF Waiting, Overdue
<1>2. Cardinality(Waiting(g)) \in Nat /\ Cardinality(Overdue(g)) \in Nat
  BY <1>1, FiniteShares
<1> QED
  BY <1>2, UncountedIsLess

LEMMA TickStep ==
  ASSUME SlotsInv, Tick
  PROVE  SlotsInv'
<1>p. SetsOK /\ ShareInv /\ CounterOK /\ ClientOK
  BY Parts
<1>1. SetsOK' /\ ShareInv'
  BY <1>p, TickSheds, ShedsShare DEF Tick, Sheds
<1>2. CounterOK'
  <2> DEFINE expires(g) == waitAge[g] + 1 >= QueueTTL
  <2>1. /\ waits'   = [g \in Gates |-> IF expires(g) THEN 0 ELSE waits[g]]
        /\ waitAge' = [g \in Gates |-> IF expires(g) \/ waits[g] = 0 THEN 0 ELSE waitAge[g] + 1]
        /\ open'    = [g \in Gates |-> IF expires(g) THEN Uncounted(g) ELSE open[g]]
        /\ UNCHANGED <<late, faults>>
    BY DEF Tick
  <2>2. ASSUME NEW g \in Gates
        PROVE  /\ (IF expires(g) THEN 0 ELSE waits[g]) \in 0..QueueLimit
               /\ (IF expires(g) \/ waits[g] = 0 THEN 0 ELSE waitAge[g] + 1) \in 0..QueueTTL
    <3>1. waits[g] \in 0..QueueLimit /\ waitAge[g] \in 0..QueueTTL
      BY <1>p DEF CounterOK
    <3> QED
      BY <3>1, LimitsAssumption, TimesAssumption
  <2> HIDE DEF expires
  <2>3. waits' \in [Gates -> 0..QueueLimit] /\ waitAge' \in [Gates -> 0..QueueTTL]
    BY <2>1, <2>2
  <2>4. \A g \in Gates : open[g] \in Nat /\ Uncounted(g) \in Nat
    BY <1>p, UncountedIsNat DEF CounterOK
  <2>5. open' \in [Gates -> Nat]
    BY <2>1, <2>4
  <2> QED
    BY <1>p, <2>1, <2>3, <2>5 DEF CounterOK
<1>3. ASSUME NEW c \in Clients
      PROVE  /\ pc[c] \in {"idle", "rest", "run", "create", "wait", "session"}
             /\ pc[c] = "wait" => waited[c] < MaxWait
  BY DEF Tick, InTime
<1>4. /\ waited' = [c \in Clients |-> IF pc[c] = "wait" THEN waited[c] + 1 ELSE waited[c]]
      /\ pc' = [c \in Clients |-> IF pc[c] = "rest" THEN "idle" ELSE pc[c]]
      /\ UNCHANGED <<gate, held, leased>>
  BY DEF Tick
<1>5. waited' \in [Clients -> 0..MaxWait]
  BY <1>p, <1>3, <1>4, TimesAssumption DEF ClientOK
<1>6. ClientOK'
  BY <1>p, <1>4, <1>5 DEF ClientOK, Steps
<1>7. ASSUME NEW c \in Clients PROVE PathOf(c)' /\ SwiftOf(c)'
  <2>1. PathOf(c)
    BY Parts
  <2> QED
    BY <1>3, <1>4, <2>1 DEF PathOf, SwiftOf
<1> QED
  BY <1>1, <1>2, <1>6, <1>7, PartsNext

LEMMA InitSlots == Init => SlotsInv
<1> SUFFICES ASSUME Init PROVE SlotsInv
  OBVIOUS
<1>1. SetsOK /\ \A g \in Gates : DOMAIN slots[g] = {}
  BY DEF Init, SetsOK, Ages
<1>2. CounterOK /\ ClientOK
  BY LimitsAssumption, TimesAssumption DEF Init, CounterOK, ClientOK, Gates, Steps
<1>3. ShareInv
  <2>1. \A g \in Gates : Valid(g) = {}
    BY <1>1, SlotsOf DEF Init, Valid
  <2> QED
    BY <2>1, FS_EmptySet, Limits DEF ShareInv
<1>4. \A c \in Clients : PathOf(c) /\ SwiftOf(c)
  BY DEF Init, PathOf, SwiftOf
<1> QED
  BY <1>1, <1>2, <1>3, <1>4, Parts

LEMMA NextSlots == SlotsInv /\ [Next]_vars => SlotsInv'
<1> SUFFICES ASSUME SlotsInv, [Next]_vars PROVE SlotsInv'
  OBVIOUS
<1>1. ASSUME NEW c \in Clients,
             TryAcquire(c) \/ Progress(c) \/ Finish(c) \/ Create(c) \/ EndSession(c) \/ Die(c) \/ BeLate(c)
      PROVE  SlotsInv'
  BY <1>1, TryStep, JoinStep, UncountedStep, ReleaseStep, DepartStep, LeaseStep, PlainStep,
     RefreshStep, ReleaseLeaseStep, DieStep, LateStep DEF Progress
<1>2. ASSUME NEW g \in Gates, Cleanup(g) PROVE SlotsInv'
  BY <1>2, CleanupStep
<1>3. CASE UNCHANGED vars
  <2>1. Sheds({}) /\ CounterOK'
    BY <1>3, Parts, Stays, CounterStays DEF vars, CounterOK
  <2> QED
    BY <1>3, <2>1, NobodyMoves DEF vars
<1> QED
  BY <1>1, <1>2, <1>3, TickStep DEF Next

-----------------------------------------------------------------------------
(* Theorems. *)

\* The inductive invariant: what a gate has given out is within its limit, and
\* a live call comes to its lease with slots that are still new
\* (acquireScript, acquireLiveLeaseScript).
THEOREM SlotsInvariance == Spec => []SlotsInv
  BY InitSlots, NextSlots, PTL DEF Spec

\* All state stays within its types, over any schedule of requests, deaths,
\* failed calls and ticks (concurrency_cache.go).
THEOREM TypeCorrect == Spec => []TypeOK
<1>1. SlotsInv => TypeOK
  BY DEF SlotsInv
<1> QED
  BY <1>1, SlotsInvariance, PTL

\* No gate is ever used by more requests and live calls than its limit, for
\* any number of clients and any faults (acquireScript, acquireLiveLeaseScript).
THEOREM LimitIsKept == Spec => []WithinLimit
<1>1. SlotsInv => WithinLimit
  <2> SUFFICES ASSUME SlotsInv, NEW g \in Gates
               PROVE  Cardinality({c \in Clients : Uses(c, g)}) <= Limit[g]
    BY DEF WithinLimit
  <2> DEFINE users == {c \in Clients : Uses(c, g)}
  <2>1. users \subseteq Valid(g) /\ Valid(g) \subseteq Clients
    BY DEF Uses, Valid
  <2>2. Cardinality(users) <= Cardinality(Valid(g)) /\ Cardinality(users) \in Nat
    BY <2>1, FiniteShares, FS_Subset
  <2>3. Cardinality(Valid(g)) <= Limit[g] /\ Cardinality(Valid(g)) \in Nat
    BY <2>1, FiniteShares DEF SlotsInv, ShareInv
  <2> QED
    BY <2>2, <2>3, Limits
<1> QED
  BY <1>1, SlotsInvariance, PTL

-----------------------------------------------------------------------------
(* The queues. *)

\* The clients in U may be uncounted; the others are counted.
Fits(g, U) ==
  /\ U \subseteq Waiting(g)
  /\ Cardinality(U) <= open[g] /\ Cardinality(Waiting(g) \ U) <= waits[g]
  /\ \A c \in Waiting(g) \ U : waitAge[g] <= waited[c]

LEMMA CountFits == CountInv <=> \A g \in Gates : \E U : Fits(g, U)
  BY DEF CountInv, Fits

LEMMA CountFitsNext == (\A g \in Gates : \E U : Fits(g, U)') => CountInv'
  BY DEF CountInv, Fits

LEMMA WaitingClients == ASSUME NEW g PROVE Waiting(g) \subseteq Clients
  BY DEF Waiting

LEMMA Less ==
  ASSUME NEW S, S \subseteq Clients, NEW T, T \subseteq S
  PROVE  Cardinality(T) \in Nat /\ Cardinality(S) \in Nat /\ Cardinality(T) <= Cardinality(S)
  BY FiniteShares, FS_Subset

\* Some of those who wait leave; the counter stays.
LEMMA SomeLeave ==
  ASSUME CounterOK, NEW g \in Gates, NEW U, Fits(g, U),
         NEW W, W = Waiting(g)', W \subseteq Waiting(g),
         open'[g] = open[g], waits'[g] = waits[g], waitAge'[g] = waitAge[g],
         \A c \in W : waited'[c] = waited[c]
  PROVE  \E V : Fits(g, V)'
<1> DEFINE V == U \cap W
<1>1. U \subseteq Clients /\ W \ V \subseteq Waiting(g) \ U /\ Waiting(g) \ U \subseteq Clients
  BY WaitingClients DEF Fits
<1>2. /\ Cardinality(V) <= Cardinality(U) /\ Cardinality(V) \in Nat /\ Cardinality(U) \in Nat
      /\ Cardinality(W \ V) <= Cardinality(Waiting(g) \ U) /\ Cardinality(W \ V) \in Nat
      /\ Cardinality(Waiting(g) \ U) \in Nat
  BY <1>1, Less
<1>3. open[g] \in Nat /\ waits[g] \in Nat
  BY TimesAssumption, LimitsAssumption DEF CounterOK
<1>4. Cardinality(V) <= open'[g] /\ Cardinality(W \ V) <= waits'[g]
  BY <1>2, <1>3 DEF Fits
<1>5. \A c \in W \ V : waitAge'[g] <= waited'[c]
  BY <1>1 DEF Fits
<1> QED
  BY <1>4, <1>5 DEF Fits

LEMMA NoOneLeaves ==
  ASSUME CounterOK, CountInv,
         \A c \in Clients :
           /\ pc'[c] \in {"wait", "uncount"} =>
                pc[c] \in {"wait", "uncount"} /\ gate'[c] = gate[c] /\ waited'[c] = waited[c],
         UNCHANGED counter
  PROVE  CountInv'
<1>1. ASSUME NEW g \in Gates PROVE \E V : Fits(g, V)'
  <2>1. PICK U : Fits(g, U)
    BY CountFits
  <2>2. PICK W : W = Waiting(g)'
    OBVIOUS
  <2>3. W \subseteq Waiting(g) /\ \A c \in W : waited'[c] = waited[c]
    BY <2>2 DEF Waiting
  <2> QED
    BY <2>1, <2>2, <2>3, SomeLeave
<1> QED
  BY <1>1, CountFitsNext

\* What happens at one gate leaves the queue of the other.
LEMMA OtherQueue ==
  ASSUME CounterOK, CountInv, NEW c \in Clients, NEW g \in Gates,
         gate[c] = g, pc'[c] \in {"wait", "uncount"} => gate'[c] = g,
         \A b \in Clients \ {c} : pc'[b] = pc[b] /\ gate'[b] = gate[b] /\ waited'[b] = waited[b],
         \A h \in Gates \ {g} : waits'[h] = waits[h] /\ waitAge'[h] = waitAge[h] /\ open'[h] = open[h],
         \E V : Fits(g, V)'
  PROVE  CountInv'
<1>1. ASSUME NEW h \in Gates, h # g PROVE \E V : Fits(h, V)'
  <2>1. PICK U : Fits(h, U)
    BY CountFits
  <2>2. PICK W : W = Waiting(h)'
    OBVIOUS
  <2>3. W \subseteq Waiting(h) /\ \A b \in W : waited'[b] = waited[b]
    BY <1>1, <2>2 DEF Waiting
  <2> QED
    BY <1>1, <2>1, <2>2, <2>3, SomeLeave
<1> QED
  BY <1>1, CountFitsNext

LEMMA AddOne ==
  ASSUME NEW S, S \subseteq Clients, NEW c \in Clients
  PROVE  Cardinality(S \cup {c}) \in Nat /\ Cardinality(S \cup {c}) <= Cardinality(S) + 1
  BY FiniteShares, OneMore

LEMMA TakeOne ==
  ASSUME NEW S, S \subseteq Clients, NEW c \in S
  PROVE  Cardinality(S \ {c}) = Cardinality(S) - 1 /\ Cardinality(S) >= 1
<1>1. Cardinality(S \ {c}) = Cardinality(S) - 1 /\ Cardinality(S \ {c}) \in Nat /\ Cardinality(S) \in Nat
  BY FiniteShares, FS_RemoveElement
<1> QED
  BY <1>1

\* Whoever joins is counted, or is one more who may not be.
LEMMA JoinCount ==
  ASSUME SlotsInv, CountInv, NEW c \in Clients, JoinQueue(c)
  PROVE  CountInv'
<1>p. CounterOK /\ ClientOK
  BY Parts
<1>g. PICK g \in Gates : g = gate[c]
  BY <1>p DEF ClientOK
<1>u. PICK U : Fits(g, U)
  BY CountFits
<1>0. /\ pc[c] = "count" /\ UNCHANGED <<gate, waited>>
      /\ waits[g] \in Nat /\ open[g] \in Nat /\ waitAge[g] \in Nat /\ waited[c] \in Nat
      /\ \A b \in Clients : waited[b] \in Nat
  BY <1>p, LimitsAssumption, TimesAssumption DEF JoinQueue, CounterOK, ClientOK
<1>a. U \subseteq Clients /\ Waiting(g) \ U \subseteq Clients /\ c \notin Waiting(g) /\ c \notin U
  BY <1>0, <1>u, WaitingClients DEF Fits, Waiting
<1>1. CASE Increment(g) /\ CanCount(g) /\ Goto(c, "wait") /\ UNCHANGED open
  <2>1. pc'[c] = "wait" /\ \A b \in Clients \ {c} : pc'[b] = pc[b]
    BY <1>1, <1>p, GoesOn DEF Steps
  <2>2. /\ waits'[g] = waits[g] + 1 /\ waitAge'[g] = 0
        /\ \A h \in Gates \ {g} : waits'[h] = waits[h] /\ waitAge'[h] = waitAge[h]
    BY <1>1, <1>p DEF Increment, Counted, Timed, CounterOK
  <2>3. PICK W : W = Waiting(g)'
    OBVIOUS
  <2>4. W = Waiting(g) \cup {c}
    BY <1>0, <1>g, <2>1, <2>3 DEF Waiting
  <2>5. W \ U = (Waiting(g) \ U) \cup {c}
    BY <2>4, <1>a
  <2>6. /\ Cardinality(W \ U) <= Cardinality(Waiting(g) \ U) + 1 /\ Cardinality(W \ U) \in Nat
        /\ Cardinality(Waiting(g) \ U) \in Nat
    BY <2>5, <1>a, AddOne, FiniteShares
  <2>7. Cardinality(W \ U) <= waits'[g]
    BY <1>0, <1>u, <2>2, <2>6 DEF Fits
  <2>8. \A b \in W \ U : waitAge'[g] <= waited'[b]
    BY <1>0, <1>a, <2>2, <2>5
  <2>9. Fits(g, U)'
    BY <1>1, <1>u, <2>3, <2>4, <2>7, <2>8 DEF Fits
  <2> QED
    BY <1>0, <1>1, <1>g, <1>p, <2>1, <2>2, <2>9, OtherQueue
<1>2. CASE ~CanCount(g) /\ Increment(g) /\ Goto(c, "leave") /\ UNCHANGED open
  <2>1. pc'[c] = "leave" /\ \A b \in Clients \ {c} : pc'[b] = pc[b]
    BY <1>2, <1>p, GoesOn DEF Steps
  <2> QED
    BY <1>0, <1>2, <1>p, <2>1, NoOneLeaves DEF Increment
<1>3. CASE open' = [open EXCEPT ![g] = @ + 1] /\ Goto(c, "wait") /\ UNCHANGED <<waits, waitAge>>
  <2>1. pc'[c] = "wait" /\ \A b \in Clients \ {c} : pc'[b] = pc[b]
    BY <1>3, <1>p, GoesOn DEF Steps
  <2>2. open'[g] = open[g] + 1 /\ \A h \in Gates \ {g} : open'[h] = open[h]
    BY <1>3, <1>p DEF CounterOK
  <2>3. PICK W : W = Waiting(g)'
    OBVIOUS
  <2>4. W = Waiting(g) \cup {c}
    BY <1>0, <1>g, <2>1, <2>3 DEF Waiting
  <2> DEFINE V == U \cup {c}
  <2>5. W \ V = Waiting(g) \ U /\ V \subseteq W
    BY <2>4, <1>a, <1>u DEF Fits
  <2>6. Cardinality(V) <= Cardinality(U) + 1 /\ Cardinality(V) \in Nat /\ Cardinality(U) \in Nat
    BY <1>a, AddOne, FiniteShares
  <2> HIDE DEF V
  <2>7. Cardinality(V) <= open'[g]
    BY <1>0, <1>u, <2>2, <2>6 DEF Fits
  <2>8. Fits(g, V)'
    BY <1>0, <1>3, <1>u, <2>3, <2>5, <2>7 DEF Fits
  <2> QED
    BY <1>0, <1>3, <1>g, <1>p, <2>1, <2>2, <2>8, OtherQueue
<1> QED
  BY <1>g, <1>1, <1>2, <1>3 DEF JoinQueue

\* Whoever leaves takes a count along: its own, or another's.
LEMMA LeaveCount ==
  ASSUME SlotsInv, CountInv, NEW c \in Clients, LeaveQueue(c)
  PROVE  CountInv'
<1>p. CounterOK /\ ClientOK
  BY Parts
<1>g. PICK g \in Gates : g = gate[c]
  BY <1>p DEF ClientOK
<1>u. PICK U : Fits(g, U)
  BY CountFits
<1>0. /\ pc[c] = "uncount" /\ UNCHANGED waitAge
      /\ waits[g] \in Nat /\ open[g] \in Nat
      /\ \A b \in Clients \ {c} : waited'[b] = waited[b]
  BY <1>p, LimitsAssumption, TimesAssumption DEF LeaveQueue, CounterOK, ClientOK
<1>1. /\ pc'[c] \notin {"wait", "uncount"}
      /\ \A b \in Clients \ {c} : pc'[b] = pc[b] /\ gate'[b] = gate[b]
  BY <1>p, GoesOn, PassesOn DEF LeaveQueue, Steps
<1>2. PICK W : W = Waiting(g)'
  OBVIOUS
<1>3. W = Waiting(g) \ {c} /\ c \in Waiting(g)
  BY <1>0, <1>1, <1>2, <1>g DEF Waiting
<1>4. CASE UNCHANGED <<waits, open>>
  <2>1. \A b \in Clients : pc'[b] \in {"wait", "uncount"} =>
          pc[b] \in {"wait", "uncount"} /\ gate'[b] = gate[b] /\ waited'[b] = waited[b]
    BY <1>0, <1>1
  <2> QED
    BY <1>0, <1>4, <1>p, <2>1, NoOneLeaves
<1>5. CASE /\ Decrement(g)
           /\ open' = [open EXCEPT ![g] = IF waits[g] = 0 /\ @ > 0 THEN @ - 1 ELSE @]
  <2> DEFINE C == Waiting(g) \ U
  <2>1. waits'[g] = (IF waits[g] > 0 THEN waits[g] - 1 ELSE 0) /\ \A h \in Gates \ {g} : waits'[h] = waits[h]
    BY <1>5, <1>p DEF Decrement, CounterOK
  <2>o. /\ open'[g] = (IF waits[g] = 0 /\ open[g] > 0 THEN open[g] - 1 ELSE open[g])
        /\ \A h \in Gates \ {g} : open'[h] = open[h]
    BY <1>5, <1>p DEF CounterOK
  <2>2. /\ U \subseteq Clients /\ C \subseteq Clients /\ Cardinality(U) \in Nat /\ Cardinality(C) \in Nat
        /\ Cardinality(U) <= open[g] /\ Cardinality(C) <= waits[g] /\ U \subseteq Waiting(g)
        /\ \A b \in C : waitAge[g] <= waited[b]
    BY <1>u, WaitingClients, FiniteShares DEF Fits
  <2>3. Waiting(g) = U \cup C /\ U \cap C = {}
    BY <2>2
  <2> HIDE DEF C
  <2>4. \E V : /\ V \subseteq W /\ Cardinality(V) <= open'[g] /\ W \ V \subseteq C
               /\ Cardinality(W \ V) <= waits'[g]
    <3>1. CASE c \in C
      <4>1. W \ U = C \ {c} /\ U \subseteq W
        BY <1>3, <2>3, <3>1
      <4>2. Cardinality(C \ {c}) <= waits'[g]
        BY <1>0, <2>1, <2>2, <3>1, TakeOne
      <4>3. open'[g] = open[g]
        <5>1. Cardinality(C) >= 1
          BY <2>2, <3>1, TakeOne
        <5>2. waits[g] # 0
          BY <1>0, <2>2, <5>1
        <5> QED
          BY <2>o, <5>2
      <4> QED
        BY <2>2, <4>1, <4>2, <4>3
    <3>2. CASE c \in U /\ C = {}
      <4> DEFINE V == U \ {c}
      <4>1. W \ V = {} /\ V \subseteq W
        BY <1>3, <2>3, <3>2
      <4>2. Cardinality(V) = Cardinality(U) - 1 /\ Cardinality(U) >= 1
        BY <2>2, <3>2, TakeOne
      <4> HIDE DEF V
      <4>4. Cardinality(V) <= open'[g]
        BY <1>0, <2>2, <2>o, <4>2
      <4>3. Cardinality({}) = 0 /\ 0 <= waits'[g]
        BY <1>0, <2>1, FS_EmptySet
      <4> QED
        BY <4>1, <4>3, <4>4
    <3>3. CASE c \in U /\ C # {}
      <4>1. PICK d \in C : TRUE
        BY <3>3
      <4> DEFINE V == (U \ {c}) \cup {d}
      <4>2. W \ V = C \ {d} /\ V \subseteq W
        BY <1>3, <2>3, <3>3, <4>1
      <4>3. Cardinality(C \ {d}) <= waits'[g]
        BY <1>0, <2>1, <2>2, <4>1, TakeOne
      <4>4. Cardinality(V) <= open'[g]
        <5>0. open'[g] = open[g]
          <6>1. Cardinality(C) >= 1
            BY <2>2, <4>1, TakeOne
          <6>2. waits[g] # 0
            BY <1>0, <2>2, <6>1
          <6> QED
            BY <2>o, <6>2
        <5>1. Cardinality(U \ {c}) = Cardinality(U) - 1 /\ U \ {c} \subseteq Clients
          BY <2>2, <3>3, TakeOne
        <5>2. Cardinality(V) <= Cardinality(U \ {c}) + 1 /\ Cardinality(V) \in Nat
          BY <5>1, <2>2, <4>1, AddOne
        <5> QED
          BY <1>0, <2>2, <5>0, <5>1, <5>2
      <4> QED
        BY <4>2, <4>3, <4>4
    <3> QED
      BY <1>3, <2>3, <3>1, <3>2, <3>3
  <2>5. PICK V : /\ V \subseteq W /\ Cardinality(V) <= open'[g] /\ W \ V \subseteq C
                 /\ Cardinality(W \ V) <= waits'[g]
    BY <2>4
  <2>6. \A b \in W \ V : waitAge'[g] <= waited'[b]
    BY <1>0, <1>3, <2>2, <2>5
  <2>7. Fits(g, V)'
    BY <1>0, <1>2, <2>5, <2>6 DEF Fits
  <2> QED
    BY <1>0, <1>1, <1>g, <1>p, <2>1, <2>o, <2>7, OtherQueue
<1> QED
  BY <1>4, <1>5, <1>g DEF LeaveQueue

\* A counter that stands for a waiter with time left does not expire.
LEMMA TickCount ==
  ASSUME SlotsInv, CountInv, CounterLastsAWait, Tick
  PROVE  CountInv'
<1>p. CounterOK /\ ClientOK
  BY Parts
<1>1. ASSUME NEW g \in Gates PROVE \E V : Fits(g, V)'
  <2>u. PICK U : Fits(g, U)
    BY CountFits
  <2>0. /\ waits[g] \in Nat /\ open[g] \in Nat /\ waitAge[g] \in Nat
        /\ \A c \in Clients : waited[c] \in Nat
    BY <1>p, LimitsAssumption, TimesAssumption DEF CounterOK, ClientOK
  <2>1. ASSUME NEW c \in Clients
        PROVE  /\ pc[c] \notin {"uncount"}
               /\ pc[c] = "wait" => waited[c] < MaxWait /\ waited'[c] = waited[c] + 1
               /\ pc'[c] \in {"wait", "uncount"} <=> pc[c] \in {"wait", "uncount"}
               /\ gate'[c] = gate[c]
    BY DEF Tick, InTime
  <2>2. PICK W : W = Waiting(g)'
    OBVIOUS
  <2>3. W = Waiting(g) /\ W \subseteq Clients /\ \A c \in W : pc[c] = "wait"
    BY <2>1, <2>2 DEF Waiting
  <2> DEFINE C == W \ U
             expires == waitAge[g] + 1 >= QueueTTL
  <2>4. /\ U \subseteq W /\ Cardinality(U) <= open[g] /\ Cardinality(C) <= waits[g]
        /\ Cardinality(C) \in Nat /\ \A c \in C : waitAge[g] <= waited[c]
    BY <2>u, <2>3, FiniteShares DEF Fits
  <2>5. /\ waits'[g] = IF expires THEN 0 ELSE waits[g]
        /\ waitAge'[g] = IF expires \/ waits[g] = 0 THEN 0 ELSE waitAge[g] + 1
        /\ open'[g] = IF expires THEN Uncounted(g) ELSE open[g]
    BY DEF Tick
  <2>6. \A c \in C : /\ waitAge[g] + 1 <= waited'[c] /\ waited'[c] \in Nat
                    /\ waited[c] \in Nat /\ waitAge[g] <= waited[c]
    <3> TAKE c \in C
    <3>1. /\ waitAge[g] <= waited[c] /\ waited'[c] = waited[c] + 1
          /\ waited[c] \in Nat
      BY <2>0, <2>1, <2>3, <2>4
    <3> QED
      BY <2>0, <3>1
  <2>7. CASE ~expires
    <3>1. \A c \in C : waitAge'[g] <= waited'[c]
      BY <2>0, <2>5, <2>6, <2>7
    <3>2. waits'[g] = waits[g] /\ open'[g] = open[g]
      BY <2>5, <2>7
    <3>3. Fits(g, U)'
      BY <2>2, <2>4, <3>1, <3>2 DEF Fits
    <3> QED
      BY <3>3
  <2>8. CASE expires
    <3>1. C \subseteq Overdue(g) /\ Overdue(g) \subseteq Clients
      <4>1. \A c \in C : waited[c] + 1 >= MaxWait
        BY <2>0, <2>6, <2>8, TimesAssumption DEF CounterLastsAWait
      <4> QED
        BY <2>3, <4>1 DEF Overdue
    <3>2. /\ Cardinality(C) <= Cardinality(Overdue(g)) /\ Cardinality(Overdue(g)) \in Nat
          /\ Cardinality(U) \in Nat
      BY <2>3, <2>4, <3>1, Less, FiniteShares
    <3>3. Cardinality(W) <= Cardinality(U) + Cardinality(C) /\ Cardinality(W) \in Nat
      <4>1. W = U \cup C /\ U \subseteq Clients /\ C \subseteq Clients
        BY <2>3, <2>4
      <4> QED
        BY <4>1, <2>3, UnionBound, FiniteShares
    <3>4. open'[g] = Uncounted(g) /\ waits'[g] = 0
      BY <2>5, <2>8
    <3> HIDE DEF C, expires
    <3>5. Cardinality(W) <= open'[g]
      <4>1. Cardinality(W) <= open[g] + Cardinality(Overdue(g))
        BY <2>0, <2>4, <3>2, <3>3
      <4> QED
        BY <2>0, <2>3, <3>2, <3>3, <3>4, <4>1, UncountedIsLess
    <3>6. W \ W = {} /\ Cardinality({}) = 0
      BY FS_EmptySet
    <3>7. Fits(g, W)'
      BY <2>2, <3>4, <3>5, <3>6 DEF Fits
    <3> QED
      BY <3>7
  <2> QED
    BY <2>7, <2>8
<1> QED
  BY <1>1, CountFitsNext

\* Steps at which nobody joins or leaves a queue, but by dying.
LEMMA QuietCount ==
  ASSUME SlotsInv, CountInv, NEW c \in Clients,
         \/ TryAcquire(c) \/ GiveUp(c) \/ Depart(c) \/ AcquireLease(c) \/ Hand(c) \/ RefreshLease(c)
         \/ Finish(c) \/ Create(c) \/ EndSession(c) \/ Die(c)
  PROVE  CountInv'
<1>p. CounterOK /\ ClientOK
  BY Parts
<1>1. UNCHANGED counter
  BY DEF TryAcquire, GiveUp, Depart, AcquireLease, Hand, RefreshLease, Finish, Create, EndSession, Die
<1>2. ASSUME NEW s \in Steps, Goto(c, s), UNCHANGED waited, UNCHANGED gate \/ s \notin {"wait", "uncount"},
             \A b \in Clients \ {c} : gate'[b] = gate[b],
             s \in {"wait", "uncount"} => pc[c] = "wait"
      PROVE  CountInv'
  <2>1. pc'[c] = s /\ \A b \in Clients \ {c} : pc'[b] = pc[b]
    BY <1>2, <1>p, GoesOn
  <2>2. \A b \in Clients : pc'[b] \in {"wait", "uncount"} =>
          pc[b] \in {"wait", "uncount"} /\ gate'[b] = gate[b] /\ waited'[b] = waited[b]
    BY <1>2, <2>1
  <2> QED
    BY <1>1, <1>p, <2>2, NoOneLeaves
<1>3. CASE TryAcquire(c)
  <2>1. CASE PassGate(c)
    <3>1. /\ pc'[c] \notin {"wait", "uncount"}
          /\ \A b \in Clients \ {c} : pc'[b] = pc[b] /\ gate'[b] = gate[b]
      BY <1>p, <2>1, PassesOn
    <3> QED
      BY <1>1, <1>3, <1>p, <3>1, NoOneLeaves DEF TryAcquire
  <2>2. ASSUME NEW s \in Steps, Goto(c, s), UNCHANGED gate, s \in {"wait", "uncount"} => pc[c] = "wait"
        PROVE  CountInv'
    BY <1>2, <1>3, <2>2 DEF TryAcquire
  <2> QED
    BY <1>3, <2>1, <2>2 DEF TryAcquire, Steps
<1>4. CASE Die(c)
  <2>1. pc'[c] = "rest" /\ \A b \in Clients \ {c} : pc'[b] = pc[b]
    BY <1>4, <1>p, GoesOn DEF Die, Steps
  <2>2. \A b \in Clients \ {c} : gate'[b] = gate[b] /\ waited'[b] = waited[b]
    BY <1>4, <1>p DEF Die, ClientOK
  <2> QED
    BY <1>1, <1>p, <2>1, <2>2, NoOneLeaves
<1>5. CASE Depart(c)
  <2>1. \A b \in Clients \ {c} : gate'[b] = gate[b]
    BY <1>5, <1>p DEF Depart, ClientOK
  <2> QED
    BY <1>2, <1>5, <2>1 DEF Depart, Steps
<1>6. CASE RefreshLease(c)
  <2>1. CASE UNCHANGED pc
    BY <1>1, <1>6, <1>p, <2>1, NoOneLeaves DEF RefreshLease
  <2>2. CASE Goto(c, "leave")
    BY <1>2, <1>6, <2>2 DEF RefreshLease, Steps
  <2> QED
    BY <1>6, <2>1, <2>2 DEF RefreshLease
<1>7. CASE GiveUp(c) \/ AcquireLease(c) \/ Hand(c) \/ Finish(c) \/ Create(c) \/ EndSession(c)
  <2>1. UNCHANGED <<gate, waited>>
    BY <1>7 DEF GiveUp, AcquireLease, Hand, Finish, Create, EndSession
  <2>2. PICK s \in Steps : Goto(c, s) /\ (s \in {"wait", "uncount"} => pc[c] = "wait")
    BY <1>7 DEF GiveUp, AcquireLease, Hand, Finish, Create, EndSession, Steps
  <2> QED
    BY <1>2, <2>1, <2>2
<1> QED
  BY <1>3, <1>4, <1>5, <1>6, <1>7

LEMMA NextCount ==
  SlotsInv /\ CounterLastsAWait /\ CountInv /\ [Next]_vars => CountInv'
<1> SUFFICES ASSUME SlotsInv, CounterLastsAWait, CountInv, [Next]_vars PROVE CountInv'
  OBVIOUS
<1>p. CounterOK
  BY Parts
<1>1. ASSUME UNCHANGED <<counter, pc, gate, waited>> PROVE CountInv'
  BY <1>1, <1>p, NoOneLeaves
<1>2. ASSUME NEW c \in Clients,
             TryAcquire(c) \/ Progress(c) \/ Finish(c) \/ Create(c) \/ EndSession(c) \/ Die(c) \/ BeLate(c)
      PROVE  CountInv'
  <2>1. CASE (\E g \in Gates : Release(c, g)) \/ ReleaseLease(c) \/ BeLate(c)
    BY <1>1, <2>1 DEF Release, ReleaseLease, BeLate
  <2>2. CASE JoinQueue(c)
    BY <2>2, JoinCount
  <2>3. CASE LeaveQueue(c)
    BY <2>3, LeaveCount
  <2>4. CASE \/ TryAcquire(c) \/ GiveUp(c) \/ Depart(c) \/ AcquireLease(c) \/ Hand(c) \/ RefreshLease(c)
             \/ Finish(c) \/ Create(c) \/ EndSession(c) \/ Die(c)
    BY <2>4, QuietCount
  <2> QED
    BY <1>2, <2>1, <2>2, <2>3, <2>4 DEF Progress
<1>3. ASSUME NEW g \in Gates, Cleanup(g) PROVE CountInv'
  BY <1>1, <1>3 DEF Cleanup
<1>4. CASE UNCHANGED vars
  BY <1>1, <1>4 DEF vars
<1> QED
  BY <1>2, <1>3, <1>4, TickCount DEF Next

LEMMA InitCount == Init => CountInv
<1> SUFFICES ASSUME Init, NEW g \in Gates PROVE Fits(g, {})
  BY CountFits
<1>1. Waiting(g) = {}
  BY DEF Init, Waiting
<1> QED
  BY <1>1, FS_EmptySet DEF Init, Fits

\* Everyone who waits is counted but for those the failing counter let in and
\* those who come in while others still wait whose time ended with the counter's,
\* as long as a counter lasts as long as the longest wait, to which it is set
\* (incrementWaitScript, decrementWaitScript, ProvideConcurrencyCache).
THEOREM WaitersAreCounted == CounterLastsAWait /\ Spec => []WaitersCounted
<1>1. SlotsInv /\ CountInv => WaitersCounted
  <2> SUFFICES ASSUME SlotsInv, CountInv, NEW g \in Gates
               PROVE  Cardinality(Waiting(g)) <= waits[g] + open[g]
    BY DEF WaitersCounted
  <2>1. PICK U : Fits(g, U)
    BY CountFits
  <2>2. U \subseteq Clients /\ Waiting(g) \ U \subseteq Clients /\ Waiting(g) = U \cup (Waiting(g) \ U)
    BY <2>1, WaitingClients DEF Fits
  <2>3. /\ Cardinality(Waiting(g)) <= Cardinality(U) + Cardinality(Waiting(g) \ U)
        /\ Cardinality(U) \in Nat /\ Cardinality(Waiting(g) \ U) \in Nat /\ Cardinality(Waiting(g)) \in Nat
    BY <2>2, FiniteShares, UnionBound
  <2>4. waits[g] \in Nat /\ open[g] \in Nat
    BY Parts, LimitsAssumption, TimesAssumption DEF CounterOK
  <2> QED
    BY <2>1, <2>3, <2>4 DEF Fits
<1>2. SlotsInv /\ CounterLastsAWait /\ CountInv /\ [Next]_vars => CountInv'
  BY NextCount
<1>3. (CounterLastsAWait)' <=> CounterLastsAWait
  BY DEF CounterLastsAWait
<1> QED
  BY <1>1, <1>2, <1>3, InitCount, SlotsInvariance, PTL DEF Spec

-----------------------------------------------------------------------------
(***************************************************************************)
(* Proof about SchedulerSnapshot, for any number of tasks, changes and     *)
(* faults: what a bucket shows was loaded since it was last retired.       *)
(*                                                                         *)
(* Retiring a bucket begins an epoch of which no token is out, so whoever  *)
(* has loaded accounts before holds a token of an older one, whatever it   *)
(* does until it looks at the epoch, and when it does, is fenced.          *)
(***************************************************************************)

USE DEF truth, outbox, fence, bucket, local

Early == {"idle", "capture", "lease", "read", "retire", "reopen", "release"}

-----------------------------------------------------------------------------
(* What the actions have in common. *)

\* A task goes on with what it has.
LEMMA TaskGoesOn ==
  ASSUME TokenInv, FenceInv, NEW t \in Tasks, NEW s \in TaskSteps, TaskTo(t, s),
         UNCHANGED <<fence, token, loaded, fresh>>,
         s \in Early => loaded[t] = None, s \in {"allocate", "activate"} => Loaded(t)
  PROVE  TokenInv' /\ FenceInv'
<1>1. task' \in [Tasks -> TaskSteps] /\ task'[t] = s /\ \A u \in Tasks \ {t} : task'[u] = task[u]
  BY DEF TokenInv, TaskTo
<1>2. TokenInv'
  BY <1>1 DEF TokenInv, Early
<1>3. \A u \in Tasks : Loaded(u)' => Loaded(u)
  BY <1>1 DEF Loaded
<1>4. FenceInv'
  BY <1>3 DEF FenceInv
<1> QED
  BY <1>2, <1>4

\* A task gives up what it has.
LEMMA StartsOver ==
  ASSUME TokenInv, FenceInv, NEW t \in Tasks, Clear(t), UNCHANGED fence
  PROVE  TokenInv' /\ FenceInv'
<1>0. "idle" \in TaskSteps /\ 0 \in Nat
  BY DEF TaskSteps
<1>1. /\ task' \in [Tasks -> TaskSteps] /\ task'[t] = "idle" /\ \A u \in Tasks \ {t} : task'[u] = task[u]
      /\ token' \in [Tasks -> Nat] /\ token'[t] = 0 /\ \A u \in Tasks \ {t} : token'[u] = token[u]
      /\ DOMAIN loaded' = Tasks /\ loaded'[t] = None /\ \A u \in Tasks \ {t} : loaded'[u] = loaded[u]
      /\ fresh' = fresh \ {t}
  BY <1>0 DEF TokenInv, Clear, TaskTo, Set
<1>2. TokenInv'
  BY <1>1 DEF TokenInv
<1>3. ~Loaded(t)' /\ \A u \in Tasks \ {t} : Loaded(u)' => Loaded(u)
  BY <1>1 DEF Loaded
<1>4. retired => epoch # 0
  BY DEF TokenInv, FenceInv
<1>5. FenceInv'
  BY <1>1, <1>3, <1>4 DEF FenceInv
<1> QED
  BY <1>2, <1>5

\* Nothing that the invariant speaks of changes.
LEMMA TaskRests ==
  ASSUME TokenInv, FenceInv, UNCHANGED <<fence, task, token, loaded, fresh>>
  PROVE  TokenInv' /\ FenceInv'
  BY DEF TokenInv, FenceInv, Loaded

\* A task gets a token of an epoch that has begun and is not over; it has loaded
\* nothing with it.  If this is the first epoch, nobody else has such a token.
LEMMA GetsToken ==
  ASSUME TokenInv, FenceInv, NEW t \in Tasks, NEW s \in TaskSteps, TaskTo(t, s),
         s \notin {"allocate", "activate"}, loaded[t] = None,
         epoch' = (IF epoch = 0 THEN 1 ELSE epoch), retired' = FALSE,
         token' = Set(token, t, epoch'), UNCHANGED <<loaded, fresh>>
  PROVE  TokenInv' /\ FenceInv'
<1>1. /\ epoch' \in Nat /\ epoch' # 0 /\ epoch <= epoch'
      /\ task' \in [Tasks -> TaskSteps] /\ task'[t] = s /\ \A u \in Tasks \ {t} : task'[u] = task[u]
  BY DEF TokenInv, TaskTo
<1>2. token' \in [Tasks -> Nat] /\ token'[t] = epoch' /\ \A u \in Tasks \ {t} : token'[u] = token[u]
  BY <1>1 DEF TokenInv, Set
<1>3. TokenInv'
  <2>1. \A u \in Tasks : token'[u] <= epoch'
    BY <1>1, <1>2 DEF TokenInv
  <2>2. \A u \in Tasks : task'[u] \in Early => loaded'[u] = None
    BY <1>1 DEF TokenInv, Early
  <2>3. retired' \in BOOLEAN /\ fresh' \subseteq Tasks /\ DOMAIN loaded' = Tasks
    BY DEF TokenInv
  <2> QED
    BY <1>1, <1>2, <2>1, <2>2, <2>3 DEF TokenInv, Early
<1>4. ~Loaded(t)' /\ \A u \in Tasks \ {t} : Loaded(u)' => Loaded(u)
  BY <1>1 DEF Loaded
<1>5. \A u \in Tasks \ {t} : token'[u] = epoch' => token[u] = epoch
  BY <1>1, <1>2 DEF TokenInv
<1>6. FenceInv'
  BY <1>4, <1>5 DEF FenceInv
<1> QED
  BY <1>3, <1>6

-----------------------------------------------------------------------------
(* The parts of the invariant. *)

LEMMA InitSnapshot == SnapshotInit => SnapshotInv
<1> SUFFICES ASSUME SnapshotInit PROVE SnapshotInv
  OBVIOUS
<1>1. TokenInv
  <2>1. epoch \in Nat /\ retired \in BOOLEAN /\ fresh \subseteq Tasks
    BY DEF SnapshotInit
  <2>2. task \in [Tasks -> TaskSteps] /\ token \in [Tasks -> Nat] /\ DOMAIN loaded = Tasks
        /\ \A t \in Tasks : token[t] <= epoch /\ loaded[t] = None
    BY DEF SnapshotInit, TaskSteps
  <2> QED
    BY <2>1, <2>2 DEF TokenInv
<1>2. FenceInv /\ PublishedIsFresh
  BY DEF SnapshotInit, FenceInv, PublishedIsFresh, Loaded
<1> QED
  BY <1>1, <1>2 DEF SnapshotInv

LEMMA StepFence ==
  ASSUME TokenInv, FenceInv, [SnapshotNext]_snapshotVars
  PROVE  TokenInv' /\ FenceInv'
<1> USE DEF TaskSteps, Early
<1>1. CASE UNCHANGED snapshotVars
  BY <1>1, TaskRests DEF snapshotVars
<1>2. ASSUME NEW k \in Kinds, Begin(k) \/ Commit(k) \/ Rollback(k) PROVE TokenInv' /\ FenceInv'
  BY <1>2, TaskRests DEF Begin, Commit, Rollback
<1>3. CASE CleanOutbox \/ LockExpires \/ LeaseExpires
  BY <1>3, TaskRests DEF CleanOutbox, LockExpires, LeaseExpires
<1>4. ASSUME NEW t \in Tasks, Poll(t) \/ FullRebuild(t) \/ Miss(t) PROVE TokenInv' /\ FenceInv'
  <2>1. PICK s \in {"lease", "capture"} : TaskTo(t, s)
    BY <1>4 DEF Poll, FullRebuild, Miss
  <2>2. task[t] = "idle" /\ UNCHANGED <<fence, token, loaded, fresh>>
    BY <1>4 DEF Poll, FullRebuild, Miss
  <2>3. loaded[t] = None
    BY <2>2 DEF TokenInv
  <2> QED
    BY <2>1, <2>2, <2>3, TaskGoesOn
<1>5. ASSUME NEW t \in Tasks, Lease(t) PROVE TokenInv' /\ FenceInv'
  <2>1. loaded[t] = None /\ UNCHANGED fence
    BY <1>5 DEF TokenInv, Lease
  <2>2. CASE TaskTo(t, "read") /\ UNCHANGED local
    BY <2>1, <2>2, TaskGoesOn
  <2> QED
    BY <1>5, <2>1, <2>2, StartsOver DEF Lease
<1>6. ASSUME NEW t \in Tasks, ReadGroup(t) PROVE TokenInv' /\ FenceInv'
  <2>1. loaded[t] = None /\ UNCHANGED <<fence, token, loaded, fresh>>
    BY <1>6 DEF TokenInv, ReadGroup
  <2>2. PICK s \in {"reopen", "retire"} : TaskTo(t, s)
    BY <1>6 DEF ReadGroup
  <2> QED
    BY <2>1, <2>2, TaskGoesOn
<1>7. ASSUME NEW t \in Tasks, Retire(t) PROVE TokenInv' /\ FenceInv'
  <2>1. /\ epoch \in Nat /\ retired \in BOOLEAN /\ token' = token /\ loaded' = loaded /\ loaded[t] = None
        /\ retired' = TRUE /\ epoch' = (IF retired THEN epoch ELSE epoch + 1) /\ fresh' = {}
    BY <1>7 DEF TokenInv, Retire, RetireBucket
  <2>2. task' \in [Tasks -> TaskSteps] /\ task'[t] = "release" /\ \A u \in Tasks \ {t} : task'[u] = task[u]
    BY <1>7 DEF TokenInv, Retire, TaskTo
  <2>3. TokenInv'
    BY <2>1, <2>2 DEF TokenInv
  <2>4. \A u \in Tasks : Loaded(u)' => Loaded(u)
    BY <2>1, <2>2 DEF Loaded
  <2>5. \A u \in Tasks : token[u] # epoch'
    <3>1. CASE retired
      BY <2>1, <3>1 DEF FenceInv
    <3>2. CASE ~retired
      BY <2>1, <3>2 DEF TokenInv
    <3> QED
      BY <3>1, <3>2
  <2> QED
    BY <2>1, <2>3, <2>4, <2>5 DEF FenceInv
<1>8. ASSUME NEW t \in Tasks, Reopen(t) PROVE TokenInv' /\ FenceInv'
  <2>1. loaded[t] = None
    BY <1>8 DEF TokenInv, Reopen
  <2> QED
    BY <1>8, <2>1, GetsToken DEF Reopen
<1>9. ASSUME NEW t \in Tasks, EndLease(t) PROVE TokenInv' /\ FenceInv'
  <2>1. loaded[t] = None /\ UNCHANGED fence
    BY <1>9 DEF TokenInv, EndLease
  <2>2. ASSUME NEW s \in {"lock", "done"}, TaskTo(t, s), UNCHANGED local PROVE TokenInv' /\ FenceInv'
    BY <2>1, <2>2, TaskGoesOn
  <2> QED
    BY <1>9, <2>1, <2>2, StartsOver DEF EndLease
<1>10. ASSUME NEW t \in Tasks, Capture(t) PROVE TokenInv' /\ FenceInv'
  <2>1. loaded[t] = None /\ UNCHANGED <<retired, loaded, fresh>>
    BY <1>10 DEF TokenInv, Capture
  <2>2. CASE retired
    <3>1. PICK s \in {"lease", "done"} : TaskTo(t, s)
      BY <1>10, <2>2 DEF Capture
    <3> QED
      BY <1>10, <2>1, <2>2, <3>1, TaskGoesOn DEF Capture
  <2>3. CASE ~retired
    <3>1. PICK s \in {"load", "lock"} : TaskTo(t, s)
      BY <1>10, <2>3 DEF Capture
    <3>2. retired' = FALSE
      BY <2>1, <2>3 DEF TokenInv
    <3> QED
      BY <1>10, <2>1, <2>3, <3>1, <3>2, GetsToken DEF Capture
  <2> QED
    BY <2>2, <2>3
<1>11. ASSUME NEW t \in Tasks, LockBucket(t) PROVE TokenInv' /\ FenceInv'
  <2>1. UNCHANGED fence
    BY <1>11 DEF LockBucket
  <2>2. CASE Clear(t)
    BY <2>1, <2>2, StartsOver
  <2>3. ASSUME NEW s \in {"load", "allocate", "done"}, TaskTo(t, s), UNCHANGED local,
               s = "allocate" => loaded[t] # None
        PROVE  TokenInv' /\ FenceInv'
    BY <2>1, <2>3, TaskGoesOn DEF Loaded
  <2> QED
    BY <1>11, <2>2, <2>3 DEF LockBucket
<1>12. ASSUME NEW t \in Tasks, Load(t) PROVE TokenInv' /\ FenceInv'
  <2>1. /\ UNCHANGED <<fence, token>> /\ fresh' = fresh \cup {t}
        /\ DOMAIN loaded' = Tasks /\ \A u \in Tasks \ {t} : loaded'[u] = loaded[u]
    BY <1>12 DEF TokenInv, Load, Set
  <2>2. task' \in [Tasks -> TaskSteps] /\ task'[t] \in {"allocate", "lock"} /\ \A u \in Tasks \ {t} : task'[u] = task[u]
    BY <1>12 DEF TokenInv, Load, TaskTo
  <2>3. TokenInv'
    BY <2>1, <2>2 DEF TokenInv
  <2>4. \A u \in Tasks \ {t} : Loaded(u)' => Loaded(u)
    BY <2>1, <2>2 DEF Loaded
  <2> QED
    BY <2>1, <2>3, <2>4 DEF FenceInv
<1>13. ASSUME NEW t \in Tasks, Allocate(t) PROVE TokenInv' /\ FenceInv'
  <2>1. task[t] = "allocate" /\ UNCHANGED <<fence, token, loaded, fresh>>
    BY <1>13 DEF Allocate
  <2>2. PICK s \in {"activate", "failed", "done", "unlock"} : TaskTo(t, s)
    BY <1>13 DEF Allocate, Leave
  <2> QED
    BY <2>1, <2>2, TaskGoesOn DEF Loaded
<1>14. ASSUME NEW t \in Tasks, Activate(t) PROVE TokenInv' /\ FenceInv'
  <2>1. UNCHANGED <<fence, token, loaded, fresh>>
    BY <1>14 DEF Activate
  <2>2. PICK s \in {"failed", "done", "unlock"} : TaskTo(t, s)
    BY <1>14 DEF Activate, Leave
  <2> QED
    BY <2>1, <2>2, TaskGoesOn
<1>15. ASSUME NEW t \in Tasks, Unlock(t) PROVE TokenInv' /\ FenceInv'
  <2>1. UNCHANGED fence
    BY <1>15 DEF Unlock
  <2>2. CASE TaskTo(t, "done") /\ UNCHANGED local
    BY <2>1, <2>2, TaskGoesOn
  <2> QED
    BY <1>15, <2>1, <2>2, StartsOver DEF Unlock
<1>16. ASSUME NEW t \in Tasks, Done(t) \/ Fail(t) PROVE TokenInv' /\ FenceInv'
  BY <1>16, StartsOver DEF Done, Fail
<1> QED
  BY <1>1, <1>2, <1>3, <1>4, <1>5, <1>6, <1>7, <1>8, <1>9, <1>10, <1>11, <1>12, <1>13, <1>14,
     <1>15, <1>16 DEF SnapshotNext, Work, Lifecycle, Rebuild

\* A snapshot is published by a task that is not fenced, and goes when the
\* bucket is retired.
LEMMA StepPublished ==
  ASSUME TokenInv, FenceInv, PublishedIsFresh, [SnapshotNext]_snapshotVars
  PROVE  PublishedIsFresh'
<1>1. CASE UNCHANGED <<retired, active>>
  BY <1>1 DEF PublishedIsFresh
<1>2. CASE active' = None
  BY <1>2 DEF PublishedIsFresh
<1>3. ASSUME NEW t \in Tasks, Activate(t), ~UNCHANGED active PROVE PublishedIsFresh'
  <2>1. task[t] = "activate" /\ ~Fenced(t) /\ active' = [data |-> loaded[t], fresh |-> t \in fresh]
        /\ UNCHANGED <<retired, fresh>>
    BY <1>3 DEF Activate
  <2>2. t \in fresh /\ ~retired
    BY <2>1 DEF FenceInv, Loaded, Fenced
  <2>3. active'.fresh
    BY <2>1, <2>2
  <2> QED
    BY <2>1, <2>2, <2>3 DEF PublishedIsFresh
<1>4. ASSUME NEW t \in Tasks, Reopen(t) PROVE PublishedIsFresh'
  BY <1>4 DEF Reopen, PublishedIsFresh
<1>5. \/ UNCHANGED <<retired, active>> \/ active' = None
      \/ \E t \in Tasks : Reopen(t) \/ (Activate(t) /\ ~UNCHANGED active)
  <2>1. CASE UNCHANGED snapshotVars
    BY <2>1 DEF snapshotVars
  <2>2. ASSUME NEW t \in Tasks, Lifecycle(t)
        PROVE  UNCHANGED <<retired, active>> \/ active' = None \/ Reopen(t)
    BY <2>2 DEF Lifecycle, Lease, ReadGroup, Retire, RetireBucket, EndLease
  <2>3. ASSUME NEW t \in Tasks, Rebuild(t), ~Activate(t)
        PROVE  UNCHANGED <<retired, active>>
    BY <2>3 DEF Rebuild, Capture, LockBucket, Load, Allocate, Unlock
  <2>4. ASSUME NEW t \in Tasks, Activate(t), UNCHANGED active
        PROVE  UNCHANGED <<retired, active>>
    BY <2>4 DEF Activate
  <2>5. ASSUME NEW t \in Tasks, Done(t) \/ Fail(t)
        PROVE  UNCHANGED <<retired, active>>
    BY <2>5 DEF Done, Fail
  <2> QED
    BY <2>1, <2>2, <2>3, <2>4, <2>5
       DEF SnapshotNext, Work, Begin, Commit, Rollback, Poll, FullRebuild, Miss, CleanOutbox, LockExpires,
           LeaseExpires
<1> QED
  BY <1>1, <1>2, <1>3, <1>4, <1>5

-----------------------------------------------------------------------------
(* The theorems. *)

\* The invariant holds in every reachable state.
THEOREM SnapshotInvariance == SnapshotSpec => []SnapshotInv
<1>1. SnapshotInv /\ [SnapshotNext]_snapshotVars => SnapshotInv'
  BY StepFence, StepPublished DEF SnapshotInv
<1>2. QED
  BY <1>1, InitSnapshot, PTL DEF SnapshotSpec

\* Whoever loaded accounts before the bucket was retired, and is late, does not
\* publish them, whether the bucket is still retired or was reopened meanwhile
\* (retireBucketScript, allocateSnapshotVersionScript, activateSnapshotScript).
THEOREM Published == SnapshotSpec => []PublishedIsFresh
<1>1. SnapshotInv => PublishedIsFresh
  BY DEF SnapshotInv
<1>2. QED
  BY <1>1, SnapshotInvariance, PTL

-----------------------------------------------------------------------------
(***************************************************************************)
(* Proofs about UsageBilling, for any number of requests and processes and *)
(* any number of credits, debits and faults.                               *)
(*                                                                         *)
(* Claim and price are taken in one step, so the claims say who has paid.  *)
(* A charge that uses up the balance marks its request in the same step;   *)
(* from then on the mark stands for the deletion of the copy, until that   *)
(* is done or has failed.                                                  *)
(***************************************************************************)

USE DEF funds, redis, request, others

-----------------------------------------------------------------------------
(* The helpers. *)

\* What is too little stays so if it gets less.
LEMMA BelowIsMonotone ==
  ASSUME NEW a \in Int, NEW b \in Int, a <= b, Below(b) PROVE Below(a)
  BY AmountsAssumption DEF Below

LEMMA Amounts == NoCopy \in Int /\ \A a \in Amount : a \in Int
  BY AmountsAssumption DEF NoCopy, Amount

\* The deletion, or what its failure leaves, leaves no copy unexcused.
LEMMA Excuse ==
  ASSUME Delete \/ Keep \/ DeleteOrFail
  PROVE  copy' \in {copy, NoCopy} /\ (copy' # NoCopy => excused')
  BY DEF Delete, Keep, DeleteOrFail

\* A deduction makes no copy, and makes one less.
LEMMA Deduction ==
  ASSUME copy \in Int, DeductCopy
  PROVE  /\ copy' \in Int /\ copy' <= copy /\ excused' = excused
         /\ copy' # NoCopy => copy # NoCopy
  BY Amounts DEF DeductCopy

\* One request goes on.
LEMMA Goes ==
  ASSUME ShapeInv, NEW r \in Requests, NEW s \in Step, StepTo(r, s)
  PROVE  step' \in [Requests -> Step] /\ step'[r] = s /\ \A q \in Requests \ {r} : step'[q] = step[q]
  BY DEF ShapeInv, StepTo

\* The transaction marks a request that leaves too little.
LEMMA Takes ==
  ASSUME ShapeInv, NEW r \in Requests, Take(r)
  PROVE  /\ balance' = balance - 1 /\ balance' \in Int
         /\ claims' = claims \cup {r} /\ claims' \subseteq Requests
         /\ charged' \in [Requests -> Nat] /\ charged'[r] = charged[r] + 1
         /\ \A q \in Requests \ {r} : charged'[q] = charged[q] /\ exhausted'[q] = exhausted[q]
         /\ exhausted' \in [Requests -> BOOLEAN] /\ (exhausted'[r] <=> Below(balance'))
<1>1. /\ balance' = balance - 1 /\ balance' \in Int
      /\ claims' = claims \cup {r} /\ claims' \subseteq Requests
      /\ charged' \in [Requests -> Nat] /\ charged'[r] = charged[r] + 1
      /\ \A q \in Requests \ {r} : charged'[q] = charged[q]
  BY DEF ShapeInv, Take
<1>2. exhausted \in [Requests -> BOOLEAN] /\ exhausted' = [exhausted EXCEPT ![r] = Below(balance')]
  BY DEF ShapeInv, Take
<1>3. Below(balance') \in BOOLEAN
  BY DEF Below
<1> DEFINE b == Below(balance')
<1> HIDE DEF b
<1>4. /\ \A q \in Requests \ {r} : exhausted'[q] = exhausted[q]
      /\ exhausted' \in [Requests -> BOOLEAN] /\ exhausted'[r] = b
  BY <1>2, <1>3, Zenon DEF b
<1> QED
  BY <1>1, <1>3, <1>4 DEF b

-----------------------------------------------------------------------------
(* What the actions have in common. *)

\* A copy that admits a user whose balance is used up, and a request that is
\* still to delete it.
Stale  == Below(balance) /\ copy # NoCopy /\ ~Below(copy)
Mark(r) == Unbilled(r) /\ (step[r] = "sync" => exhausted[r])

LEMMA Refusal == ExhaustedIsRefused <=> (Stale => excused \/ \E r \in Requests : Mark(r))
  BY DEF ExhaustedIsRefused, Stale, Mark

\* Steps of requests that are not at their charge: who marks the copy, still does.
Before == {"new", "look", "load", "wait", "store", "judge", "failed", "refused", "serve", "ended"}
MovesBefore ==
  /\ step' \in [Requests -> Step] /\ UNCHANGED <<claims, charged, exhausted>>
  /\ \A r \in Requests :
       step'[r] = step[r] \/ (step[r] \in Before /\ step'[r] \in Before \cup {"charge"})

LEMMA MovesBeforeKeeps ==
  ASSUME ChargeInv, MovesBefore
  PROVE  ClaimInv' /\ \A r \in Requests : Mark(r) => Mark(r)'
<1>1. ClaimInv'
  BY DEF ChargeInv, ClaimInv, MovesBefore, Before
<1>2. \A r \in Requests : Mark(r) => Mark(r)'
  BY DEF MovesBefore, Before, Mark, Unbilled
<1> QED
  BY <1>1, <1>2

\* No request moves at all.
LEMMA RequestRests == ASSUME ChargeInv, UNCHANGED <<claims, charged, step, exhausted>> PROVE MovesBefore
  BY DEF ChargeInv, ShapeInv, MovesBefore

LEMMA MoveOne ==
  ASSUME ChargeInv, NEW r \in Requests, NEW s \in Before \cup {"charge"}, step[r] \in Before,
         StepTo(r, s), UNCHANGED <<claims, charged, exhausted>>
  PROVE  MovesBefore
<1>1. s \in Step
  BY DEF Before, Step
<1> QED
  BY <1>1, Goes DEF ChargeInv, MovesBefore

\* Nothing that Stale speaks of gets worse, and the marks stay.
LEMMA NoWorse ==
  ASSUME ChargeInv, MovesBefore, balance' \in Int, copy' \in Int,
         Stale' => Stale \/ excused', Stale' /\ excused => excused'
  PROVE  ChargeInv'
<1>1. ClaimInv' /\ ShapeInv'
  BY MovesBeforeKeeps DEF ChargeInv, ShapeInv, MovesBefore
<1>2. Stale' => excused' \/ \E r \in Requests : Mark(r)'
  BY MovesBeforeKeeps, Refusal DEF ChargeInv
<1>3. ExhaustedIsRefused'
  BY <1>2 DEF ExhaustedIsRefused, Stale, Mark
<1> QED
  BY <1>1, <1>3 DEF ChargeInv

\* Balance and copy stay.
LEMMA FundsStay ==
  ASSUME ChargeInv, MovesBefore, UNCHANGED <<balance, redis>>
  PROVE  ChargeInv'
<1>1. balance' \in Int /\ copy' \in Int /\ (Stale' => Stale) /\ (excused => excused')
  BY DEF ChargeInv, ShapeInv, Stale
<1> QED
  BY <1>1, NoWorse

\* The copy goes, or the failure to delete it is excused.
LEMMA Resolved ==
  ASSUME ShapeInv', ClaimInv', copy' # NoCopy => excused'
  PROVE  ChargeInv'
  BY DEF ChargeInv, ExhaustedIsRefused

-----------------------------------------------------------------------------
(* The invariant is kept by every action. *)

LEMMA InitCharge == BillingInit => ChargeInv
<1> SUFFICES ASSUME BillingInit PROVE ChargeInv
  OBVIOUS
<1>1. ShapeInv
  BY AmountsAssumption, Amounts DEF BillingInit, ShapeInv, Step
<1>2. ClaimInv /\ ExhaustedIsRefused
  BY DEF BillingInit, ClaimInv, ExhaustedIsRefused
<1> QED
  BY <1>1, <1>2 DEF ChargeInv

\* Requests on their way to the upstream.
LEMMA BeforeSteps ==
  ASSUME ChargeInv, NEW r \in Requests,
         \/ Arrive(r) \/ Look(r) \/ LoadBalance(r) \/ StoreBalance(r) \/ Judge(r) \/ Unavailable(r) \/ Serve(r)
  PROVE  ChargeInv'
<1>0. step \in [Requests -> Step] /\ "failed" \in Step /\ "judge" \in Step
  BY DEF ChargeInv, ShapeInv, Step
<1>1. UNCHANGED <<balance, redis>> /\ UNCHANGED <<claims, charged, exhausted>>
  BY DEF Arrive, Look, LoadBalance, StoreBalance, Judge, Unavailable, Serve
<1>2. ASSUME NEW s \in Before \cup {"charge"}, StepTo(r, s), step[r] \in Before
      PROVE  MovesBefore
  BY <1>1, <1>2, MoveOne
<1>3. MovesBefore
  <2>3. CASE Arrive(r)
    BY <1>2, <2>3 DEF Arrive, Before
  <2>4. CASE Look(r)
    BY <1>2, <2>4 DEF Look, Before
  <2>5. CASE LoadBalance(r)
    <3>1. CASE StepTo(r, "store")
      BY <1>2, <2>5, <3>1 DEF LoadBalance, Before
    <3>2. CASE step' = [q \in Requests |-> IF q \in AwaitingLoad(At[r]) \cup {r} THEN "failed" ELSE step[q]]
      BY <1>0, <1>1, <2>5, <3>2 DEF LoadBalance, MovesBefore, Before, AwaitingLoad
    <3> QED
      BY <2>5, <3>1, <3>2 DEF LoadBalance
  <2>6. CASE StoreBalance(r)
    <3>1. step' = [q \in Requests |-> IF q \in AwaitingLoad(At[r]) \cup {r} THEN "judge" ELSE step[q]]
      BY <2>6 DEF StoreBalance
    <3> QED
      BY <1>0, <1>1, <2>6, <3>1 DEF StoreBalance, MovesBefore, Before, AwaitingLoad
  <2>7. CASE Judge(r)
    BY <1>2, <2>7 DEF Judge, Before
  <2>8. CASE Unavailable(r)
    BY <1>2, <2>8 DEF Unavailable, Before
  <2>9. CASE Serve(r)
    BY <1>2, <2>9 DEF Serve, Before
  <2> QED
    BY <2>3, <2>4, <2>5, <2>6, <2>7, <2>8, <2>9
<1> QED
  BY <1>1, <1>3, FundsStay

\* A request that is at its charge or at its copy moves on: what is left to show
\* is that it is marked, or that nothing needs a mark.
LEMMA AfterMove ==
  ASSUME ChargeInv, NEW r \in Requests, NEW s \in Step, StepTo(r, s),
         UNCHANGED <<balance, claims, charged, exhausted>>, copy' \in Int,
         s \in {"sync", "resync", "billed"} => r \in claims,
         Mark(r) => Mark(r)' \/ (copy' # NoCopy => excused'),
         Stale' => Stale, excused /\ Stale' => excused'
  PROVE  ChargeInv'
<1>1. step' \in [Requests -> Step] /\ step'[r] = s /\ \A q \in Requests \ {r} : step'[q] = step[q]
  BY Goes DEF ChargeInv
<1>2. ShapeInv' /\ ClaimInv'
  BY <1>1 DEF ChargeInv, ShapeInv, ClaimInv
<1>3. \A q \in Requests \ {r} : Mark(q) => Mark(q)'
  BY <1>1 DEF Mark, Unbilled
<1>4. Stale' => excused' \/ \E q \in Requests : Mark(q)'
  <2> SUFFICES ASSUME Stale' PROVE excused' \/ \E q \in Requests : Mark(q)'
    OBVIOUS
  <2>1. excused \/ \E q \in Requests : Mark(q)
    BY Refusal DEF ChargeInv
  <2>2. copy' # NoCopy
    BY DEF Stale
  <2> QED
    BY <1>3, <2>1, <2>2
<1>5. ExhaustedIsRefused'
  BY <1>4 DEF ExhaustedIsRefused, Stale, Mark
<1> QED
  BY <1>2, <1>5 DEF ChargeInv

\* Whatever comes of the attempt, the request is marked if its charge has left
\* too little, or the copy is excused.
LEMMA ChargeStep ==
  ASSUME ChargeInv, NEW r \in Requests, Charge(r)
  PROVE  ChargeInv'
<1>0. step[r] = "charge" /\ copy \in Int /\ {"sync", "resync", "charge", "ended"} \subseteq Step
  BY DEF Charge, ChargeInv, ShapeInv, Step
<1>1. ASSUME NEW s \in {"sync", "charge", "ended"}, r \notin claims, Take(r), StepTo(r, s),
             (s = "ended" /\ Keep) \/ (s # "ended" /\ UNCHANGED redis)
      PROVE  ChargeInv'
  <2>1. step' \in [Requests -> Step] /\ step'[r] = s /\ \A q \in Requests \ {r} : step'[q] = step[q]
    BY <1>0, <1>1, Goes DEF ChargeInv
  <2>2. copy' = copy
    BY <1>1 DEF Keep
  <2>3. ShapeInv'
    BY <1>0, <1>1, <2>1, <2>2, Takes DEF ShapeInv, ChargeInv
  <2>4. ClaimInv'
    BY <1>1, <2>1, Takes DEF ChargeInv, ClaimInv, ShapeInv
  <2>5. CASE s = "ended"
    BY <1>1, <2>2, <2>3, <2>4, <2>5, Resolved DEF Keep
  <2>6. CASE s # "ended"
    <3>1. Stale' => Mark(r)'
      <4>1. exhausted'[r] <=> Below(balance')
        BY <1>1, Takes DEF ChargeInv
      <4>2. r \in claims'
        BY <1>1, Takes DEF ChargeInv
      <4> QED
        BY <1>1, <2>1, <2>6, <4>1, <4>2 DEF Stale, Mark, Unbilled
    <3>2. ExhaustedIsRefused'
      BY <3>1 DEF ExhaustedIsRefused, Stale, Mark
    <3> QED
      BY <2>3, <2>4, <3>2 DEF ChargeInv
  <2> QED
    BY <2>5, <2>6
<1>2. ASSUME NEW s \in {"resync", "charge", "ended"}, s = "resync" => r \in claims,
             UNCHANGED <<funds, exhausted>>, StepTo(r, s),
             \/ s # "ended" /\ UNCHANGED redis
             \/ s = "ended" /\ r \in claims /\ Keep
             \/ s = "ended" /\ r \notin claims /\ UNCHANGED redis
      PROVE  ChargeInv'
  <2>1. copy' = copy /\ (Stale' => Stale) /\ (excused /\ Stale' => excused')
    <3>1. copy' = copy /\ balance' = balance
      BY <1>2 DEF Keep
    <3>2. Stale' => Stale /\ copy # NoCopy
      BY <3>1 DEF Stale
    <3>3. excused /\ copy # NoCopy => excused'
      BY <1>2 DEF Keep
    <3> QED
      BY <3>1, <3>2, <3>3
  <2>2. step'[r] = s
    BY <1>0, <1>2, Goes DEF ChargeInv
  <2>3. Mark(r) => Mark(r)' \/ (copy' # NoCopy => excused')
    BY <1>2, <2>1, <2>2 DEF Mark, Unbilled, Keep
  <2> QED
    BY <1>0, <1>2, <2>1, <2>3, AfterMove
<1>3. CASE r \notin claims /\ Take(r) /\ StepTo(r, "sync") /\ UNCHANGED redis
  BY <1>1, <1>3
<1>4. CASE r \in claims /\ UNCHANGED <<funds, exhausted>> /\ StepTo(r, "resync") /\ UNCHANGED redis
  BY <1>2, <1>4
<1>5. CASE /\ UNCHANGED <<funds, exhausted>> \/ (r \notin claims /\ LosesAnswer(r))
           /\ \/ StepTo(r, "charge") /\ UNCHANGED redis
              \/ StepTo(r, "ended") /\ (IF r \in claims' THEN Keep ELSE UNCHANGED redis)
  <2>1. CASE UNCHANGED <<funds, exhausted>>
    BY <1>2, <1>5, <2>1
  <2>2. CASE r \notin claims /\ Take(r)
    BY <1>1, <1>5, <2>2, Takes DEF ChargeInv
  <2> QED
    BY <1>5, <2>1, <2>2 DEF LosesAnswer
<1> QED
  BY <1>3, <1>4, <1>5 DEF Charge

\* The copy is deleted, loses the price, or will lose it.
LEMMA SyncStep ==
  ASSUME ChargeInv, NEW r \in Requests, Sync(r) \/ Resync(r)
  PROVE  ChargeInv'
<1>0. /\ r \in claims /\ step[r] \in {"sync", "resync"} /\ "billed" \in Step
      /\ StepTo(r, "billed") /\ UNCHANGED <<balance, claims, charged, exhausted>>
      /\ copy \in Int /\ balance \in Int
  BY DEF Sync, Resync, ChargeInv, ClaimInv, ShapeInv, Step
<1>1. CASE DeleteOrFail
  <2>1. copy' \in {copy, NoCopy} /\ (copy' # NoCopy => excused')
    BY <1>1, Excuse
  <2> QED
    BY <1>0, <2>1, Amounts, AfterMove DEF Stale
<1>2. CASE step[r] = "sync" /\ ~exhausted[r] /\ QueueDeduct(At[r])
  <2>1. copy' \in Int /\ copy' <= copy /\ excused' = excused /\ (copy' # NoCopy => copy # NoCopy)
    BY <1>0, <1>2, Deduction DEF QueueDeduct
  <2>2. Stale' => Stale
    BY <1>0, <2>1, BelowIsMonotone DEF Stale
  <2>3. ~Mark(r)
    BY <1>2 DEF Mark
  <2> QED
    BY <1>0, <2>1, <2>2, <2>3, AfterMove
<1> QED
  BY <1>1, <1>2 DEF Sync, Resync

\* What else happens to balance and copy.
LEMMA FundsSteps ==
  ASSUME ChargeInv,
         \/ \E i \in Instances : ResetTimeout(i) \/ \E t \in Task : RunTask(i, t)
         \/ Expire \/ Credit \/ Tell \/ Debit
  PROVE  ChargeInv'
<1>0. balance \in Int /\ copy \in Int /\ NoCopy \in Int
  BY Amounts DEF ChargeInv, ShapeInv
<1>1. UNCHANGED <<claims, charged, step, exhausted>>
  BY DEF ResetTimeout, RunTask, Expire, Credit, Tell, Debit
<1>2. MovesBefore
  BY <1>1, RequestRests
<1>3. ASSUME Delete, UNCHANGED balance PROVE ChargeInv'
  <2>1. copy' = NoCopy
    BY <1>3 DEF Delete
  <2> QED
    BY <1>0, <1>2, <1>3, <2>1, NoWorse DEF Stale
<1>4. CASE UNCHANGED <<balance, redis>>
  BY <1>2, <1>4, FundsStay
<1>5. ASSUME NEW i \in Instances, NEW t \in Task, RunTask(i, t) PROVE ChargeInv'
  <2>1. CASE t.kind = "set" /\ copy' = t.amount /\ excused' = Below(balance) /\ UNCHANGED balance
    <3>1. t.amount \in Int
      BY <2>1, Amounts DEF Task, Deduct
    <3> QED
      BY <1>0, <1>2, <2>1, <3>1, NoWorse DEF Stale
  <2>2. CASE DeductCopy /\ UNCHANGED balance
    <3>1. copy' \in Int /\ copy' <= copy /\ excused' = excused /\ (copy' # NoCopy => copy # NoCopy)
      BY <1>0, <2>2, Deduction
    <3>2. Stale' => Stale
      BY <1>0, <2>2, <3>1, BelowIsMonotone DEF Stale
    <3> QED
      BY <1>0, <1>2, <2>2, <3>1, <3>2, NoWorse
  <2> QED
    BY <1>4, <1>5, <2>1, <2>2 DEF RunTask
<1>6. CASE Credit
  <2>1. balance' = balance + 1 /\ UNCHANGED redis
    BY <1>6 DEF Credit
  <2>2. Stale' => Stale
    BY <1>0, <2>1, BelowIsMonotone DEF Stale
  <2> QED
    BY <1>0, <1>2, <2>1, <2>2, NoWorse
<1>7. CASE Debit
  <2>1. balance' = balance - 1 /\ UNCHANGED copy
        /\ (IF Below(balance') THEN excused' = (copy # NoCopy) ELSE UNCHANGED redis)
    BY <1>7 DEF Debit, Keep
  <2>2. Stale' => excused'
    BY <2>1 DEF Stale
  <2> QED
    BY <1>0, <1>2, <2>1, <2>2, NoWorse
<1> QED
  BY <1>3, <1>4, <1>5, <1>6, <1>7 DEF ResetTimeout, Expire, Tell

\* A process that dies with a charge of which the copy has not heard leaves it
\* excused; the marks of other processes stay.
LEMMA CrashStep ==
  ASSUME ChargeInv, NEW i \in Instances, Crash(i)
  PROVE  ChargeInv'
<1> DEFINE here == {r \in Requests : At[r] = i}
<1>0. step \in [Requests -> Step] /\ "refused" \in Step /\ "ended" \in Step
  BY DEF ChargeInv, ShapeInv, Step
<1>1. UNCHANGED <<balance, claims, charged, exhausted>> /\ UNCHANGED copy
  BY DEF Crash, Keep
<1>2. /\ step' \in [Requests -> Step]
      /\ \A r \in Requests : step'[r] = step[r] \/ (r \in here /\ step'[r] \in {"refused", "ended"})
  <2> DEFINE after(r) ==
        CASE r \in here /\ step[r] \in {"look", "load", "wait", "store", "judge", "failed"} -> "refused"
          [] r \in here /\ step[r] \in {"serve", "charge", "sync", "resync"} -> "ended"
          [] OTHER -> step[r]
  <2>1. step' = [r \in Requests |-> after(r)]
    BY DEF Crash
  <2>2. ASSUME NEW r \in Requests
        PROVE  after(r) = step[r] \/ (r \in here /\ after(r) \in {"refused", "ended"})
    <3>1. CASE r \notin here
      BY <3>1
    <3>2. CASE r \in here /\ step[r] \in {"look", "load", "wait", "store", "judge", "failed"}
      BY <3>2
    <3>3. CASE r \in here /\ step[r] \in {"serve", "charge", "sync", "resync"}
      BY <3>3
    <3>4. CASE /\ r \in here
               /\ step[r] \notin {"look", "load", "wait", "store", "judge", "failed"}
               /\ step[r] \notin {"serve", "charge", "sync", "resync"}
      BY <3>4
    <3> HIDE DEF here, after
    <3> QED
      BY <3>1, <3>2, <3>3, <3>4, Zenon
  <2> HIDE DEF after
  <2> QED
    BY <1>0, <2>1, <2>2
<1>3. ShapeInv' /\ ClaimInv'
  BY <1>1, <1>2 DEF ChargeInv, ShapeInv, ClaimInv
<1>4. CASE \E r \in here : Unbilled(r)
  <2>1. Keep
    BY <1>4 DEF Crash
  <2> QED
    BY <1>1, <1>3, <2>1, Resolved DEF Keep
<1>5. CASE ~\E r \in here : Unbilled(r)
  <2>1. UNCHANGED redis
    BY <1>5 DEF Crash
  <2>2. \A r \in Requests : Mark(r) => Mark(r)'
    BY <1>1, <1>2, <1>5 DEF Mark, Unbilled
  <2>3. Stale' => excused' \/ \E r \in Requests : Mark(r)'
    <3>1. Stale' => Stale
      BY <1>1, <2>1 DEF Stale
    <3>2. Stale => excused \/ \E r \in Requests : Mark(r)
      BY Refusal DEF ChargeInv
    <3> QED
      BY <2>1, <2>2, <3>1, <3>2
  <2>4. ExhaustedIsRefused'
    BY <2>3 DEF ExhaustedIsRefused, Stale, Mark
  <2> QED
    BY <1>3, <2>4 DEF ChargeInv
<1> QED
  BY <1>4, <1>5

-----------------------------------------------------------------------------
(* The theorems. *)

\* The invariant holds in every reachable state.
THEOREM ChargeInvariance == BillingSpec => []ChargeInv
<1>1. ChargeInv /\ [BillingNext]_billingVars => ChargeInv'
  <2> SUFFICES ASSUME ChargeInv, [BillingNext]_billingVars PROVE ChargeInv'
    OBVIOUS
  <2>1. CASE UNCHANGED billingVars
    BY <2>1, RequestRests, FundsStay DEF billingVars
  <2>2. CASE BillingNext
    BY <2>2, BeforeSteps, ChargeStep, SyncStep, FundsSteps, CrashStep DEF BillingNext
  <2> QED
    BY <2>1, <2>2
<1>2. QED
  BY <1>1, InitCharge, PTL DEF BillingSpec

\* A request is charged once however often an attempt fails or its answer is
\* lost, and one that ends as billed has been charged (retryUsageBilling).
THEOREM IsChargedOnce == BillingSpec => []ChargedOnce
<1>1. ChargeInv => ChargedOnce
  BY DEF ChargeInv, ClaimInv, ChargedOnce
<1>2. QED
  BY <1>1, ChargeInvariance, PTL

\* In whatever order the tasks run, a used-up balance is not admitted by an
\* older copy, but for the excuses (syncBalanceCacheAfterDeduction).
THEOREM IsRefused == BillingSpec => []ExhaustedIsRefused
<1>1. ChargeInv => ExhaustedIsRefused
  BY DEF ChargeInv
<1>2. QED
  BY <1>1, ChargeInvariance, PTL
================================================================================
