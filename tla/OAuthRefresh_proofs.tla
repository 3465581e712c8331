-------------------------- MODULE OAuthRefresh_proofs --------------------------
(***************************************************************************)
(* Proofs about OAuthRefresh, for any number of processes and workers and  *)
(* any number of faults.                                                   *)
(*                                                                         *)
(* Refresh tokens that do not rotate stay accepted until they are all      *)
(* withdrawn.  One that rotates belongs to one document, so whoever spends *)
(* the account's token has its successor; and what was refused once was    *)
(* spent or withdrawn, and is refused ever after.                          *)
(***************************************************************************)
EXTENDS OAuthRefresh, TLAPS

USE DEF kind, account, provider, worker, admin

-----------------------------------------------------------------------------
(* Types. *)

LEMMA InitTypeOK == Init => TypeOK
<1> SUFFICES ASSUME Init PROVE TypeOK
  OBVIOUS
<1>1. First \in Doc
  BY DEF First, Doc
<1>2. edit \in [step : {"idle", "call", "update", "write", "clear"},
               op : {"edit", "refresh", "authorize"},
               base : Doc, doc : Doc, status : Statuses]
  BY <1>1 DEF Init, NoEdit, Statuses
<1>3. cred \in Doc /\ got \in [Workers -> Doc] /\ new \in [Workers -> Doc]
  BY <1>1 DEF Init
<1>4. live \subseteq 1..issued /\ issued \in Nat \ {0} /\ aged \subseteq 1..issued
  BY DEF Init
<1>5. requests \in 0..MaxRequests /\ edits \in 0..MaxEdits /\ faults \in 0..MaxFaults
      /\ attempt \in [Workers -> 1..MaxAttempts]
  BY BoundsAssumption DEF Init
<1> QED
  BY <1>2, <1>3, <1>4, <1>5 DEF Init, TypeOK, Statuses, Steps

LEMMA FaultType == ASSUME TypeOK, UNCHANGED faults \/ Fault PROVE faults' \in 0..MaxFaults
  BY BoundsAssumption DEF TypeOK, Fault

LEMMA GotoType ==
  ASSUME TypeOK, NEW w \in Workers, NEW s \in Steps, Goto(w, s)
  PROVE  /\ pc' \in [Workers -> Steps] /\ pc'[w] = s
         /\ \A v \in Workers \ {w} : pc'[v] = pc[v]
  BY DEF TypeOK, Goto

LEMMA LeaveType ==
  ASSUME TypeOK, NEW w \in Workers, NEW o \in {"done", "retry", "refused"}, Leave(w, o)
  PROVE  /\ pc' \in [Workers -> Steps] /\ pc'[w] = "release"
         /\ outcome' \in [Workers -> {"done", "retry", "refused"}] /\ outcome'[w] = o
         /\ \A v \in Workers \ {w} : pc'[v] = pc[v] /\ outcome'[v] = outcome[v]
  BY DEF TypeOK, Leave, Goto, Steps

\* What the provider issues, and what becomes of the other tokens.
LEMMA GrantType ==
  ASSUME TypeOK, NEW d \in Doc, Grant(d)
  PROVE  /\ Issue(d) \in Doc /\ Issue(d).n = issued + 1 /\ Issue(d).from = d.n
         /\ Issue(d).token = (IF rotates THEN issued + 1 ELSE d.token)
         /\ issued' = issued + 1 /\ issued' \in Nat \ {0}
         /\ live' \subseteq 1..issued' /\ 1..issued \subseteq 1..issued'
         /\ d.token \in live /\ Issue(d).token \in live' /\ Issue(d).token \in 1..issued'
         /\ \A t \in 1..issued : t \in live' <=> t \in live /\ (rotates => t # d.token)
<1>1. issued \in Nat \ {0} /\ live \subseteq 1..issued /\ d.n \in Nat /\ d.token \in Nat /\ d.rev \in Nat
      /\ rotates \in BOOLEAN /\ d.token \in live
  BY DEF TypeOK, Doc, Grant
<1>2. Issue(d) = [n |-> issued + 1, from |-> d.n, rev |-> d.rev,
                  token |-> IF rotates THEN issued + 1 ELSE d.token]
  BY DEF Issue
<1>3. issued' = issued + 1 /\ live' = (live \ {d.token}) \cup {Issue(d).token}
  BY DEF Grant
<1>4. Issue(d) \in Doc /\ Issue(d).n = issued + 1 /\ Issue(d).from = d.n
      /\ Issue(d).token = (IF rotates THEN issued + 1 ELSE d.token)
  BY <1>1, <1>2 DEF Doc
<1>5. issued' \in Nat \ {0} /\ 1..issued \subseteq 1..issued' /\ issued + 1 \in 1..issued'
      /\ issued + 1 \notin 1..issued
  BY <1>1, <1>3
<1>6. live' \subseteq 1..issued'
  BY <1>1, <1>3, <1>4, <1>5
<1>7. \A t \in 1..issued : t \in live' <=> t \in live /\ (rotates => t # d.token)
  BY <1>1, <1>3, <1>4, <1>5
<1> QED
  BY <1>1, <1>3, <1>4, <1>5, <1>6, <1>7

LEMMA EditType ==
  ASSUME TypeOK
  PROVE  /\ NoEdit \in [step : {"idle", "call", "update", "write", "clear"},
                        op : {"edit", "refresh", "authorize"},
                        base : Doc, doc : Doc, status : Statuses]
         /\ edit.base \in Doc /\ edit.doc \in Doc /\ edit.status \in Statuses
         /\ NoEdit.step = "idle" /\ NoEdit.op = "edit" /\ NoEdit.base = First /\ NoEdit.doc = First
         /\ First \in Doc /\ First.n = 1 /\ First.token = 1
         /\ \A d \in Doc : \A e \in Edited(d) : e \in Doc /\ e.n = d.n /\ e.token = d.token
<1>1. /\ First \in Doc /\ First.n = 1 /\ First.token = 1
      /\ NoEdit.step = "idle" /\ NoEdit.op = "edit" /\ NoEdit.base = First /\ NoEdit.doc = First
  BY DEF NoEdit, First, Doc
<1>2. NoEdit \in [step : {"idle", "call", "update", "write", "clear"},
                 op : {"edit", "refresh", "authorize"},
                 base : Doc, doc : Doc, status : Statuses]
  BY <1>1 DEF NoEdit, Statuses
<1>3. edit.base \in Doc /\ edit.doc \in Doc /\ edit.status \in Statuses
  BY DEF TypeOK
<1>4. ASSUME NEW d \in Doc, NEW e \in Edited(d)
      PROVE  e \in Doc /\ e.n = d.n /\ e.token = d.token
  <2>1. d.rev + 1 \in Nat
    BY DEF Doc
  <2>2. CASE e = d
    BY <2>2
  <2>3. CASE e = [d EXCEPT !.rev = @ + 1]
    BY <2>1, <2>3 DEF Doc
  <2> QED
    BY <1>4, <2>2, <2>3 DEF Edited
<1> QED
  BY <1>1, <1>2, <1>3, <1>4

Edits ==
  [step : {"idle", "call", "update", "write", "clear"},
   op : {"edit", "refresh", "authorize"},
   base : Doc, doc : Doc, status : Statuses]

\* An administrator's request, field by field.
LEMMA EditFields ==
  /\ \A e \in Edits : /\ e = [step |-> e.step, op |-> e.op, base |-> e.base, doc |-> e.doc,
                             status |-> e.status]
                      /\ e.step \in {"idle", "call", "update", "write", "clear"}
                      /\ e.op \in {"edit", "refresh", "authorize"}
                      /\ e.base \in Doc /\ e.doc \in Doc /\ e.status \in Statuses
  /\ \A s \in {"idle", "call", "update", "write", "clear"} :
       \A op \in {"edit", "refresh", "authorize"} :
         \A b \in Doc : \A d \in Doc : \A st \in Statuses :
           [step |-> s, op |-> op, base |-> b, doc |-> d, status |-> st] \in Edits
  BY DEF Edits

LEMMA NextTypeOK == ASSUME TypeOK, DocInv, [Next]_vars PROVE TypeOK'
<1> USE DEF TypeOK
<1>0. cred.n \in 1..issued
  BY DEF DocInv, Docs
<1>1. CASE Age
  BY <1>0, <1>1 DEF Age
<1>2. CASE Revoke
  BY <1>2, FaultType DEF Revoke
<1>3. CASE OrphanExpires
  BY <1>3 DEF OrphanExpires
<1>4. ASSUME NEW w \in Workers, Start(w) PROVE TypeOK'
  <2>1. requests' \in 0..MaxRequests
    BY <1>4, BoundsAssumption DEF Start
  <2>2. pc' \in [Workers -> Steps] /\ got' \in [Workers -> Doc]
        /\ attempt' \in [Workers -> 1..MaxAttempts]
    BY <1>4, BoundsAssumption DEF Start, Goto, Steps
  <2> QED
    BY <1>4, <2>1, <2>2 DEF Start
<1>5. ASSUME NEW w \in Workers, AcquireLocks(w) PROVE TypeOK'
  <2>1. faults' \in 0..MaxFaults
    BY <1>5, FaultType DEF AcquireLocks, TakeRedisLock
  <2>2. pc' \in [Workers -> Steps] /\ key' \in BOOLEAN
        /\ hold' \in [Workers -> {"none", "lock", "lapsed", "free"}]
    BY <1>5 DEF AcquireLocks, TakeRedisLock, Goto, Steps
  <2> QED
    BY <1>5, <2>1, <2>2 DEF AcquireLocks
<1>6. ASSUME NEW w \in Workers, ReadAccount(w) PROVE TypeOK'
  <2>1. faults' \in 0..MaxFaults
    BY <1>6, FaultType DEF ReadAccount
  <2>2. pc' \in [Workers -> Steps] /\ got' \in [Workers -> Doc]
        /\ outcome' \in [Workers -> {"done", "retry", "refused"}]
    BY <1>6 DEF ReadAccount, Leave, Goto, Steps
  <2> QED
    BY <1>6, <2>1, <2>2 DEF ReadAccount
<1>7. ASSUME NEW w \in Workers, CallProvider(w) PROVE TypeOK'
  <2>1. faults' \in 0..MaxFaults
    BY <1>7, FaultType DEF CallProvider
  <2>2. pc' \in [Workers -> Steps] /\ outcome' \in [Workers -> {"done", "retry", "refused"}]
    BY <1>7 DEF CallProvider, Leave, Goto, Steps
  <2>3. /\ issued' \in Nat \ {0} /\ live' \subseteq 1..issued' /\ 1..issued \subseteq 1..issued'
        /\ new' \in [Workers -> Doc]
    <3>1. got[w] \in Doc
      OBVIOUS
    <3>2. CASE Grant(got[w])
      <4>1. /\ issued' \in Nat \ {0} /\ live' \subseteq 1..issued' /\ 1..issued \subseteq 1..issued'
            /\ Issue(got[w]) \in Doc
        BY <3>1, <3>2, GrantType
      <4> QED
        BY <1>7, <4>1 DEF CallProvider
    <3>3. CASE ~Grant(got[w])
      BY <1>7, <3>3 DEF CallProvider
    <3> QED
      BY <3>2, <3>3
  <2>4. lost' \in BOOLEAN
    BY <1>7 DEF CallProvider
  <2> QED
    BY <1>7, <2>1, <2>2, <2>3, <2>4 DEF CallProvider
<1>8. ASSUME NEW w \in Workers, Recover(w) PROVE TypeOK'
  <2>1. faults' \in 0..MaxFaults
    BY <1>8, FaultType DEF Recover
  <2>2. pc' \in [Workers -> Steps] /\ outcome' \in [Workers -> {"done", "retry", "refused"}]
    BY <1>8 DEF Recover, Leave, Goto, Steps
  <2> QED
    BY <1>8, <2>1, <2>2 DEF Recover
<1>9. ASSUME NEW w \in Workers, SaveCredentials(w) PROVE TypeOK'
  <2>1. faults' \in 0..MaxFaults
    BY <1>9, FaultType DEF SaveCredentials
  <2>2. pc' \in [Workers -> Steps] /\ outcome' \in [Workers -> {"done", "retry", "refused"}]
    BY <1>9 DEF SaveCredentials, Leave, Goto, Steps
  <2>3. CASE Store(w)
    <3>1. cred' \in {new[w], cred} /\ new[w] \in Doc /\ cred \in Doc
      BY <2>3 DEF Store
    <3>2. lost' \in BOOLEAN
      BY <2>3 DEF Store
    <3> QED
      BY <1>9, <2>1, <2>2, <3>1, <3>2 DEF SaveCredentials
  <2>4. CASE lost' = TRUE /\ UNCHANGED cred
    BY <1>9, <2>1, <2>2, <2>4 DEF SaveCredentials
  <2> QED
    BY <1>9, <2>3, <2>4 DEF SaveCredentials
<1>10. ASSUME NEW w \in Workers, Release(w) PROVE TypeOK'
  <2>1. faults' \in 0..MaxFaults
    BY <1>10, FaultType DEF Release, ReleaseLock
  <2>2. pc' \in [Workers -> Steps] /\ outcome' \in [Workers -> {"done", "retry", "refused"}]
    BY <1>10 DEF Release, Goto, Steps
  <2>3. key' \in BOOLEAN /\ hold' \in [Workers -> {"none", "lock", "lapsed", "free"}]
    BY <1>10 DEF Release, ReleaseLock
  <2>4. attempt' \in [Workers -> 1..MaxAttempts]
    BY <1>10, BoundsAssumption DEF Release
  <2> QED
    BY <1>10, <2>1, <2>2, <2>3, <2>4 DEF Release
<1>11. ASSUME NEW w \in Workers, Block(w) PROVE TypeOK'
  <2>1. faults' \in 0..MaxFaults
    BY <1>11, FaultType DEF Block
  <2>2. pc' \in [Workers -> Steps] /\ status' \in Statuses
    BY <1>11 DEF Block, SetError, Goto, Steps, Statuses
  <2> QED
    BY <1>11, <2>1, <2>2 DEF Block
<1>12. ASSUME NEW w \in Workers, LockLapses(w) PROVE TypeOK'
  <2>1. faults' \in 0..MaxFaults
    BY <1>12, FaultType DEF LockLapses
  <2> QED
    BY <1>12, <2>1 DEF LockLapses
<1>13. ASSUME NEW i, Crash(i) PROVE TypeOK'
  <2>1. faults' \in 0..MaxFaults
    BY <1>13, FaultType DEF Crash
  <2>2. pc' \in [Workers -> Steps] /\ hold' \in [Workers -> {"none", "lock", "lapsed", "free"}]
    BY <1>13 DEF Crash, Steps
  <2>3. lost' \in BOOLEAN
    BY <1>13, Zenon DEF Crash
  <2> QED
    BY <1>13, <2>1, <2>2, <2>3 DEF Crash
<1>14. ASSUME NEW op \in {"edit", "refresh", "authorize"}, Begin(op) PROVE TypeOK'
  <2>1. edits' \in 0..MaxEdits
    BY <1>14, BoundsAssumption DEF Begin
  <2>2. CASE op = "edit"
    <3>1. PICK d \in Edited(cred) :
            edit' = [step |-> "write", op |-> op, base |-> cred, doc |-> d, status |-> status]
      BY <1>14, <2>2 DEF Begin
    <3>2. d \in Doc
      BY EditType
    <3> QED
      BY <1>14, <2>1, <2>2, <3>1, <3>2 DEF Begin
  <2>3. CASE op = "refresh"
    <3>1. edit' = [NoEdit EXCEPT !.step = "call", !.op = op, !.base = cred] /\ UNCHANGED <<provider, lost>>
      BY <1>14, <2>3 DEF Begin
    <3>2. edit' = [step |-> "call", op |-> op, base |-> cred, doc |-> First, status |-> "active"]
      BY <3>1 DEF NoEdit
    <3>3. edit' \in Edits
      BY <1>14, <3>2, EditFields, EditType DEF Statuses
    <3> QED
      BY <1>14, <2>1, <3>1, <3>3 DEF Begin, Edits
  <2>4. CASE op = "authorize"
    <3>1. /\ issued' \in Nat \ {0} /\ live' \subseteq 1..issued' /\ 1..issued \subseteq 1..issued'
          /\ lost' \in BOOLEAN
      <4>1. /\ issued' = issued + 1 /\ live' \subseteq live \cup {issued'}
            /\ lost' \in {lost, TRUE}
        BY <1>14, <2>4 DEF Begin
      <4>2. issued' \in Nat \ {0} /\ 1..issued \subseteq 1..issued' /\ issued' \in 1..issued'
        BY <4>1
      <4> QED
        BY <4>1, <4>2
    <3>2. [n |-> issued', from |-> 0, token |-> issued', rev |-> 0] \in Doc
      BY <3>1 DEF Doc
    <3>3. edit' \in Edits
      <4>1. edit' = [NoEdit EXCEPT !.step = "update", !.op = op,
                       !.doc = [n |-> issued', from |-> 0, token |-> issued', rev |-> 0]]
        BY <1>14, <2>4 DEF Begin
      <4>2. PICK d \in Doc : d = [n |-> issued', from |-> 0, token |-> issued', rev |-> 0]
        BY <3>2
      <4>3. edit' = [step |-> "update", op |-> op, base |-> First, doc |-> d, status |-> "active"]
        BY <4>1, <4>2 DEF NoEdit
      <4> QED
        BY <1>14, <4>3, EditFields, EditType DEF Statuses
    <3> QED
      BY <1>14, <2>1, <2>4, <3>1, <3>3 DEF Begin, Edits
  <2> QED
    BY <2>2, <2>3, <2>4
<1>15. CASE AdminCall
  <2>1. edit.base \in Doc
    BY EditType
  <2>2. /\ issued' \in Nat \ {0} /\ live' \subseteq 1..issued' /\ 1..issued \subseteq 1..issued'
        /\ edit' \in [step : {"idle", "call", "update", "write", "clear"},
                      op : {"edit", "refresh", "authorize"},
                      base : Doc, doc : Doc, status : Statuses]
    <3>1. CASE Grant(edit.base) /\ edit' = [edit EXCEPT !.step = "update", !.doc = Issue(edit.base)]
      <4>1. /\ issued' \in Nat \ {0} /\ live' \subseteq 1..issued' /\ 1..issued \subseteq 1..issued'
            /\ Issue(edit.base) \in Doc
        BY <2>1, <3>1, GrantType
      <4>2. PICK d \in Doc : d = Issue(edit.base)
        BY <4>1
      <4>3. edit' = [step |-> "update", op |-> edit.op, base |-> edit.base, doc |-> d,
                     status |-> edit.status] /\ edit \in Edits
        BY <3>1, <4>2 DEF Edits
      <4>4. edit' \in Edits
        BY <4>3, EditFields
      <4> QED
        BY <4>1, <4>4 DEF Edits
    <3>2. CASE Stop /\ UNCHANGED provider
      <4>1. edit' = NoEdit
        BY <3>2 DEF Stop
      <4>2. edit' \in [step : {"idle", "call", "update", "write", "clear"},
                       op : {"edit", "refresh", "authorize"},
                       base : Doc, doc : Doc, status : Statuses]
        BY <4>1, EditType
      <4> QED
        BY <3>2, <4>2 DEF provider
    <3> QED
      BY <1>15, <3>1, <3>2 DEF AdminCall
  <2> QED
    BY <1>15, <2>2 DEF AdminCall
<1>16. CASE AdminUpdate
  BY <1>16 DEF AdminUpdate
<1>17. CASE AdminWrite
  <2>1. cred' \in Doc /\ status' \in Statuses /\ lost' \in BOOLEAN
    BY <1>17, EditType DEF AdminWrite
  <2>2. edit' \in [step : {"idle", "call", "update", "write", "clear"},
                   op : {"edit", "refresh", "authorize"},
                   base : Doc, doc : Doc, status : Statuses]
    BY <1>17, EditType DEF AdminWrite, Stop
  <2> QED
    BY <1>17, <2>1, <2>2 DEF AdminWrite
<1>18. CASE AdminClear
  <2>1. faults' \in 0..MaxFaults
    BY <1>18, FaultType DEF AdminClear
  <2> QED
    BY <1>18, <2>1, EditType DEF AdminClear, Stop, Statuses
<1>19. CASE AdminDies
  <2>1. faults' \in 0..MaxFaults
    BY <1>19, FaultType DEF AdminDies
  <2> QED
    BY <1>19, <2>1, EditType DEF AdminDies, Stop
<1>20. CASE UNCHANGED vars
  BY <1>20 DEF vars
<1> QED
  BY <1>1, <1>2, <1>3, <1>4, <1>5, <1>6, <1>7, <1>8, <1>9, <1>10, <1>11, <1>12, <1>13,
     <1>14, <1>15, <1>16, <1>17, <1>18, <1>19, <1>20 DEF Next, Refresh

-----------------------------------------------------------------------------
(* The locks. *)

\* A step of one worker that gives it nothing of the lock.
LEMMA GivesNoLock ==
  ASSUME TypeOK, HoldInv, NEW w \in Workers, UNCHANGED <<key, hold>>,
         \A v \in Workers \ {w} : pc'[v] = pc[v],
         pc[w] \in {"idle", "lock", "block"} <=> pc'[w] \in {"idle", "lock", "block"}
  PROVE  HoldInv'
  BY DEF HoldInv

LEMMA NextHoldInv == ASSUME TypeOK, HoldInv, [Next]_vars PROVE HoldInv'
<1>0. pc \in [Workers -> Steps] /\ hold \in [Workers -> {"none", "lock", "lapsed", "free"}]
  BY DEF TypeOK
<1>1. ASSUME UNCHANGED <<key, hold, pc>> PROVE HoldInv'
  BY <1>1 DEF HoldInv
<1>2. CASE OrphanExpires
  BY <1>2 DEF OrphanExpires, HoldInv
<1>3. ASSUME NEW w \in Workers, Start(w) PROVE HoldInv'
  BY <1>0, <1>3, GivesNoLock DEF Start, Goto
<1>4. ASSUME NEW w \in Workers, AcquireLocks(w) PROVE HoldInv'
  <2>1. hold[w] = "none" /\ \A v \in Workers : At[v] = At[w] => hold[v] = "none"
    BY <1>4 DEF AcquireLocks, LocalLockFree
  <2>2. CASE key /\ Goto(w, "idle") /\ UNCHANGED <<key, hold, faults>>
    BY <1>0, <1>4, <2>2, GivesNoLock DEF AcquireLocks, Goto
  <2>3. CASE ~key /\ key' = TRUE /\ hold' = [hold EXCEPT ![w] = "lock"] /\ Goto(w, "read")
    <3>1. /\ hold'[w] = "lock" /\ pc'[w] = "read"
          /\ \A v \in Workers \ {w} : hold'[v] = hold[v] /\ pc'[v] = pc[v]
      BY <1>0, <2>3 DEF Goto
    <3>2. \A v \in Workers : hold[v] # "lock"
      BY <2>3 DEF HoldInv
    <3> QED
      BY <2>1, <2>3, <3>1, <3>2 DEF HoldInv
  <2>4. CASE key' \in {key, TRUE} /\ hold' = [hold EXCEPT ![w] = "free"] /\ Goto(w, "read")
    <3>1. /\ hold'[w] = "free" /\ pc'[w] = "read"
          /\ \A v \in Workers \ {w} : hold'[v] = hold[v] /\ pc'[v] = pc[v]
      BY <1>0, <2>4 DEF Goto
    <3>2. \A v \in Workers : hold'[v] = "lock" => hold[v] = "lock" /\ key'
      <4>1. key => key'
        BY <2>4, Zenon
      <4> QED
        BY <3>1, <4>1 DEF HoldInv
    <3>3. \A v \in Workers \ {w} : At[v] = At[w] => hold'[v] = "none"
      BY <2>1, <3>1
    <3> QED
      BY <3>1, <3>2, <3>3 DEF HoldInv
  <2> QED
    BY <1>4, <2>2, <2>3, <2>4 DEF AcquireLocks, TakeRedisLock
<1>5. ASSUME NEW w \in Workers, ReadAccount(w) \/ CallProvider(w) \/ Recover(w) \/ SaveCredentials(w)
      PROVE  HoldInv'
  <2>1. /\ pc[w] \in {"read", "call", "recover", "save"} /\ UNCHANGED <<key, hold>>
        /\ pc' \in {[pc EXCEPT ![w] = s] : s \in {"call", "save", "recover", "release"}}
    BY <1>5 DEF ReadAccount, CallProvider, Recover, SaveCredentials, Leave, Goto
  <2> QED
    BY <1>0, <2>1, GivesNoLock
<1>6. ASSUME NEW w \in Workers, Release(w) PROVE HoldInv'
  <2>1. /\ pc'[w] \in {"idle", "lock", "block"} /\ \A v \in Workers \ {w} : pc'[v] = pc[v]
    BY <1>0, <1>6 DEF Release, Goto
  <2>2. /\ hold'[w] = "none"
        /\ \A v \in Workers \ {w} :
             \/ hold'[v] = hold[v]
             \/ hold[v] = "lock" /\ hold'[v] = "lapsed"
    BY <1>0, <1>6 DEF Release, ReleaseLock
  <2>3. \A v \in Workers \ {w} : hold'[v] = "lock" => key'
    <3>1. CASE hold[w] = "lock"
      <4>1. \A v \in Workers \ {w} : hold[v] # "lock"
        BY <3>1 DEF HoldInv
      <4> QED
        BY <2>2, <4>1
    <3>2. CASE hold[w] # "lock"
      BY <1>0, <1>6, <3>2 DEF Release, ReleaseLock, HoldInv
    <3> QED
      BY <3>1, <3>2
  <2> QED
    BY <1>0, <2>1, <2>2, <2>3 DEF HoldInv
<1>7. ASSUME NEW w \in Workers, Block(w) PROVE HoldInv'
  BY <1>0, <1>7, GivesNoLock DEF Block, Goto
<1>8. ASSUME NEW w \in Workers, LockLapses(w) PROVE HoldInv'
  <2>1. hold'[w] = "lapsed" /\ \A v \in Workers \ {w} : hold'[v] = hold[v] /\ hold[v] # "lock"
    BY <1>0, <1>8 DEF LockLapses, HoldInv
  <2> QED
    BY <1>8, <2>1 DEF LockLapses, HoldInv
<1>9. ASSUME NEW i, Crash(i) PROVE HoldInv'
  <2>1. \A v \in Workers : \/ pc'[v] = "idle" /\ hold'[v] = "none"
                           \/ pc'[v] = pc[v] /\ hold'[v] = hold[v]
    BY <1>9 DEF Crash
  <2> QED
    BY <1>9, <2>1 DEF HoldInv, Crash
<1> QED
  BY <1>1, <1>2, <1>3, <1>4, <1>5, <1>6, <1>7, <1>8, <1>9
     DEF Next, Refresh, Age, Revoke, Begin, AdminCall, AdminUpdate, AdminWrite, AdminClear,
         AdminDies, vars

-----------------------------------------------------------------------------
(* The documents. *)

\* Nothing new is in use, and no number is taken back,
LEMMA SameDocs ==
  ASSUME TypeOK, DocInv, Docs' \subseteq Docs, UNCHANGED rotates,
         1..issued \subseteq 1..issued'
  PROVE  DocInv'
  BY DEF DocInv

\* or only what the provider has just issued,
LEMMA NewDoc ==
  ASSUME TypeOK, DocInv, NEW x, Docs' \subseteq Docs \cup {x}, UNCHANGED rotates,
         issued' = issued + 1,
         x.n = issued + 1, x.token \in 1..(issued + 1), rotates => x.token = issued + 1
  PROVE  DocInv'
<1>1. issued \in Nat /\ 1..issued \subseteq 1..(issued + 1) /\ issued + 1 \notin 1..issued
      /\ issued + 1 \in 1..(issued + 1)
  BY DEF TypeOK
<1>2. \A d \in Docs : d.n \in 1..issued /\ d.token \in 1..issued /\ (rotates => d.token = d.n)
                      /\ \A e \in Docs : d.n = e.n => d.token = e.token
  BY DEF DocInv
<1>3. \A d \in Docs \cup {x} : d.n \in 1..(issued + 1) /\ d.token \in 1..(issued + 1)
                               /\ (rotates => d.token = d.n)
  BY <1>1, <1>2
<1>4. \A d, e \in Docs \cup {x} : d.n = e.n => d.token = e.token
  BY <1>1, <1>2
<1> QED
  BY <1>3, <1>4 DEF DocInv

\* or what is there with another revision.
LEMMA RevisedDoc ==
  ASSUME DocInv, NEW d \in Docs, NEW x, Docs' \subseteq Docs \cup {x}, UNCHANGED <<kind, issued>>,
         x.n = d.n, x.token = d.token
  PROVE  DocInv'
  BY DEF DocInv

LEMMA InDocs ==
  /\ First \in Docs /\ cred \in Docs /\ edit.base \in Docs /\ edit.doc \in Docs
  /\ \A w \in Workers : got[w] \in Docs /\ new[w] \in Docs
  BY DEF Docs

\* What is in use after a step is in use before it, or is x.
LEMMA DocsFrom ==
  ASSUME NEW x,
         cred' \in Docs \cup {x}, edit'.base \in Docs \cup {x}, edit'.doc \in Docs \cup {x},
         \A w \in Workers : got'[w] \in Docs \cup {x} /\ new'[w] \in Docs \cup {x}
  PROVE  Docs' \subseteq Docs \cup {x}
  BY InDocs DEF Docs

LEMMA NextDocInv == ASSUME TypeOK, DocInv, [Next]_vars PROVE DocInv'
<1>0. /\ got \in [Workers -> Doc] /\ new \in [Workers -> Doc] /\ issued \in Nat \ {0}
      /\ NoEdit.base = First /\ NoEdit.doc = First
      /\ edit \in [step : {"idle", "call", "update", "write", "clear"},
                   op : {"edit", "refresh", "authorize"},
                   base : Doc, doc : Doc, status : Statuses]
      /\ First \in Docs /\ cred \in Docs /\ edit.base \in Docs /\ edit.doc \in Docs
      /\ \A w \in Workers : got[w] \in Docs /\ new[w] \in Docs
  BY InDocs, EditType DEF TypeOK
<1>1. ASSUME UNCHANGED <<kind, issued>>,
             cred' \in Docs, edit'.base \in Docs, edit'.doc \in Docs,
             \A w \in Workers : got'[w] \in Docs /\ new'[w] \in Docs
      PROVE  DocInv'
  <2>1. Docs' \subseteq Docs
    BY <1>0, <1>1, DocsFrom
  <2> QED
    BY <1>0, <1>1, <2>1, SameDocs
<1>2. ASSUME UNCHANGED <<kind, issued, cred, got, new, edit>> PROVE DocInv'
  BY <1>0, <1>1, <1>2
<1>3. ASSUME NEW x, UNCHANGED kind, issued' = issued + 1,
             x.n = issued + 1, x.token \in 1..(issued + 1), rotates => x.token = issued + 1,
             cred' \in Docs \cup {x}, edit'.base \in Docs \cup {x}, edit'.doc \in Docs \cup {x},
             \A w \in Workers : got'[w] \in Docs \cup {x} /\ new'[w] \in Docs \cup {x}
      PROVE  DocInv'
  BY <1>3, DocsFrom, NewDoc
<1>4. ASSUME NEW w \in Workers, Start(w) \/ ReadAccount(w) PROVE DocInv'
  <2>1. \A v \in Workers : got'[v] \in {got[v], cred}
    BY <1>0, <1>4 DEF Start, ReadAccount
  <2>2. UNCHANGED <<kind, issued, cred, new, edit>>
    BY <1>4 DEF Start, ReadAccount
  <2> QED
    BY <1>0, <1>1, <2>1, <2>2
<1>5. ASSUME NEW w \in Workers, CallProvider(w) PROVE DocInv'
  <2>1. CASE UNCHANGED <<provider, new>>
    BY <1>2, <1>5, <2>1 DEF CallProvider
  <2>2. CASE Grant(got[w]) /\ (UNCHANGED new \/ new' = [new EXCEPT ![w] = Issue(got[w])])
    <3>1. /\ Issue(got[w]).n = issued + 1 /\ issued' = issued + 1
          /\ Issue(got[w]).token \in 1..(issued + 1)
          /\ rotates => Issue(got[w]).token = issued + 1
      BY <1>0, <2>2, GrantType
    <3>2. UNCHANGED <<kind, cred, got, edit>>
      BY <1>5 DEF CallProvider
    <3> QED
      BY <1>0, <1>3, <2>2, <3>1, <3>2
  <2> QED
    BY <1>5, <2>1, <2>2 DEF CallProvider
<1>6. ASSUME NEW w \in Workers, SaveCredentials(w) PROVE DocInv'
  <2>1. cred' \in {cred, new[w]}
    BY <1>6 DEF SaveCredentials, Store
  <2>2. UNCHANGED <<kind, issued, got, new, edit>>
    BY <1>6 DEF SaveCredentials
  <2> QED
    BY <1>0, <1>1, <2>1, <2>2
<1>7. ASSUME NEW op \in {"edit", "refresh", "authorize"}, Begin(op) PROVE DocInv'
  <2>1. CASE op = "edit"
    <3>1. PICK d \in Edited(cred) : edit'.doc = d
      BY <1>7, <2>1 DEF Begin
    <3>2. d.n = cred.n /\ d.token = cred.token
      BY EditType DEF TypeOK
    <3>3. edit'.base = cred /\ UNCHANGED <<kind, issued, cred, got, new>>
      BY <1>7, <2>1 DEF Begin
    <3>4. Docs' \subseteq Docs \cup {d}
      BY <1>0, <3>1, <3>3, DocsFrom
    <3> QED
      BY <1>0, <3>2, <3>3, <3>4, RevisedDoc
  <2>3. CASE op = "refresh"
    <3>1. edit'.base = cred /\ edit'.doc = First /\ UNCHANGED issued
      BY <1>7, <2>3 DEF Begin, NoEdit
    <3> QED
      BY <1>0, <1>1, <1>7, <2>3, <3>1 DEF Begin
  <2>2. CASE op = "authorize"
    <3> DEFINE x == [n |-> issued', from |-> 0, token |-> issued', rev |-> 0]
    <3>1. issued' = issued + 1 /\ issued + 1 \in 1..(issued + 1)
      BY <1>0, <1>7, <2>2 DEF Begin
    <3>2. edit'.base = First /\ edit'.doc = x
      BY <1>7, <2>2 DEF Begin, NoEdit
    <3>3. x.n = issued + 1 /\ x.token = issued + 1
      BY <3>1
    <3>4. UNCHANGED <<kind, cred, got, new>>
      BY <1>7 DEF Begin
    <3> HIDE DEF x
    <3> QED
      BY <1>0, <1>3, <3>1, <3>2, <3>3, <3>4
  <2> QED
    BY <2>1, <2>2, <2>3
<1>8. CASE AdminCall
  <2>1. CASE Grant(edit.base) /\ edit' = [edit EXCEPT !.step = "update", !.doc = Issue(edit.base)]
    <3>1. /\ Issue(edit.base).n = issued + 1 /\ issued' = issued + 1
          /\ Issue(edit.base).token \in 1..(issued + 1)
          /\ rotates => Issue(edit.base).token = issued + 1
      BY <2>1, EditType, GrantType
    <3>2. edit'.base = edit.base /\ edit'.doc = Issue(edit.base)
      BY <1>0, <2>1
    <3> QED
      BY <1>0, <1>3, <1>8, <3>1, <3>2 DEF AdminCall
  <2> QED
    BY <1>0, <1>1, <1>8, <2>1 DEF AdminCall, Stop
<1>9. CASE AdminUpdate
  <2>1. edit'.base \in {edit.base, cred} /\ edit'.doc = edit.doc
    BY <1>0, <1>9 DEF AdminUpdate
  <2> QED
    BY <1>0, <1>1, <1>9, <2>1 DEF AdminUpdate
<1>10. CASE AdminWrite
  <2>1. cred' \in {cred, edit.doc}
    BY <1>10 DEF AdminWrite
  <2>2. edit'.base \in {edit.base, First} /\ edit'.doc \in {edit.doc, First}
    BY <1>0, <1>10 DEF AdminWrite, Stop
  <2> QED
    BY <1>0, <1>1, <1>10, <2>1, <2>2 DEF AdminWrite
<1>11. CASE AdminClear \/ AdminDies
  BY <1>0, <1>1, <1>11 DEF AdminClear, AdminDies, Stop
<1> QED
  BY <1>2, <1>4, <1>5, <1>6, <1>7, <1>8, <1>9, <1>10, <1>11
     DEF Next, Refresh, Age, Revoke, OrphanExpires, AcquireLocks, Recover, Release, Block,
         LockLapses, Crash, vars

-----------------------------------------------------------------------------
(* What is about to be stored. *)

\* A refresh token that rotates is spent for its own document only.
LEMMA SpendToken ==
  ASSUME TypeOK, DocInv, NEW d \in Docs, d \in Doc, Grant(d)
  PROVE  /\ \A e \in Docs : e.token \in live => e.token \in live' \/ e.n = d.n
         /\ \A e \in Docs : e.token \notin live => e.token \notin live'
         /\ \A e \in Docs : e.n # Issue(d).n
<1>1. /\ Issue(d).n = issued + 1
      /\ \A t \in 1..issued : t \in live' <=> t \in live /\ (rotates => t # d.token)
  BY GrantType
<1>2. \A e \in Docs : e.token \in 1..issued /\ e.n \in 1..issued
  BY DEF DocInv
<1>3. \A e \in Docs : rotates /\ e.token = d.token => e.n = d.n
  BY DEF DocInv
<1>4. issued \in Nat
  BY DEF TypeOK
<1> QED
  BY <1>1, <1>2, <1>3, <1>4

\* A step after which nobody has something new to store.
LEMMA CarriersKept ==
  ASSUME CarrierInv, lost => lost', live \subseteq live' \/ lost',
         \A w \in Workers : Saving(w)' =>
           Saving(w) /\ new'[w] = new[w] /\ got'[w] = got[w] /\ new[w].n # cred'.n,
         Updating' => Updating /\ edit'.doc = edit.doc /\ edit.doc.n # cred'.n,
         Updating' /\ edit'.op = "refresh" => edit.op = "refresh" /\ edit'.base = edit.base,
         edit'.op = "edit" => edit'.doc.n = edit'.base.n,
         edit'.step = "call" => edit'.op = "refresh",
         edit'.base \in {edit.base, cred, First},
         \A w \in Workers : got'[w] \in {got[w], cred}
  PROVE  CarrierInv'
<1>1. \A w \in Workers : Saving(w) => Unstored(new[w])
  BY DEF CarrierInv
<1>2. ASSUME NEW w \in Workers, Saving(w)' PROVE Unstored(new[w])'
  <2> DEFINE d == new[w]
  <2>1. new'[w] = d /\ Unstored(d) /\ d.n # cred'.n
    BY <1>1, <1>2
  <2>2. d.token \in live' \/ lost'
    BY <2>1 DEF Unstored
  <2>3. d.n \notin {First.n, cred'.n, edit'.base.n} /\ \A v \in Workers : d.n # got'[v].n
    BY <2>1 DEF Unstored
  <2> QED
    BY <2>1, <2>2, <2>3 DEF Unstored
<1>3. ASSUME Updating' PROVE Unstored(edit.doc)'
  <2> DEFINE d == edit.doc
  <2>1. edit'.doc = d /\ Unstored(d) /\ d.n # cred'.n
    BY <1>3 DEF CarrierInv
  <2>2. d.token \in live' \/ lost'
    BY <2>1 DEF Unstored
  <2>3. d.n \notin {First.n, cred'.n, edit'.base.n} /\ \A v \in Workers : d.n # got'[v].n
    BY <2>1 DEF Unstored
  <2> QED
    BY <2>1, <2>2, <2>3 DEF Unstored
<1>4. \A w \in Workers : Saving(w)' =>
        /\ new'[w].from = got'[w].n
        /\ \A v \in Workers : Saving(v)' /\ new'[v].n = new'[w].n => v = w
        /\ Updating' => edit'.doc.n # new'[w].n
  BY DEF CarrierInv
<1>5. Updating' => (edit'.op = "refresh" => edit'.doc.from = edit'.base.n)
  BY DEF CarrierInv
<1> QED
  BY <1>2, <1>3, <1>4, <1>5 DEF CarrierInv

\* A worker that obtained a document is the only one to have it.
LEMMA WorkerObtains ==
  ASSUME TypeOK, DocInv, CarrierInv, NEW w \in Workers, CallProvider(w),
         Grant(got[w]), new' = [new EXCEPT ![w] = Issue(got[w])], Goto(w, "save"), UNCHANGED lost
  PROVE  CarrierInv'
<1> DEFINE x == Issue(got[w])
<1>1. /\ got[w] \in Docs /\ got[w] \in Doc /\ cred \in Docs /\ First \in Docs
      /\ edit.base \in Docs /\ edit.doc \in Docs
      /\ \A v \in Workers : got[v] \in Docs /\ new[v] \in Docs
  BY InDocs DEF TypeOK
<1>2. /\ x.from = got[w].n /\ x.token \in live' /\ \A e \in Docs : e.n # x.n
      /\ \A e \in Docs : e.token \in live => e.token \in live' \/ e.n = got[w].n
  BY <1>1, GrantType, SpendToken
<1>3. /\ UNCHANGED <<cred, edit, got, lost>> /\ pc[w] = "call"
      /\ new'[w] = x /\ \A v \in Workers \ {w} : new'[v] = new[v] /\ pc'[v] = pc[v]
      /\ Updating' <=> Updating
  BY DEF CallProvider, TypeOK, Goto, Updating
<1> HIDE DEF x
<1>4. \A d \in Docs : Unstored(d) => d.token \in live' \/ lost'
  BY <1>1, <1>2, <1>3 DEF Unstored
<1>5. ASSUME NEW v \in Workers, v # w, Saving(v)' PROVE Unstored(new[v])'
  <2>1. Unstored(new[v]) /\ new'[v] = new[v]
    BY <1>3, <1>5 DEF CarrierInv, Saving
  <2> QED
    BY <1>1, <1>3, <1>4, <2>1 DEF Unstored
<1>6. Unstored(new[w])'
  BY <1>1, <1>2, <1>3 DEF Unstored
<1>7. Updating' => Unstored(edit.doc)'
  BY <1>1, <1>3, <1>4 DEF Unstored, CarrierInv
<1>8. \A v \in Workers : Saving(v)' => v = w \/ (v # w /\ Saving(v))
  BY <1>3 DEF Saving
<1>9. \A v \in Workers : Saving(v)' =>
        /\ new'[v].from = got'[v].n
        /\ \A u \in Workers : Saving(u)' /\ new'[u].n = new'[v].n => u = v
        /\ Updating' => edit'.doc.n # new'[v].n
  BY <1>1, <1>2, <1>3, <1>8 DEF CarrierInv
<1>10. Updating' => (edit'.op = "refresh" => edit'.doc.from = edit'.base.n)
  BY <1>3 DEF CarrierInv
<1> QED
  BY <1>3, <1>5, <1>6, <1>7, <1>9, <1>10 DEF CarrierInv

\* So is the administrator,
LEMMA AdminObtains ==
  ASSUME TypeOK, DocInv, CarrierInv, NEW x, UNCHANGED <<cred, got, new, pc>>, lost => lost',
         ~Updating, Updating', edit'.step = "update", edit'.doc = x, edit'.base \in {edit.base, First},
         edit'.op = "refresh" => x.from = edit'.base.n,
         edit'.op # "edit", \A e \in Docs : e.n # x.n, x.token \in live',
         \A w \in Workers : Saving(w) /\ new[w].token \in live => new[w].token \in live' \/ lost'
  PROVE  CarrierInv'
<1>1. /\ cred \in Docs /\ First \in Docs /\ edit.base \in Docs
      /\ \A v \in Workers : got[v] \in Docs /\ new[v] \in Docs
  BY InDocs
<1>2. \A w \in Workers : Saving(w)' <=> Saving(w)
  BY DEF Saving
<1>3. Unstored(edit.doc)'
  BY <1>1 DEF Unstored
<1>4. ASSUME NEW w \in Workers, Saving(w)' PROVE Unstored(new[w])'
  <2>1. Unstored(new[w]) /\ Saving(w)
    BY <1>2, <1>4 DEF CarrierInv
  <2> QED
    BY <1>4, <2>1 DEF Unstored
<1>5. \A w \in Workers : Saving(w)' =>
        /\ new'[w].from = got'[w].n
        /\ \A v \in Workers : Saving(v)' /\ new'[v].n = new'[w].n => v = w
        /\ edit'.doc.n # new'[w].n
  BY <1>1, <1>2 DEF CarrierInv
<1> QED
  BY <1>3, <1>4, <1>5 DEF CarrierInv

LEMMA NextCarrierInv ==
  ASSUME TypeOK, DocInv, CarrierInv, [Next]_vars PROVE CarrierInv'
<1>0. /\ pc \in [Workers -> Steps] /\ got \in [Workers -> Doc] /\ new \in [Workers -> Doc]
      /\ NoEdit.step = "idle" /\ NoEdit.op = "edit" /\ NoEdit.base = First /\ NoEdit.doc = First
      /\ edit \in [step : {"idle", "call", "update", "write", "clear"},
                   op : {"edit", "refresh", "authorize"},
                   base : Doc, doc : Doc, status : Statuses]
      /\ lost \in BOOLEAN
  BY EditType DEF TypeOK
<1>1. /\ \A w \in Workers : Saving(w) => new[w].n # cred.n
      /\ Updating => edit.doc.n # cred.n
      /\ edit.op = "edit" => edit.doc.n = edit.base.n
      /\ edit.step = "call" => edit.op = "refresh"
  BY DEF CarrierInv, Unstored
<1>2. ASSUME UNCHANGED <<cred, new, got, edit>>, \A w \in Workers : Saving(w)' => Saving(w),
             UNCHANGED <<live, lost>> \/ lost'
      PROVE  CarrierInv'
  <2>1. lost => lost'
    BY <1>2
  <2>2. live \subseteq live' \/ lost'
    BY <1>2
  <2>3. Updating' <=> Updating
    BY <1>2 DEF Updating
  <2> QED
    BY <1>1, <1>2, <2>1, <2>2, <2>3, CarriersKept
<1>3. CASE Age \/ Revoke \/ OrphanExpires
  BY <1>2, <1>3 DEF Age, Revoke, OrphanExpires, Saving
<1>4. ASSUME NEW w \in Workers, AcquireLocks(w) \/ Recover(w) \/ Release(w) \/ Block(w) PROVE CarrierInv'
  <2>1. UNCHANGED <<cred, new, got, edit, live, lost>>
    BY <1>4 DEF AcquireLocks, Recover, Release, Block
  <2>2. \A s \in Steps : Goto(w, s) /\ s # "save" => \A v \in Workers : Saving(v)' => Saving(v)
    BY <1>0 DEF Goto, Saving
  <2>3. \A v \in Workers : Saving(v)' => Saving(v)
    BY <1>4, <2>2 DEF AcquireLocks, TakeRedisLock, Recover, Release, Block, Leave, Steps
  <2> QED
    BY <1>2, <2>1, <2>3
<1>5. ASSUME NEW w \in Workers, LockLapses(w) PROVE CarrierInv'
  BY <1>2, <1>5 DEF LockLapses, Saving
<1>6. ASSUME NEW i, Crash(i) PROVE CarrierInv'
  <2>1. \A v \in Workers : Saving(v)' => Saving(v)
    BY <1>6 DEF Crash, Saving
  <2>2. lost' \/ UNCHANGED lost
    BY <1>0, <1>6, Zenon DEF Crash
  <2> QED
    BY <1>2, <1>6, <2>1, <2>2 DEF Crash
<1>7. ASSUME NEW w \in Workers, Start(w) \/ ReadAccount(w) PROVE CarrierInv'
  <2>1. UNCHANGED <<cred, new, edit, live, lost>> /\ pc[w] # "save" /\ pc'[w] # "save"
    BY <1>0, <1>7 DEF Start, ReadAccount, Leave, Goto
  <2>2. /\ \A v \in Workers \ {w} : pc'[v] = pc[v] /\ got'[v] = got[v]
        /\ got'[w] \in {got[w], cred}
    BY <1>0, <1>7 DEF Start, ReadAccount, Leave, Goto
  <2>3. Updating' <=> Updating
    BY <2>1 DEF Updating
  <2>4. \A v \in Workers : Saving(v)' => Saving(v) /\ v # w
    BY <2>1, <2>2 DEF Saving
  <2> QED
    BY <1>1, <2>1, <2>2, <2>3, <2>4, CarriersKept
<1>8. ASSUME NEW w \in Workers, CallProvider(w) PROVE CarrierInv'
  <2>1. CASE /\ Grant(got[w]) /\ new' = [new EXCEPT ![w] = Issue(got[w])] /\ Goto(w, "save")
             /\ UNCHANGED lost
    BY <1>8, <2>1, WorkerObtains
  <2>2. CASE UNCHANGED <<live, lost>> \/ lost'
    <3>1. \A s \in Steps : Goto(w, s) /\ s # "save" => \A v \in Workers : Saving(v)' => Saving(v)
      BY <1>0 DEF Goto, Saving
    <3>2. CASE (\A v \in Workers : Saving(v)' => Saving(v)) /\ UNCHANGED new
      BY <1>2, <1>8, <2>2, <3>2 DEF CallProvider
    <3> QED
      BY <1>8, <2>1, <3>1, <3>2 DEF CallProvider, Leave, Steps
  <2> QED
    BY <1>8, <2>1, <2>2 DEF CallProvider
<1>9. ASSUME NEW w \in Workers, SaveCredentials(w) PROVE CarrierInv'
  <2>1. /\ UNCHANGED <<new, got, edit, live>> /\ Saving(w) /\ pc'[w] = "release"
        /\ \A v \in Workers \ {w} : pc'[v] = pc[v]
    BY <1>0, <1>9 DEF SaveCredentials, Leave, Goto, Saving
  <2>2. cred' \in {cred, new[w]}
    BY <1>9 DEF SaveCredentials, Store
  <2>3. lost => lost'
    BY <1>0, <1>9, Zenon DEF SaveCredentials, Store
  <2>4. \A v \in Workers : Saving(v)' => Saving(v) /\ v # w
    BY <2>1 DEF Saving
  <2>5. \A v \in Workers : Saving(v) /\ v # w => new[v].n # cred'.n
    BY <1>1, <2>1, <2>2 DEF CarrierInv
  <2>6. Updating' => Updating /\ edit.doc.n # cred'.n
    BY <1>1, <2>1, <2>2 DEF CarrierInv, Updating
  <2> QED
    BY <1>1, <2>1, <2>3, <2>4, <2>5, <2>6, CarriersKept
<1>10. ASSUME NEW op \in {"edit", "refresh", "authorize"}, Begin(op) PROVE CarrierInv'
  <2>1. /\ UNCHANGED <<cred, new, got, pc>> /\ edit.step = "idle"
        /\ \A v \in Workers : Saving(v)' <=> Saving(v)
    BY <1>10 DEF Begin, Saving
  <2>2. CASE op \in {"edit", "refresh"}
    <3>1. UNCHANGED <<live, lost>> /\ edit'.base = cred /\ ~Updating'
          /\ (edit'.op = "edit" => edit'.doc.n = cred.n) /\ (edit'.step = "call" => edit'.op = "refresh")
      <4>1. CASE op = "edit"
        BY <1>10, <4>1, EditType DEF Begin, Updating, TypeOK
      <4>2. CASE op = "refresh"
        BY <1>10, <4>2 DEF Begin, Updating, NoEdit
      <4> QED
        BY <2>2, <4>1, <4>2
    <3> QED
      BY <1>1, <2>1, <3>1, CarriersKept
  <2>3. CASE op = "authorize"
    <3> DEFINE x == [n |-> issued', from |-> 0, token |-> issued', rev |-> 0]
    <3>1. edit'.base = First /\ edit'.doc = x /\ edit'.op = "authorize" /\ edit'.step = "update"
      BY <1>10, <2>3 DEF Begin, NoEdit
    <3>2. /\ issued' = issued + 1 /\ issued' \in live'
          /\ lost' \/ (live \subseteq live' /\ UNCHANGED lost)
      BY <1>10, <2>3 DEF Begin
    <3>3. x.n = issued + 1 /\ x.token \in live'
      BY <3>2
    <3>4. \A e \in Docs : e.n # issued + 1
      BY DEF DocInv, TypeOK
    <3>5. ~Updating /\ Updating'
      BY <2>1, <3>1 DEF Updating
    <3> HIDE DEF x
    <3>6. \A e \in Docs : e.n # x.n
      BY <3>3, <3>4
    <3>7. \A w \in Workers : Saving(w) /\ new[w].token \in live => new[w].token \in live' \/ lost'
      BY <3>2
    <3>8. lost => lost'
      BY <3>2
    <3> QED
      BY <2>1, <3>1, <3>3, <3>5, <3>6, <3>7, <3>8, AdminObtains
  <2> QED
    BY <2>2, <2>3
<1>11. CASE AdminCall
  <2>1. UNCHANGED <<cred, new, got, pc, lost>> /\ edit.step = "call" /\ ~Updating
        /\ \A v \in Workers : Saving(v)' <=> Saving(v)
    BY <1>11 DEF AdminCall, Saving, Updating
  <2>2. CASE UNCHANGED live /\ Stop
    <3>1. ~Updating' /\ edit'.base = First /\ edit'.doc = First /\ edit'.step = "idle"
      BY <1>0, <2>2 DEF Stop, Updating
    <3> QED
      BY <1>1, <2>1, <2>2, <3>1, CarriersKept
  <2>3. CASE Grant(edit.base) /\ edit' = [edit EXCEPT !.step = "update", !.doc = Issue(edit.base)]
    <3> DEFINE x == Issue(edit.base)
    <3>1. /\ x.from = edit.base.n /\ x.token \in live' /\ \A e \in Docs : e.n # x.n
          /\ \A e \in Docs : e.token \in live => e.token \in live' \/ e.n = edit.base.n
      BY <2>3, InDocs, EditType, GrantType, SpendToken
    <3> HIDE DEF x
    <3>2. edit'.doc = x /\ edit'.base = edit.base /\ edit'.step = "update" /\ edit'.op = edit.op
      BY <1>0, <2>3 DEF x
    <3>3. \A w \in Workers : Saving(w) /\ new[w].token \in live => new[w].token \in live' \/ lost'
      BY <3>1, InDocs DEF CarrierInv, Unstored
    <3>4. edit.op # "edit"
      BY <1>1, <2>1
    <3>5. Updating'
      BY <3>2, <3>4 DEF Updating
    <3> QED
      BY <2>1, <3>1, <3>2, <3>3, <3>4, <3>5, AdminObtains
  <2> QED
    BY <1>11, <2>2, <2>3 DEF AdminCall
<1>12. CASE AdminUpdate
  <2>1. /\ UNCHANGED <<cred, new, got, pc, live, lost>>
        /\ edit'.doc = edit.doc /\ edit'.op = edit.op /\ edit'.step = "write"
        /\ edit'.base = (IF edit.op = "authorize" THEN cred ELSE edit.base)
        /\ edit.step = "update"
    BY <1>0, <1>12 DEF AdminUpdate
  <2>2. (Updating' <=> Updating) /\ \A v \in Workers : Saving(v)' <=> Saving(v)
    BY <2>1 DEF Updating, Saving
  <2> QED
    BY <1>1, <2>1, <2>2, CarriersKept
<1>13. CASE AdminWrite
  <2>1. /\ UNCHANGED <<new, got, pc, live>>
        /\ edit'.op = "edit" => edit'.doc = edit'.base
        /\ edit'.base \in {edit.base, First} /\ edit'.step \in {"clear", "idle"}
    BY <1>0, <1>13 DEF AdminWrite, Stop
  <2>2. lost => lost'
    BY <1>0, <1>13, Zenon DEF AdminWrite
  <2>3. ~Updating' /\ \A v \in Workers : Saving(v)' <=> Saving(v)
    BY <2>1 DEF Updating, Saving
  <2>4. \A v \in Workers : Saving(v) => new[v].n # cred'.n
    <3>1. cred' \in {cred, edit.doc}
      BY <1>13 DEF AdminWrite
    <3>2. edit.op = "edit" \/ Updating
      BY <1>13 DEF AdminWrite, Updating
    <3> QED
      BY <1>1, <3>1, <3>2 DEF CarrierInv, Unstored
  <2> QED
    BY <2>1, <2>2, <2>3, <2>4, CarriersKept
<1>14. CASE AdminClear \/ AdminDies
  <2>1. UNCHANGED <<cred, new, got, pc, live>> /\ edit' = NoEdit
    BY <1>14 DEF AdminClear, AdminDies, Stop
  <2>2. lost => lost'
    BY <1>0, <1>14, Zenon DEF AdminClear, AdminDies
  <2>3. ~Updating' /\ \A v \in Workers : Saving(v)' <=> Saving(v)
    BY <1>0, <2>1 DEF Updating, Saving
  <2> QED
    BY <1>0, <1>1, <2>1, <2>2, <2>3, CarriersKept
<1>15. CASE UNCHANGED vars
  BY <1>2, <1>15 DEF vars, Saving
<1> QED
  BY <1>3, <1>4, <1>5, <1>6, <1>7, <1>8, <1>9, <1>10, <1>11, <1>12, <1>13, <1>14, <1>15
     DEF Next, Refresh

-----------------------------------------------------------------------------
(* Refused tokens, and the token the account has. *)

\* No step makes the provider accept a token it has not accepted.
LEMMA StaysRefused ==
  ASSUME TypeOK, DocInv, [Next]_vars, NEW e \in Docs, e.token \notin live
  PROVE  e.token \notin live'
<1>1. /\ e.token \in 1..issued /\ issued \in Nat
      /\ edit.base \in Docs /\ edit.base \in Doc
      /\ \A w \in Workers : got[w] \in Docs /\ got[w] \in Doc
  BY InDocs DEF TypeOK, DocInv
<1>2. \A d \in Docs : d \in Doc /\ Grant(d) => e.token \notin live'
  BY SpendToken
<1>3. ASSUME NEW w \in Workers, CallProvider(w) PROVE e.token \notin live'
  BY <1>1, <1>2, <1>3 DEF CallProvider
<1>4. CASE AdminCall
  BY <1>1, <1>2, <1>4 DEF AdminCall
<1>5. ASSUME NEW op \in {"edit", "refresh", "authorize"}, Begin(op) PROVE e.token \notin live'
  <2>1. UNCHANGED live \/ live' \subseteq live \cup {issued + 1}
    BY <1>5 DEF Begin
  <2>2. e.token # issued + 1
    BY <1>1
  <2> QED
    BY <2>1, <2>2
<1>6. CASE UNCHANGED live
  BY <1>6
<1>7. CASE Revoke
  BY <1>7 DEF Revoke
<1> QED
  BY <1>3, <1>4, <1>5, <1>6, <1>7
     DEF Next, Refresh, Age, OrphanExpires, Start, AcquireLocks, ReadAccount, Recover,
         SaveCredentials, Release, Block, LockLapses, Crash, AdminUpdate, AdminWrite,
         AdminClear, AdminDies, vars

Refused(w) ==
  pc[w] \in {"recover", "block"} \/ (pc[w] = "release" /\ outcome[w] = "refused")

LEMMA NextRefusedInv ==
  ASSUME TypeOK, DocInv, RefusedInv, [Next]_vars PROVE RefusedInv'
<1>0. /\ pc \in [Workers -> Steps] /\ outcome \in [Workers -> {"done", "retry", "refused"}]
      /\ got \in [Workers -> Doc] /\ NoEdit.step = "idle"
      /\ edit \in [step : {"idle", "call", "update", "write", "clear"},
                   op : {"edit", "refresh", "authorize"},
                   base : Doc, doc : Doc, status : Statuses]
  BY EditType DEF TypeOK
<1>1. ASSUME NEW w \in Workers, Refused(w)'
      PROVE  got'[w] = got[w] /\ (Refused(w) \/ got[w].token \notin live)
  <2>1. ASSUME UNCHANGED <<pc, got, outcome>> PROVE Refused(w) /\ got'[w] = got[w]
    BY <1>1, <2>1 DEF Refused
  <2>2. ASSUME NEW v \in Workers, Start(v) PROVE Refused(w) /\ got'[w] = got[w]
    BY <1>0, <1>1, <2>2 DEF Refused, Start, Goto
  <2>3. ASSUME NEW v \in Workers, AcquireLocks(v) PROVE Refused(w) /\ got'[w] = got[w]
    BY <1>0, <1>1, <2>3 DEF Refused, AcquireLocks, TakeRedisLock, Goto
  <2>4. ASSUME NEW v \in Workers, ReadAccount(v) PROVE Refused(w) /\ got'[w] = got[w]
    BY <1>0, <1>1, <2>4 DEF Refused, ReadAccount, Leave, Goto
  <2>5. ASSUME NEW v \in Workers, CallProvider(v)
        PROVE  got'[w] = got[w] /\ (Refused(w) \/ got[w].token \notin live)
    BY <1>0, <1>1, <2>5 DEF Refused, CallProvider, Leave, Goto
  <2>6. ASSUME NEW v \in Workers, Recover(v) PROVE Refused(w) /\ got'[w] = got[w]
    BY <1>0, <1>1, <2>6 DEF Refused, Recover, Leave, Goto
  <2>7. ASSUME NEW v \in Workers, SaveCredentials(v) PROVE Refused(w) /\ got'[w] = got[w]
    BY <1>0, <1>1, <2>7 DEF Refused, SaveCredentials, Leave, Goto
  <2>8. ASSUME NEW v \in Workers, Release(v) PROVE Refused(w) /\ got'[w] = got[w]
    <3>1. /\ pc'[v] \in {"idle", "lock", "block"}
          /\ pc[v] = "release" /\ (pc'[v] = "block" => outcome[v] = "refused")
      BY <1>0, <2>8 DEF Release, Goto
    <3>2. /\ UNCHANGED got
          /\ \A u \in Workers \ {v} : pc'[u] = pc[u] /\ outcome'[u] = outcome[u]
      BY <1>0, <2>8 DEF Release, Goto
    <3> QED
      BY <1>1, <3>1, <3>2 DEF Refused
  <2>9. ASSUME NEW v \in Workers, Block(v) PROVE Refused(w) /\ got'[w] = got[w]
    BY <1>0, <1>1, <2>9 DEF Refused, Block, Goto
  <2>10. ASSUME NEW i, Crash(i) PROVE Refused(w) /\ got'[w] = got[w]
    BY <1>0, <1>1, <2>10 DEF Refused, Crash
  <2>11. \/ \E v \in Workers : Start(v) \/ Refresh(v) \/ Crash(At[v])
         \/ UNCHANGED <<pc, got, outcome>>
    BY DEF Next, Age, Revoke, OrphanExpires, LockLapses, Begin, AdminCall, AdminUpdate,
           AdminWrite, AdminClear, AdminDies, vars
  <2> QED
    BY <2>1, <2>2, <2>3, <2>4, <2>5, <2>6, <2>7, <2>8, <2>9, <2>10, <2>11 DEF Refresh
<1>2. \A w \in Workers : Refused(w)' => got'[w].token \notin live'
  <2>1. \A w \in Workers : Refused(w) => got[w].token \notin live
    BY DEF RefusedInv, Refused
  <2>2. \A w \in Workers : got[w].token \notin live => got[w].token \notin live'
    BY InDocs, StaysRefused
  <2> QED
    BY <1>1, <2>1, <2>2
<1>3. edit'.step = "write" /\ edit'.status = "error" => status' = "error"
  <2>1. CASE UNCHANGED <<edit, status>>
    BY <2>1 DEF RefusedInv
  <2>2. ASSUME NEW w \in Workers, Block(w) PROVE status' = "error" \/ UNCHANGED status
    BY <2>2 DEF Block, SetError
  <2>3. ASSUME NEW op \in {"edit", "refresh", "authorize"}, Begin(op)
        PROVE  edit'.step = "write" => edit'.status = status /\ UNCHANGED status
    <3>1. CASE op = "edit"
      BY <2>3, <3>1 DEF Begin
    <3>2. CASE op = "refresh"
      BY <2>3, <3>2, EditType DEF Begin, NoEdit
    <3>3. CASE op = "authorize"
      BY <2>3, <3>3, EditType DEF Begin, NoEdit
    <3> QED
      BY <3>1, <3>2, <3>3
  <2>4. AdminCall => edit'.step # "write"
    BY <1>0 DEF AdminCall, Stop
  <2>5. AdminUpdate => edit'.status = status /\ UNCHANGED status
    BY <1>0 DEF AdminUpdate
  <2>6. AdminWrite \/ AdminClear \/ AdminDies => edit'.step # "write"
    BY <1>0 DEF AdminWrite, AdminClear, AdminDies, Stop
  <2>7. \A w \in Workers : Block(w) => UNCHANGED edit
    BY DEF Block
  <2> QED
    BY <2>1, <2>2, <2>3, <2>4, <2>5, <2>6, <2>7
       DEF RefusedInv, Next, Refresh, Age, Revoke, OrphanExpires, Start, AcquireLocks,
           ReadAccount, CallProvider, Recover, SaveCredentials, Release, LockLapses, Crash, vars
<1> QED
  BY <1>2, <1>3 DEF RefusedInv, Refused

\* The account's credentials stay, and so does what carries their successor.
LEMMA KeepsToken ==
  ASSUME TokenKept, UNCHANGED cred, lost => lost',
         cred.token \in live => cred.token \in live' \/ Carried' \/ lost',
         Carried => Carried' \/ lost'
  PROVE  TokenKept'
  BY DEF TokenKept

LEMMA NextTokenKept ==
  ASSUME TypeOK, DocInv, CarrierInv, TokenKept, [Next]_vars PROVE TokenKept'
<1>0. /\ pc \in [Workers -> Steps] /\ got \in [Workers -> Doc] /\ new \in [Workers -> Doc]
      /\ edit \in [step : {"idle", "call", "update", "write", "clear"},
                   op : {"edit", "refresh", "authorize"},
                   base : Doc, doc : Doc, status : Statuses]
      /\ lost \in BOOLEAN /\ cred \in Doc
      /\ cred \in Docs /\ edit.base \in Docs /\ edit.doc \in Docs
      /\ \A w \in Workers : got[w] \in Docs /\ new[w] \in Docs
  BY InDocs DEF TypeOK
<1>1. ASSUME UNCHANGED <<cred, new, edit>>, \A w \in Workers : Saving(w) => Saving(w)',
             UNCHANGED <<live, lost>> \/ lost'
      PROVE  TokenKept'
  <2>1. Carried => Carried'
    BY <1>1 DEF Carried, Saving
  <2> QED
    BY <1>1, <2>1, KeepsToken
<1>2. CASE Age \/ Revoke \/ OrphanExpires
  BY <1>1, <1>2 DEF Age, Revoke, OrphanExpires, Saving
<1>3. ASSUME NEW w \in Workers,
             \/ Start(w) \/ AcquireLocks(w) \/ ReadAccount(w) \/ Recover(w)
             \/ Release(w) \/ Block(w) \/ LockLapses(w)
      PROVE  TokenKept'
  <2>1. UNCHANGED <<cred, new, edit, live, lost>>
    BY <1>3 DEF Start, AcquireLocks, ReadAccount, Recover, Release, Block, LockLapses
  <2>2. /\ pc[w] # "save" \/ UNCHANGED pc
        /\ \A v \in Workers \ {w} : pc'[v] = pc[v]
    BY <1>0, <1>3 DEF Start, AcquireLocks, TakeRedisLock, ReadAccount, Recover, Release, Block,
       LockLapses, Leave, Goto
  <2>3. \A v \in Workers : Saving(v) => Saving(v)'
    BY <2>2 DEF Saving
  <2> QED
    BY <1>1, <2>1, <2>3
<1>4. ASSUME NEW i, Crash(i) PROVE TokenKept'
  <2>1. UNCHANGED <<cred, new, edit, live>>
    BY <1>4 DEF Crash
  <2>2. CASE \E v \in Workers : At[v] = i /\ pc[v] = "save"
    <3>1. lost'
      BY <1>4, <2>2 DEF Crash
    <3> QED
      BY <3>1 DEF TokenKept
  <2>3. CASE \A v \in Workers : At[v] = i => pc[v] # "save"
    <3>1. \A v \in Workers : Saving(v) => Saving(v)'
      BY <1>4, <2>3 DEF Crash, Saving
    <3>2. lost' <=> lost
      BY <1>4, <2>3 DEF Crash
    <3>3. Carried => Carried'
      BY <2>1, <3>1 DEF Carried, Saving
    <3> QED
      BY <2>1, <3>2, <3>3, KeepsToken
  <2> QED
    BY <2>2, <2>3
<1>5. ASSUME NEW w \in Workers, CallProvider(w) PROVE TokenKept'
  <2>1. UNCHANGED <<cred, edit>> /\ \A v \in Workers : Saving(v) => Saving(v)'
    BY <1>0, <1>5 DEF CallProvider, Leave, Goto, Saving
  <2>2. CASE UNCHANGED new /\ (UNCHANGED <<live, lost>> \/ lost')
    BY <1>1, <2>1, <2>2
  <2>3. CASE /\ Grant(got[w]) /\ new' = [new EXCEPT ![w] = Issue(got[w])] /\ Goto(w, "save")
             /\ UNCHANGED lost
    <3>1. /\ new'[w] = Issue(got[w]) /\ \A v \in Workers \ {w} : new'[v] = new[v]
          /\ ~Saving(w) /\ Saving(w)'
      BY <1>0, <1>5, <2>3 DEF CallProvider, Goto, Saving
    <3>2. Carried => Carried'
      BY <2>1, <3>1 DEF Carried, Saving
    <3>3. cred.token \in live => cred.token \in live' \/ cred.n = got[w].n
      BY <1>0, <2>3, SpendToken
    <3>4. Issue(got[w]).from = got[w].n
      BY <1>0, <2>3, GrantType
    <3>5. cred.n = got[w].n => Carried'
      BY <2>1, <3>1, <3>4 DEF Carried, Saving
    <3> QED
      BY <2>1, <2>3, <3>2, <3>3, <3>5, KeepsToken
  <2> QED
    BY <1>5, <2>2, <2>3 DEF CallProvider
<1>6. ASSUME NEW w \in Workers, SaveCredentials(w) PROVE TokenKept'
  <2>1. /\ UNCHANGED <<new, got, edit, live, platform>> /\ Saving(w)
        /\ \A v \in Workers \ {w} : pc'[v] = pc[v]
    BY <1>0, <1>6 DEF SaveCredentials, Leave, Goto, Saving
  <2>2. lost => lost'
    BY <1>0, <1>6, Zenon DEF SaveCredentials, Store
  <2>3. CASE lost'
    BY <2>3 DEF TokenKept
  <2>4. CASE cred' = new[w]
    <3>1. new[w].token \in live \/ lost
      BY <2>1 DEF CarrierInv, Unstored
    <3> QED
      BY <2>1, <2>2, <2>4, <3>1 DEF TokenKept
  <2>5. CASE UNCHANGED cred /\ ~DependsOn(got[w])
    <3>1. new[w].from # cred.n
      BY <2>1, <2>5 DEF CarrierInv, DependsOn
    <3>2. Carried => Carried'
      BY <2>1, <2>5, <3>1 DEF Carried
    <3> QED
      BY <2>1, <2>2, <2>5, <3>2, KeepsToken
  <2> QED
    BY <1>6, <2>3, <2>4, <2>5 DEF SaveCredentials, Store
<1>7. ASSUME NEW op \in {"edit", "refresh", "authorize"}, Begin(op) PROVE TokenKept'
  <2>1. UNCHANGED <<cred, new, pc>> /\ edit.step = "idle"
    BY <1>7 DEF Begin
  <2>2. lost' \/ (live \subseteq live' /\ UNCHANGED lost)
    BY <1>7 DEF Begin
  <2>3. Carried => Carried'
    BY <2>1 DEF Carried
  <2> QED
    BY <2>1, <2>2, <2>3, KeepsToken DEF TokenKept
<1>8. CASE AdminCall
  <2>1. UNCHANGED <<cred, new, pc, lost>> /\ edit.step = "call"
    BY <1>8 DEF AdminCall
  <2>2. Carried => Carried'
    BY <2>1 DEF Carried
  <2>3. CASE UNCHANGED live
    BY <2>1, <2>2, <2>3, KeepsToken
  <2>4. CASE Grant(edit.base) /\ edit' = [edit EXCEPT !.step = "update", !.doc = Issue(edit.base)]
    <3>1. edit'.doc = Issue(edit.base) /\ edit'.step = "update" /\ edit'.op = edit.op
      BY <1>0, <2>4
    <3>2. edit.op = "refresh"
      BY <1>0, <2>1 DEF CarrierInv
    <3>3. cred.token \in live => cred.token \in live' \/ cred.n = edit.base.n
      BY <1>0, <2>4, SpendToken
    <3>4. Issue(edit.base).from = edit.base.n
      BY <1>0, <2>4, GrantType
    <3>5. cred.n = edit.base.n => Carried'
      BY <2>1, <3>1, <3>2, <3>4 DEF Carried
    <3> QED
      BY <2>1, <2>2, <3>3, <3>5, KeepsToken
  <2> QED
    BY <1>8, <2>3, <2>4 DEF AdminCall
<1>9. CASE AdminUpdate
  <2>1. /\ UNCHANGED <<cred, new, pc, live, lost>>
        /\ edit'.doc = edit.doc /\ edit'.op = edit.op /\ edit'.step = "write"
    BY <1>0, <1>9 DEF AdminUpdate
  <2>2. Carried => Carried'
    BY <2>1 DEF Carried
  <2> QED
    BY <2>1, <2>2, KeepsToken
<1>10. CASE AdminWrite
  <2>1. /\ UNCHANGED <<new, got, pc, live>> /\ edit.step = "write"
    BY <1>10 DEF AdminWrite
  <2>2. lost => lost'
    BY <1>0, <1>10, Zenon DEF AdminWrite
  <2>3. CASE lost'
    BY <2>3 DEF TokenKept
  <2>4. CASE cred' = edit.doc /\ edit.op # "edit"
    <3>1. edit.doc.token \in live \/ lost
      BY <2>1, <2>4 DEF CarrierInv, Updating, Unstored
    <3> QED
      BY <2>1, <2>2, <2>4, <3>1 DEF TokenKept
  <2>5. ASSUME UNCHANGED cred, edit.op = "refresh" => edit.doc.from # cred.n PROVE TokenKept'
    <3>1. Carried => Carried'
      BY <2>1, <2>5 DEF Carried
    <3> QED
      BY <2>1, <2>2, <2>5, <3>1, KeepsToken
  <2>6. CASE UNCHANGED cred /\ (edit.op = "authorize" \/ ~DependsOn(edit.base))
    <3>1. edit.op = "refresh" => edit.doc.from # cred.n
      BY <2>1, <2>6 DEF CarrierInv, Updating, DependsOn
    <3> QED
      BY <2>5, <2>6, <3>1
  <2>7. CASE cred' = edit.doc /\ edit.op = "edit" /\ DependsOn(edit.base)
    <3>1. cred'.n = cred.n /\ cred'.token = cred.token
      BY <1>0, <2>7 DEF DocInv, CarrierInv, DependsOn
    <3>2. Carried => Carried'
      BY <2>1, <2>7, <3>1 DEF Carried
    <3> QED
      BY <2>1, <2>2, <3>1, <3>2 DEF TokenKept
  <2> QED
    BY <1>10, <2>3, <2>4, <2>6, <2>7 DEF AdminWrite
<1>11. CASE AdminClear \/ AdminDies
  <2>1. UNCHANGED <<cred, new, pc, live>>
    BY <1>11 DEF AdminClear, AdminDies
  <2>2. lost => lost'
    BY <1>0, <1>11, Zenon DEF AdminClear, AdminDies
  <2>3. CASE lost'
    BY <2>3 DEF TokenKept
  <2>4. CASE ~(edit.op = "refresh" /\ edit.step \in {"update", "write"})
    <3>1. Carried => Carried'
      BY <2>1, <2>4 DEF Carried
    <3> QED
      BY <2>1, <2>2, <3>1, KeepsToken
  <2> QED
    BY <1>11, <2>3, <2>4 DEF AdminClear, AdminDies
<1>12. CASE UNCHANGED vars
  BY <1>1, <1>12 DEF vars, Saving
<1> QED
  BY <1>2, <1>3, <1>4, <1>5, <1>6, <1>7, <1>8, <1>9, <1>10, <1>11, <1>12 DEF Next, Refresh

-----------------------------------------------------------------------------

LEMMA InitRefreshInv == Init => RefreshInv
<1> SUFFICES ASSUME Init PROVE RefreshInv
  OBVIOUS
<1>1. TypeOK
  BY InitTypeOK
<1>2. /\ edit.step = "idle" /\ edit.op = "edit" /\ edit.base = First /\ edit.doc = First
      /\ First.n = 1 /\ First.token = 1
  BY DEF Init, NoEdit, First
<1>3. HoldInv
  BY DEF Init, HoldInv
<1>4. \A d \in Docs : d = First
  BY <1>2 DEF Init, Docs
<1>5. DocInv
  BY <1>2, <1>4 DEF Init, DocInv
<1>6. CarrierInv /\ RefusedInv
  BY <1>2 DEF Init, CarrierInv, RefusedInv, Saving, Updating
<1>7. TokenKept
  BY <1>2 DEF Init, TokenKept
<1> QED
  BY <1>1, <1>3, <1>5, <1>6, <1>7 DEF RefreshInv

\* The inductive invariant of the refresh, the locks and the administrator.
THEOREM Invariance == Spec => []RefreshInv
<1>1. RefreshInv /\ [Next]_vars => RefreshInv'
  BY NextTypeOK, NextHoldInv, NextDocInv, NextCarrierInv, NextRefusedInv, NextTokenKept
     DEF RefreshInv
<1> QED
  BY <1>1, InitRefreshInv, PTL DEF Spec

\* Every variable keeps its type.
THEOREM TypeCorrect == Spec => []TypeOK
<1>1. RefreshInv => TypeOK
  BY DEF RefreshInv
<1> QED
  BY <1>1, Invariance, PTL

\* No two workers of a process, and no two with a valid lock, spend a refresh
\* token at the same time (RefreshIfNeeded, AcquireRefreshLock).
THEOREM OneRefresh == Spec => []OneRefreshAtATime
<1>1. RefreshInv => OneRefreshAtATime
  BY DEF RefreshInv, HoldInv, OneRefreshAtATime
<1> QED
  BY <1>1, Invariance, PTL

\* The stored refresh token works, or its successor is about to be stored, unless
\* a fault, an overwritten row or an edit during the refresh is to blame
\* (RefreshIfNeeded, updateOAuthCredentialsIfUnchanged).
THEOREM TokenIsKept == Spec => []TokenKept
<1>1. RefreshInv => TokenKept
  BY DEF RefreshInv
<1> QED
  BY <1>1, Invariance, PTL

\* An account whose errors are set conditionally goes out of service only when
\* its credentials are refused (persistRefreshErrorState).
THEOREM Quarantine == Spec => JustQuarantine
<1>1. ASSUME RefreshInv, [Next]_vars, Guarded, Active, ~Active' PROVE cred.token \notin live
  <2>1. status # "error" /\ status' = "error"
    BY <1>1 DEF Active
  <2>2. ASSUME NEW w \in Workers, Block(w) PROVE cred.token \notin live
    <3>1. pc[w] = "block" /\ cred.n = got[w].n
      BY <1>1, <2>1, <2>2 DEF Block, SetError, Unchanged
    <3>2. cred.token = got[w].token
      BY <1>1, <3>1, InDocs DEF RefreshInv, DocInv
    <3>3. got[w].token \notin live
      BY <1>1, <3>1 DEF RefreshInv, RefusedInv
    <3> QED
      BY <3>2, <3>3
  <2>3. ~AdminWrite
    BY <1>1, <2>1 DEF AdminWrite, RefreshInv, RefusedInv
  <2>4. ~AdminClear
    BY <2>1 DEF AdminClear
  <2> QED
    BY <1>1, <2>1, <2>2, <2>3, <2>4
       DEF Next, Refresh, Age, Revoke, OrphanExpires, Start, AcquireLocks, ReadAccount,
           CallProvider, Recover, SaveCredentials, Release, LockLapses, Crash, Begin, AdminCall,
           AdminUpdate, AdminDies, vars
<1>2. RefreshInv /\ [Next]_vars => [Guarded /\ Active /\ ~Active' => cred.token \notin live]_vars
  BY <1>1
<1> QED
  BY <1>2, Invariance, PTL DEF Spec, JustQuarantine
=============================================================================
