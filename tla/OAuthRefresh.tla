----------------------------- MODULE OAuthRefresh -----------------------------
(***************************************************************************)
(* The credentials of an upstream account (oauth_refresh_api.go) and who   *)
(* replaces them: background workers (token_refresh_service.go) and        *)
(* requests, both through RefreshIfNeeded, which takes a lock of its       *)
(* process and one in Redis; and an administrator, who refreshes,          *)
(* authorizes anew or edits the account without either.                    *)
(*                                                                         *)
(* A refresh spends a refresh token at the provider, which may give        *)
(* another one in exchange: from then on the account depends on a document *)
(* that only the refreshing process has.  Documents are numbered as they   *)
(* are issued and know the one they were obtained with; the administrator  *)
(* edits what else is in them, and the proxy, which gives a revision.      *)
(*                                                                         *)
(* The account's platform decides how results are written: for Grok and    *)
(* Antigravity only over the revision the refresh began with, otherwise    *)
(* whatever is there.  Left out are the cache of access tokens, the        *)
(* cooldown after a failed refresh and the limits on calls per provider,   *)
(* which only delay the next attempt.                                      *)
(***************************************************************************)
EXTENDS Naturals, FiniteSets, Faults

CONSTANTS
  Workers,     \* goroutines that refresh
  Background,  \* those of the background service; the others serve requests
  At,          \* the process of a worker
  MaxAttempts, \* how often the background service tries
  MaxAges,     \* bound: how many documents come to need a refresh
  MaxRequests, \* bound: how many requests want one
  MaxEdits     \* bound: how often the administrator does something

ASSUME WorkersAssumption == Background \subseteq Workers /\ DOMAIN At = Workers
ASSUME BoundsAssumption ==
  /\ MaxAttempts \in Nat \ {0}
  /\ MaxAges \in Nat /\ MaxRequests \in Nat /\ MaxEdits \in Nat /\ MaxFaults \in Nat

VARIABLES
  platform,
  rotates,   \* the provider gives a new refresh token each time
  cred,      \* accounts.credentials
  status,    \* accounts.status and schedulable: "paused" is active, not schedulable
  aged,      \* the documents that need a refresh
  issued,    \* how many documents the provider has issued
  live,      \* the refresh tokens it accepts
  key,       \* oauth:refresh_lock: exists
  pc, hold,  \* per worker: next step, and what it has of the lock
  got, new,  \* per worker: the document it uses, and the one it obtained
  attempt, outcome, \* per worker: of the current attempt
  edit,      \* what the administrator does: step, operation, documents, status read
  lost,      \* history: the account's token went where nobody keeps it, or was withdrawn
  requests, edits

account  == <<cred, status, aged>>
provider == <<issued, live>>
worker   == <<pc, hold, got, new, attempt, outcome>>
kind     == <<platform, rotates>>
admin    == <<edit, edits>>
vars     == <<kind, account, provider, key, worker, admin, lost, requests, faults>>

Guarded == platform \in {"grok", "antigravity"}

First == [n |-> 1, from |-> 0, token |-> 1, rev |-> 0]
Doc   == [n : Nat, from : Nat, token : Nat, rev : Nat]
Statuses == {"active", "paused", "error"}
Steps == {"idle", "lock", "read", "call", "recover", "save", "release", "block"}
NoEdit == [step |-> "idle", op |-> "edit", base |-> First, doc |-> First, status |-> "active"]

TypeOK ==
  /\ platform \in {"grok", "antigravity", "other"} /\ rotates \in BOOLEAN
  /\ cred \in Doc /\ status \in Statuses /\ aged \subseteq 1..issued
  /\ issued \in Nat \ {0} /\ live \subseteq 1..issued
  /\ key \in BOOLEAN /\ lost \in BOOLEAN
  /\ pc \in [Workers -> Steps]
  /\ hold \in [Workers -> {"none", "lock", "lapsed", "free"}]
  /\ got \in [Workers -> Doc] /\ new \in [Workers -> Doc]
  /\ attempt \in [Workers -> 1..MaxAttempts]
  /\ outcome \in [Workers -> {"done", "retry", "refused"}]
  /\ edit \in [step : {"idle", "call", "update", "write", "clear"},
               op : {"edit", "refresh", "authorize"},
               base : Doc, doc : Doc, status : Statuses]
  /\ requests \in 0..MaxRequests /\ edits \in 0..MaxEdits /\ faults \in 0..MaxFaults

Init ==
  /\ platform \in {"grok", "antigravity", "other"} /\ rotates \in BOOLEAN
  /\ cred = First /\ status = "active" /\ aged = {}
  /\ issued = 1 /\ live = {1}
  /\ key = FALSE
  /\ pc = [w \in Workers |-> "idle"] /\ hold = [w \in Workers |-> "none"]
  /\ got = [w \in Workers |-> First] /\ new = [w \in Workers |-> First]
  /\ attempt = [w \in Workers |-> 1] /\ outcome = [w \in Workers |-> "done"]
  /\ edit = NoEdit /\ lost = FALSE
  /\ requests = 0 /\ edits = 0 /\ faults = 0

Due   == cred.n \in aged
InUse == status = "active"  \* ListOAuthRefreshCandidatePage
Active == status # "error"  \* IsActive

Goto(w, s)   == pc' = [pc EXCEPT ![w] = s]
Leave(w, o)  == Goto(w, "release") /\ outcome' = [outcome EXCEPT ![w] = o]

-----------------------------------------------------------------------------
(* The provider. *)

\* The document the provider gives for refresh token d.token.
Issue(d) == [n |-> issued + 1, from |-> d.n, rev |-> d.rev,
             token |-> IF rotates THEN issued + 1 ELSE d.token]
Grant(d) ==
  /\ d.token \in live
  /\ issued' = issued + 1
  /\ live' = (live \ {d.token}) \cup {Issue(d).token}

\* Access tokens run out.
Age ==
  /\ ~Due /\ Cardinality(aged) < MaxAges
  /\ aged' = aged \cup {cred.n}
  /\ UNCHANGED <<kind, cred, status, provider, key, worker, admin, lost, requests, faults>>

\* The provider withdraws all its tokens.
Revoke ==
  /\ live # {} /\ Fault
  /\ live' = {} /\ lost' = TRUE
  /\ UNCHANGED <<kind, account, issued, key, worker, admin, requests>>

-----------------------------------------------------------------------------
(* RefreshIfNeeded, and the background service around it. *)

\* A candidate of the background service, or a request whose copy of the
\* account may be old.
Start(w) ==
  /\ pc[w] = "idle" /\ Goto(w, "lock")
  /\ IF w \in Background
       THEN InUse /\ Due /\ UNCHANGED requests
       ELSE aged # {} /\ requests < MaxRequests /\ requests' = requests + 1
  /\ got' = [got EXCEPT ![w] = cred]
  /\ attempt' = [attempt EXCEPT ![w] = 1]
  /\ UNCHANGED <<kind, account, provider, key, hold, new, outcome, admin, lost, faults>>

LocalLockFree(w) == \A v \in Workers : At[v] = At[w] => hold[v] = "none"

\* Slip: a worker that found the lock taken goes on all the same.
IgnoreRedisLock(w) ==
  /\ key' = TRUE /\ hold' = [hold EXCEPT ![w] = "lock"] /\ Goto(w, "read")
  /\ UNCHANGED faults

\* AcquireRefreshLock: taken, held by another worker, or Redis fails and the
\* worker goes on without.
TakeRedisLock(w) ==
  \/ /\ ~key /\ key' = TRUE
     /\ hold' = [hold EXCEPT ![w] = "lock"] /\ Goto(w, "read") /\ UNCHANGED faults
  \/ key /\ Goto(w, "idle") /\ UNCHANGED <<key, hold, faults>>
  \/ /\ key' \in {key, TRUE}
     /\ hold' = [hold EXCEPT ![w] = "free"] /\ Goto(w, "read") /\ Fault

AcquireLocks(w) ==
  /\ pc[w] = "lock" /\ LocalLockFree(w) /\ TakeRedisLock(w)
  /\ UNCHANGED <<kind, account, provider, got, new, attempt, outcome, admin, lost, requests>>

ReadAccount(w) ==
  /\ pc[w] = "read"
  /\ \/ /\ Active /\ Due
        /\ got' = [got EXCEPT ![w] = cred] /\ Goto(w, "call")
        /\ UNCHANGED <<outcome, faults>>
     \/ ~(Active /\ Due) /\ Leave(w, "done") /\ UNCHANGED <<got, faults>>
     \/ Leave(w, "done") /\ UNCHANGED got /\ Fault
  /\ UNCHANGED <<kind, account, provider, key, hold, new, attempt, admin, lost, requests>>

\* executor.Refresh; credentials that arrive after the attempt's time are thrown
\* away like those whose answer is lost.
CallProvider(w) ==
  /\ pc[w] = "call"
  /\ \/ /\ Grant(got[w]) /\ new' = [new EXCEPT ![w] = Issue(got[w])] /\ Goto(w, "save")
        /\ UNCHANGED <<outcome, lost, faults>>
     \/ /\ got[w].token \notin live /\ Goto(w, "recover")
        /\ UNCHANGED <<provider, new, outcome, lost, faults>>
     \/ Leave(w, "retry") /\ UNCHANGED <<provider, new, lost>> /\ Fault
     \/ Grant(got[w]) /\ Leave(w, "retry") /\ lost' = TRUE /\ UNCHANGED new /\ Fault
  /\ UNCHANGED <<kind, account, key, hold, got, attempt, admin, requests>>

\* Slip: every refusal is taken for a race.
AssumeRace(w) == TRUE

AnotherRefreshed(w) == cred.token # got[w].token

\* tryRecoverFromRefreshRace
Recover(w) ==
  /\ pc[w] = "recover"
  /\ \/ AnotherRefreshed(w) /\ Leave(w, "done") /\ UNCHANGED faults
     \/ ~AnotherRefreshed(w) /\ Leave(w, "refused") /\ UNCHANGED faults
     \/ Leave(w, "refused") /\ Fault
  /\ UNCHANGED <<kind, account, provider, key, hold, got, new, attempt, admin, lost, requests>>

\* The row is as it was when d was read: all of the credentials, and the proxy.
Unchanged(d) == cred.n = d.n /\ cred.rev = d.rev

\* The row still holds the refresh token that came with d.
DependsOn(d) == cred.n = d.n

\* Slip: as in the statements that set an error, the account has to be active.
StoreIfActive(w) ==
  LET applied == Guarded => Unchanged(got[w]) IN
    /\ cred' = IF applied /\ (Guarded => Active) THEN new[w] ELSE cred
    /\ lost' = (lost \/ (applied # DependsOn(got[w])))

\* Update...CredentialsIfUnchanged, UpdateCredentials.  What was obtained goes to
\* waste if the update misses although the row depends on it, and something else
\* does if the update hits although the row does not.
Store(w) ==
  LET applied == Guarded => Unchanged(got[w]) IN
    /\ cred' = IF applied THEN new[w] ELSE cred
    /\ lost' = (lost \/ (applied # DependsOn(got[w])))

\* After an error the account is left alone for now, or tried again at once.
SaveCredentials(w) ==
  /\ pc[w] = "save"
  /\ \/ Store(w) /\ Leave(w, "done") /\ UNCHANGED faults
     \/ /\ Fault /\ Leave(w, IF Guarded THEN "done" ELSE "retry")
        /\ Store(w) \/ (lost' = TRUE /\ UNCHANGED cred)
  /\ UNCHANGED <<kind, status, aged, provider, key, hold, got, new, attempt, admin, requests>>

\* The deferred release deletes the lock, whoever set it by now.
ReleaseLock(w) ==
  \/ /\ hold[w] = "lock" /\ key' = FALSE
     /\ hold' = [hold EXCEPT ![w] = "none"] /\ UNCHANGED faults
  \/ /\ hold[w] = "lapsed" /\ key' = FALSE
     /\ hold' = [v \in Workers |-> IF v = w THEN "none"
                                   ELSE IF hold[v] = "lock" THEN "lapsed" ELSE hold[v]]
     /\ UNCHANGED faults
  \/ /\ hold[w] = "free"
     /\ hold' = [hold EXCEPT ![w] = "none"] /\ UNCHANGED <<key, faults>>
  \/ /\ hold[w] \in {"lock", "lapsed"} /\ Fault
     /\ hold' = [hold EXCEPT ![w] = "none"] /\ UNCHANGED key

\* RefreshIfNeeded returns; the background service tries again, gives up, or
\* puts the account out of service.
Release(w) ==
  /\ pc[w] = "release" /\ ReleaseLock(w)
  /\ LET again == outcome[w] = "retry" /\ attempt[w] < MaxAttempts IN
       /\ Goto(w, IF w \notin Background THEN "idle"
                  ELSE IF outcome[w] = "refused" THEN "block"
                  ELSE IF again THEN "lock" ELSE "idle")
       /\ attempt' = [attempt EXCEPT ![w] = IF w \in Background /\ again THEN @ + 1 ELSE 1]
  /\ outcome' = [outcome EXCEPT ![w] = "done"]
  /\ UNCHANGED <<kind, account, provider, got, new, admin, lost, requests>>

\* Slip: the error is set whatever the credentials are by now.
SetErrorAnyway(w) == status' = "error"

\* persistRefreshErrorState
SetError(w) ==
  status' = IF Guarded => Unchanged(got[w]) THEN "error" ELSE status

Block(w) ==
  /\ pc[w] = "block" /\ Goto(w, "idle")
  /\ \/ SetError(w) /\ (UNCHANGED faults \/ Fault)
     \/ UNCHANGED status /\ Fault
  /\ UNCHANGED <<kind, cred, aged, provider, key, hold, got, new, attempt, outcome,
                 admin, lost, requests>>

-----------------------------------------------------------------------------
(* Time and crashes. *)

\* The time to live of a lock nobody holds any more ends.
OrphanExpires ==
  /\ key /\ \A w \in Workers : hold[w] # "lock"
  /\ key' = FALSE
  /\ UNCHANGED <<kind, account, provider, worker, admin, lost, requests, faults>>

\* So does that of a worker that stalls.
LockLapses(w) ==
  /\ hold[w] = "lock" /\ Fault
  /\ key' = FALSE /\ hold' = [hold EXCEPT ![w] = "lapsed"]
  /\ UNCHANGED <<kind, account, provider, pc, got, new, attempt, outcome, admin, lost, requests>>

Crash(i) ==
  LET dead == {w \in Workers : At[w] = i} IN
  /\ \E w \in dead : pc[w] # "idle"
  /\ Fault
  /\ pc' = [w \in Workers |-> IF w \in dead THEN "idle" ELSE pc[w]]
  /\ hold' = [w \in Workers |-> IF w \in dead THEN "none" ELSE hold[w]]
  /\ lost' = (lost \/ \E w \in dead : pc[w] = "save")
  /\ UNCHANGED <<kind, account, provider, key, got, new, attempt, outcome, admin, requests>>

-----------------------------------------------------------------------------
(* The administrator: account_handler.go and UpdateAccount, which reads the *)
(* row and writes all of it.                                                *)

\* UpdateAccount keeps the tokens it read; another field or the proxy may change.
Edited(d) == {d, [d EXCEPT !.rev = @ + 1]}

Begin(op) ==
  /\ edit.step = "idle" /\ edits < MaxEdits /\ edits' = edits + 1
  /\ CASE op = "edit" ->
            /\ \E d \in Edited(cred) :
                 edit' = [step |-> "write", op |-> op, base |-> cred, doc |-> d,
                          status |-> status]
            /\ UNCHANGED <<provider, lost>>
       [] op = "refresh" ->
            /\ edit' = [NoEdit EXCEPT !.step = "call", !.op = op, !.base = cred]
            /\ UNCHANGED <<provider, lost>>
       [] op = "authorize" ->
            /\ issued' = issued + 1
            /\ \/ live' = live \cup {issued'} /\ UNCHANGED lost
               \/ live' = {issued'} /\ lost' = TRUE
            /\ edit' = [NoEdit EXCEPT !.step = "update", !.op = op,
                           !.doc = [n |-> issued', from |-> 0, token |-> issued', rev |-> 0]]
  /\ UNCHANGED <<kind, account, key, worker, requests, faults>>

Stop == edit' = NoEdit

\* refreshSingleAccount calls the provider without any lock.
AdminCall ==
  /\ edit.step = "call"
  /\ \/ Grant(edit.base) /\ edit' = [edit EXCEPT !.step = "update", !.doc = Issue(edit.base)]
     \/ edit.base.token \notin live /\ Stop /\ UNCHANGED provider
  /\ UNCHANGED <<kind, account, key, worker, edits, lost, requests, faults>>

\* The row is read, again if the credentials were obtained from an earlier reading.
AdminUpdate ==
  /\ edit.step = "update"
  /\ edit' = [edit EXCEPT !.step = "write", !.status = status,
                          !.base = IF edit.op = "authorize" THEN cred ELSE @]
  /\ UNCHANGED <<kind, account, provider, key, worker, edits, lost, requests, faults>>

\* For Antigravity new credentials are written over an unchanged row only.
AdminWrite ==
  LET conditional == platform = "antigravity" /\ edit.op # "edit"
      applied     == conditional => Unchanged(edit.base)
  IN /\ edit.step = "write"
     /\ cred' = IF applied THEN edit.doc ELSE cred
     /\ status' = IF conditional THEN status ELSE edit.status
     /\ lost' = (lost \/ (edit.op # "authorize" /\ applied # DependsOn(edit.base)))
     /\ IF applied /\ edit.op = "authorize" THEN edit' = [edit EXCEPT !.step = "clear"] ELSE Stop
     /\ UNCHANGED <<kind, aged, provider, key, worker, edits, requests, faults>>

\* ClearAccountError after a new authorization; it leaves schedulable as it is.
AdminClear ==
  /\ edit.step = "clear" /\ Stop
  /\ \/ status' = (IF Active THEN status ELSE "paused") /\ UNCHANGED faults
     \/ UNCHANGED status /\ Fault
  /\ UNCHANGED <<kind, cred, aged, provider, key, worker, edits, lost, requests>>

AdminDies ==
  /\ edit.step # "idle" /\ Fault /\ Stop
  /\ lost' = (lost \/ (edit.op = "refresh" /\ edit.step \in {"update", "write"}))
  /\ UNCHANGED <<kind, account, provider, key, worker, edits, requests>>

-----------------------------------------------------------------------------
Refresh(w) ==
  \/ AcquireLocks(w) \/ ReadAccount(w) \/ CallProvider(w) \/ Recover(w)
  \/ SaveCredentials(w) \/ Release(w) \/ Block(w)

Next ==
  \/ Age \/ Revoke \/ OrphanExpires
  \/ \E w \in Workers : Start(w) \/ Refresh(w) \/ LockLapses(w) \/ Crash(At[w])
  \/ \E op \in {"edit", "refresh", "authorize"} : Begin(op)
  \/ AdminCall \/ AdminUpdate \/ AdminWrite \/ AdminClear \/ AdminDies

\* Goroutines run on, the background service goes on looking, calls to the
\* provider end, and keys expire.
Fairness ==
  /\ \A w \in Workers : WF_vars(Refresh(w))
  /\ \A w \in Background : WF_vars(Start(w))
  /\ WF_vars(OrphanExpires) /\ WF_vars(AdminCall \/ AdminUpdate \/ AdminWrite \/ AdminClear)

Spec == Init /\ [][Next]_vars /\ Fairness

-----------------------------------------------------------------------------
(* What is checked. *)

\* Two workers spend a refresh token at the same time only in different
\* processes, and only if one of them has no valid lock: Redis failed, or it
\* outlived the lock (RefreshIfNeeded, releaseRefreshLock).
OneRefreshAtATime ==
  \A v, w \in Workers : v # w /\ {pc[v], pc[w]} \subseteq {"call", "save"} =>
    At[v] # At[w] /\ (hold[v] # "lock" \/ hold[w] # "lock")

\* The stored refresh token is accepted by the provider, or somebody is about to
\* store its successor - unless a crash, an error or a late answer came between;
\* or the row was overwritten from an old copy, which the conditional updates of
\* Grok and Antigravity rule out for workers; or, for these, it was edited while
\* its token was being spent, so that the update missed (RefreshIfNeeded).
Carried ==
  \/ \E w \in Workers : pc[w] = "save" /\ new[w].from = cred.n
  \/ edit.step \in {"update", "write"} /\ edit.op = "refresh" /\ edit.doc.from = cred.n
TokenKept == cred.token \in live \/ Carried \/ lost

\* Where errors are set conditionally, no account is put out of service whose
\* credentials still work, whatever was stored since the provider refused the
\* ones that were tried (persistRefreshErrorState).
JustQuarantine ==
  [][Guarded /\ Active /\ ~Active' => cred.token \notin live]_vars

\* Credentials that run out are renewed, or their account is put out of service,
\* whatever was lost or refused (processRefresh, refreshWithRetry).
DueIsRenewed == Due ~> ~Due \/ ~InUse

-----------------------------------------------------------------------------
(* The inductive invariant behind the three safety properties. *)

\* A worker has something of the lock while it refreshes; one worker of a
\* process does, and one at most has the key in Redis.
HoldInv ==
  /\ \A w \in Workers : hold[w] = "none" <=> pc[w] \in {"idle", "lock", "block"}
  /\ \A w \in Workers : hold[w] = "lock" => key
  /\ \A v, w \in Workers : v # w =>
       /\ At[v] = At[w] => "none" \in {hold[v], hold[w]}
       /\ hold[v] # "lock" \/ hold[w] # "lock"

\* A document's number tells its token, and its token the number where they rotate.
Docs ==
  {First, cred, edit.base, edit.doc} \cup {got[w] : w \in Workers} \cup {new[w] : w \in Workers}
DocInv ==
  \A d \in Docs :
    /\ d.n \in 1..issued /\ d.token \in 1..issued
    /\ rotates => d.token = d.n
    /\ \A e \in Docs : d.n = e.n => d.token = e.token

\* What a worker or the administrator is about to store works, unless something
\* is lost; nobody else has it, and its predecessor is what they began with.
Saving(w) == pc[w] = "save"
Updating  == edit.step \in {"update", "write"} /\ edit.op # "edit"
Unstored(d) ==
  /\ d.token \in live \/ lost
  /\ d.n \notin {First.n, cred.n, edit.base.n} /\ \A w \in Workers : d.n # got[w].n
CarrierInv ==
  /\ \A w \in Workers : Saving(w) =>
       /\ Unstored(new[w]) /\ new[w].from = got[w].n
       /\ \A v \in Workers : Saving(v) /\ new[v].n = new[w].n => v = w
       /\ Updating => edit.doc.n # new[w].n
  /\ Updating => Unstored(edit.doc) /\ (edit.op = "refresh" => edit.doc.from = edit.base.n)
  /\ edit.op = "edit" => edit.doc.n = edit.base.n
  /\ edit.step = "call" => edit.op = "refresh"

\* What the provider refused stays refused, and no edit brings an error back.
RefusedInv ==
  /\ \A w \in Workers :
       \/ pc[w] \in {"recover", "block"}
       \/ pc[w] = "release" /\ outcome[w] = "refused"
       => got[w].token \notin live
  /\ edit.step = "write" /\ edit.status = "error" => status = "error"

RefreshInv == TypeOK /\ HoldInv /\ DocInv /\ CarrierInv /\ RefusedInv /\ TokenKept
=============================================================================
