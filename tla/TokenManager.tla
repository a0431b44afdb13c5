---------------------------- MODULE TokenManager ----------------------------
(***************************************************************************)
(* The in-memory token manager and everything that drives it at once:      *)
(* requests that hold a token, the cooldown ticker, the recovery           *)
(* scheduler, quota synchronisations whose upstream answer is still out,   *)
(* and the admin API that replaces a token object by a fresh row.          *)
(*                                                                         *)
(* Every action is one critical section of TokenManager.mu, so what lies   *)
(* between two actions of one goroutine is open to all the others.         *)
(*                                                                         *)
(* Abstractions.  A deadline is only "none", "running" or "elapsed".       *)
(* FailCount saturates at FailThreshold, the only value it is compared     *)
(* with.  Pool, priority, circuit breakers and the selection algorithm     *)
(* narrow the choice of pick; here pick may return any token it may return *)
(* under one of them.  LastUsed and StatusReason are left out.             *)
(***************************************************************************)
EXTENDS Integers, FiniteSets

CONSTANTS
  Tokens,          \* token ids
  NoToken,         \* the id is not in memory
  Requests,        \* request goroutines
  NoRequest,       \* the goroutine holds no token
  Fetchers,        \* goroutines inside SyncQuota
  NoFetch,         \* the goroutine is not inside SyncQuota
  Categories,      \* quota categories
  Chat,            \* the category upstream reports on
  Rows,            \* rows the database may hand to AddToken
  Remainings,      \* remainingQueries values upstream may answer
  Costs,           \* cost of one request (the "#cost" suffix of a model)
  DefaultQuota,    \* configured default quota by category, 0 = not configured
  FallbackQuota,   \* the scheduler's hard-coded default (50, 20, 10)
  FailThreshold,   \* fail_threshold, 0 = never disable
  MaxReports,      \* bound on the failures one request reports on a token
  Modes            \* quota_recovery_mode values the configuration takes

\* Nothing validates a quota: an admin's edit and upstream's answer may be any int.
Quotas == [Categories -> Int]
Status == {"active", "cooling", "disabled", "expired"}
Deadline == {"none", "running", "elapsed"}

\* store.Token, the fields the manager changes; obj is history and tells an
\* object from the one it was put over.
Token == [status : Status, quota : Quotas, baseline : Quotas,
          cool : Deadline, fails : 0..FailThreshold, obj : BOOLEAN]

ASSUME ConstantsAssumption ==
  /\ Chat \in Categories
  /\ Rows \subseteq {row \in Token : ~row.obj}
  /\ Remainings \subseteq Int
  /\ Costs \subseteq Nat \ {0}
  /\ DefaultQuota \in Quotas
  /\ FallbackQuota \in [Categories -> Nat \ {0}]
  /\ FailThreshold \in Nat
  /\ MaxReports \in Nat
  /\ Modes \subseteq {"auto", "upstream"}

\* What a request goroutine holds, and a SyncQuota call that waits for upstream.
Request == [phase : {"sent", "reported", "charged"}, tok : Tokens,
            cat : Categories, left : 0..MaxReports]
Fetch == [tok : Tokens, live : BOOLEAN, scheduled : BOOLEAN]

\* The columns a flush writes: a deadline is persisted as the time it ends, not
\* as running or elapsed.
PersistedToken == [status : Status, quota : Quotas, baseline : Quotas,
                   coolUntil : BOOLEAN, fails : 0..FailThreshold]

ASSUME AbsentAssumption ==
  /\ NoToken \notin Token \union PersistedToken
  /\ NoRequest \notin Request
  /\ NoFetch \notin Fetch

VARIABLES
  tokens,    \* m.tokens: the object each id maps to
  dirty,     \* m.dirty
  req,       \* what each request goroutine holds, and how far it is
  fetch,     \* SyncQuota calls waiting for upstream; live: the object they
             \* write to is still the one m.tokens holds
  sched      \* the scheduler's snapshot: its mode and the ids not yet handled

vars == <<tokens, dirty, req, fetch, sched>>

TypeOK ==
  /\ tokens \in [Tokens -> Token \union {NoToken}]
  /\ dirty \subseteq Tokens
  /\ req \in [Requests -> Request \union {NoRequest}]
  /\ fetch \in [Fetchers -> Fetch \union {NoFetch}]
  /\ sched \in [mode : {"auto", "upstream"}, pending : SUBSET Tokens]
-----------------------------------------------------------------------------
Loaded(t) == tokens[t] # NoToken
Smaller(a, b) == IF a < b THEN a ELSE b
Larger(a, b) == IF a > b THEN a ELSE b

Exhausted(tok) == \A c \in Categories : tok.quota[c] <= 0

\* Mutant of Normalize: rows enter the memory as they are.
NormalizeSkipped(row) == row

\* An initial quota is never below the quota it is the start of.
Normalize(row) ==
  [row EXCEPT !.baseline =
     [c \in Categories |-> Larger(row.baseline[c], row.quota[c])]]

\* NewTokenManager and LoadTokens: the rows of the database, none dirty.
Init == /\ tokens \in [Tokens -> {Normalize(row) : row \in Rows} \union {NoToken}]
        /\ dirty = {}
        /\ req = [r \in Requests |-> NoRequest]
        /\ fetch = [f \in Fetchers |-> NoFetch]
        /\ sched = [mode |-> "auto", pending |-> {}]

\* The object of t becomes tok and t is marked, unless t is not in memory.
Update(t, tok) ==
  IF Loaded(t)
    THEN /\ tokens' = [tokens EXCEPT ![t] = tok]
         /\ dirty' = dirty \union {t}
    ELSE UNCHANGED <<tokens, dirty>>

(***************************************************************************)
(* Requests.                                                               *)
(***************************************************************************)

\* The failures a request may still report on the token it holds.
Holding(r, phases) == req[r] # NoRequest /\ req[r].phase \in phases
Drop(r) == req' = [req EXCEPT ![r] = NoRequest]
Become(r, phase) == req' = [req EXCEPT ![r].phase = phase]
Retry(r) == /\ req[r].left > 0
            /\ req' = [req EXCEPT ![r].left = @ - 1]

\* pick: an active token with quota left; only the request changes.
Pick(r, t, c) ==
  /\ req[r] = NoRequest
  /\ Loaded(t)
  /\ tokens[t].status = "active"
  /\ tokens[t].quota[c] > 0
  /\ req' = [req EXCEPT ![r] = [phase |-> "sent", tok |-> t, cat |-> c,
                               left |-> MaxReports]]
  /\ UNCHANGED <<tokens, dirty, fetch, sched>>

\* The request ends, or goes on with another token, and reports nothing:
\* a transport error, a Cloudflare challenge or a gone client.
GiveUp(r) == /\ Holding(r, {"sent", "charged"})
             /\ Drop(r)
             /\ UNCHANGED <<tokens, dirty, fetch, sched>>

\* ReportRateLimit, MarkCooling.
MarkCooling(tok) == [tok EXCEPT !.status = "cooling", !.cool = "running"]

\* ReportError, MarkFailed: disabled once the threshold is reached.
MarkFailed(tok) ==
  LET n == Smaller(tok.fails + 1, FailThreshold) IN
  [tok EXCEPT !.fails = n,
              !.status = IF FailThreshold > 0 /\ n >= FailThreshold
                           THEN "disabled" ELSE tok.status]

\* A 401 or a token-level 403; the deadline and the failures stay.
MarkExpired(tok) == [tok EXCEPT !.status = "expired"]

\* ReportSuccess, MarkSuccess: active, whatever the status was.
MarkSuccess(tok) ==
  [tok EXCEPT !.status = "active", !.cool = "none", !.fails = 0]

ReportFailure(r) ==
  /\ Holding(r, {"sent", "charged"})
  /\ Retry(r)
  /\ LET t == req[r].tok IN
       \/ Update(t, MarkCooling(tokens[t]))
       \/ Update(t, MarkFailed(tokens[t]))
       \/ Update(t, MarkExpired(tokens[t]))
  /\ UNCHANGED <<fetch, sched>>

\* Mutants of Consume: the token cools without a deadline; it cools by the chat
\* category only.
ConsumeNoDeadline(tok, c, cost) ==
  LET charged == [tok EXCEPT !.quota[c] = Larger(@ - cost, 0)] IN
  IF Exhausted(charged) THEN [charged EXCEPT !.status = "cooling"] ELSE charged
ConsumeChatOnlyCools(tok, c, cost) ==
  LET charged == [tok EXCEPT !.quota[c] = Larger(@ - cost, 0)] IN
  IF c = Chat /\ Exhausted(charged)
    THEN [charged EXCEPT !.status = "cooling", !.cool = "running"]
    ELSE charged

\* Consume deducts the cost of a positive quota, not below zero, and cools the token when no
\* category has quota left.
CanConsume(t, c) == Loaded(t) /\ tokens[t].quota[c] > 0
Consume(tok, c, cost) ==
  LET charged == [tok EXCEPT !.quota[c] = Larger(@ - cost, 0)] IN
  IF Exhausted(charged)
    THEN [charged EXCEPT !.status = "cooling", !.cool = "running"]
    ELSE charged

\* A chat request reports its success first and is charged afterwards; a
\* failed Consume is only logged.
ChatSuccess(r) ==
  /\ Holding(r, {"sent"}) /\ req[r].cat = Chat
  /\ Update(req[r].tok, MarkSuccess(tokens[req[r].tok]))
  /\ Become(r, "reported")
  /\ UNCHANGED <<fetch, sched>>

ChatConsume(r, cost) ==
  /\ Holding(r, {"reported"})
  /\ LET t == req[r].tok IN
       IF CanConsume(t, Chat)
         THEN Update(t, Consume(tokens[t], Chat, cost))
         ELSE UNCHANGED <<tokens, dirty>>
  /\ Drop(r)
  /\ UNCHANGED <<fetch, sched>>

\* An image or video request is charged first, once per image, and gives up
\* when there is no quota; its success is reported at the end.
MediaConsume(r) ==
  /\ Holding(r, {"sent", "charged"}) /\ req[r].cat # Chat
  /\ LET t == req[r].tok  c == req[r].cat IN
       IF CanConsume(t, c)
         THEN Update(t, Consume(tokens[t], c, 1)) /\ Become(r, "charged")
         ELSE Drop(r) /\ UNCHANGED <<tokens, dirty>>
  /\ UNCHANGED <<fetch, sched>>

MediaSuccess(r) ==
  /\ Holding(r, {"charged"})
  /\ Update(req[r].tok, MarkSuccess(tokens[req[r].tok]))
  /\ Drop(r)
  /\ UNCHANGED <<fetch, sched>>
-----------------------------------------------------------------------------
(***************************************************************************)
(* Recovery: the clock, the ticker and the scheduler.                      *)
(***************************************************************************)

\* The deadline of a token passes.
CoolElapses(t) ==
  /\ Loaded(t) /\ tokens[t].cool = "running"
  /\ tokens' = [tokens EXCEPT ![t].cool = "elapsed"]
  /\ UNCHANGED <<dirty, req, fetch, sched>>

Cooling(t) == Loaded(t) /\ tokens[t].status = "cooling"
ElapsedCooling(t) == Cooling(t) /\ tokens[t].cool = "elapsed"

Restored(tok) == [tok EXCEPT !.status = "active", !.cool = "none"]

\* Mutants of CheckNow: the restored tokens are not marked; their status stays.
CheckNowUnmarked ==
  LET restored == {t \in Tokens : ElapsedCooling(t) /\ ~Exhausted(tokens[t])} IN
  /\ restored # {}
  /\ tokens' = [t \in Tokens |->
       IF t \in restored THEN Restored(tokens[t]) ELSE tokens[t]]
  /\ UNCHANGED <<dirty, req, fetch, sched>>
CheckNowKeepsStatus ==
  LET restored == {t \in Tokens : ElapsedCooling(t) /\ ~Exhausted(tokens[t])} IN
  /\ restored # {}
  /\ tokens' = [t \in Tokens |->
       IF t \in restored THEN [tokens[t] EXCEPT !.cool = "none"] ELSE tokens[t]]
  /\ dirty' = dirty \union restored
  /\ UNCHANGED <<req, fetch, sched>>

\* CheckNow: every elapsed token with quota in some category, in one section.
Restorable == {t \in Tokens : ElapsedCooling(t) /\ ~Exhausted(tokens[t])}
CheckNow ==
  /\ Restorable # {}
  /\ tokens' = [t \in Tokens |->
       IF t \in Restorable THEN Restored(tokens[t]) ELSE tokens[t]]
  /\ dirty' = dirty \union Restorable
  /\ UNCHANGED <<req, fetch, sched>>

\* Mutant of SchedScan: only tokens with quota left are recovered.
SchedScanWithQuota(mode) ==
  /\ sched.pending = {} /\ Restorable # {}
  /\ sched' = [mode |-> mode, pending |-> Restorable]
  /\ UNCHANGED <<tokens, dirty, req, fetch>>

\* refreshExpiredCooling: the ids to recover are a snapshot, handled one by
\* one later; the next scan waits for the last of them.
SchedScan(mode) ==
  LET expired == {t \in Tokens : ElapsedCooling(t)} IN
  /\ sched.pending = {}
  /\ \A f \in Fetchers : fetch[f] # NoFetch => ~fetch[f].scheduled
  /\ expired # {}
  /\ sched' = [mode |-> mode, pending |-> expired]
  /\ UNCHANGED <<tokens, dirty, req, fetch>>

Handled(t) == sched' = [sched EXCEPT !.pending = @ \ {t}]

\* autoRestoreToken, RestoreToken: active with the default quotas, whatever
\* happened to the token since the snapshot; its failures stay.
RestoreToken(tok) ==
  LET quota == [c \in Categories |-> IF DefaultQuota[c] > 0 THEN DefaultQuota[c]
                                                          ELSE FallbackQuota[c]] IN
  [tok EXCEPT !.quota = quota, !.baseline = quota,
              !.status = "active", !.cool = "none"]

SchedRestore(t) ==
  /\ sched.mode = "auto" /\ t \in sched.pending
  /\ Update(t, RestoreToken(tokens[t]))
  /\ Handled(t)
  /\ UNCHANGED <<req, fetch>>

\* refreshToken: ask upstream about the object that is in memory now.
StartSync(f, t, scheduled) ==
  fetch' = [fetch EXCEPT ![f] = [tok |-> t, live |-> TRUE,
                                 scheduled |-> scheduled]]

SchedRefresh(f, t) ==
  /\ sched.mode = "upstream" /\ t \in sched.pending
  /\ fetch[f] = NoFetch
  /\ IF Loaded(t) THEN StartSync(f, t, TRUE) ELSE UNCHANGED fetch
  /\ Handled(t)
  /\ UNCHANGED <<tokens, dirty, req>>

\* An admin's refresh or health check of any token, or the prober's of an
\* active one.
Probe(f, t) ==
  /\ fetch[f] = NoFetch /\ Loaded(t)
  /\ StartSync(f, t, FALSE)
  /\ UNCHANGED <<tokens, dirty, req, sched>>

(***************************************************************************)
(* SyncQuota: the upstream call runs outside the lock; its answer is       *)
(* written to the object the call started with.                            *)
(***************************************************************************)
Synced(tok, remaining) ==
  LET configured(c) == c # Chat /\ DefaultQuota[c] > 0
      quota == [c \in Categories |-> IF c = Chat THEN remaining
                 ELSE IF configured(c) THEN DefaultQuota[c] ELSE tok.quota[c]]
      baseline == [c \in Categories |->
                 IF c = Chat THEN Larger(tok.baseline[c], remaining)
                 ELSE IF configured(c) THEN DefaultQuota[c] ELSE tok.baseline[c]]
      synced == [tok EXCEPT !.quota = quota, !.baseline = baseline]
  IN CASE remaining > 0 /\ tok.status = "cooling" ->
            [synced EXCEPT !.status = "active", !.cool = "none", !.fails = 0]
       [] remaining <= 0 /\ tok.status = "active" ->
            [synced EXCEPT !.status = "cooling", !.cool = "elapsed"]
       [] OTHER -> synced

\* The object may have left the memory meanwhile: its id is marked anyway.
SyncQuota(f, remaining) ==
  /\ fetch[f] # NoFetch
  /\ LET t == fetch[f].tok IN
       IF fetch[f].live
         THEN Update(t, Synced(tokens[t], remaining))
         ELSE dirty' = dirty \union {t} /\ UNCHANGED tokens
  /\ fetch' = [fetch EXCEPT ![f] = NoFetch]
  /\ UNCHANGED <<req, sched>>

\* Upstream refuses, times out or answers with an unknown body.
SyncFails(f) ==
  /\ fetch[f] # NoFetch
  /\ fetch' = [fetch EXCEPT ![f] = NoFetch]
  /\ UNCHANGED <<tokens, dirty, req, sched>>
-----------------------------------------------------------------------------
(***************************************************************************)
(* The admin API and loading: SyncToken is RemoveToken, then AddToken.     *)
(***************************************************************************)

\* Calls that wait for upstream keep writing to the object that is gone.
Detach(t) == fetch' = [f \in Fetchers |->
  IF fetch[f] # NoFetch /\ fetch[f].tok = t
    THEN [fetch[f] EXCEPT !.live = FALSE] ELSE fetch[f]]

\* A row becomes an object; two SyncTokens that overlap put two of them in, the
\* second over the first.
Object(row, old) == [Normalize(row) EXCEPT !.obj = old # NoToken /\ ~old.obj]

AddToken(t, row) ==
  /\ tokens' = [tokens EXCEPT ![t] = Object(row, @)]
  /\ Detach(t)
  /\ UNCHANGED <<dirty, req, sched>>

RemoveToken(t) ==
  /\ Loaded(t)
  /\ tokens' = [tokens EXCEPT ![t] = NoToken]
  /\ dirty' = dirty \ {t}
  /\ Detach(t)
  /\ UNCHANGED <<req, sched>>

\* A flush has written these ids, some of which may have changed meanwhile.
ClearDirty(ids) ==
  /\ dirty' = dirty \ ids
  /\ UNCHANGED <<tokens, req, fetch, sched>>
-----------------------------------------------------------------------------
RequestStep == \E r \in Requests :
  \/ \E t \in Tokens, c \in Categories : Pick(r, t, c)
  \/ GiveUp(r) \/ ReportFailure(r)
  \/ ChatSuccess(r) \/ \E cost \in Costs : ChatConsume(r, cost)
  \/ MediaConsume(r) \/ MediaSuccess(r)

SchedulerStep == \/ \E mode \in Modes : SchedScan(mode)
                 \/ \E t \in Tokens : SchedRestore(t)
                 \/ \E t \in Tokens, f \in Fetchers : SchedRefresh(f, t)

SyncStep == \E f \in Fetchers :
  \/ \E t \in Tokens : Probe(f, t)
  \/ \E remaining \in Remainings : SyncQuota(f, remaining)
  \/ SyncFails(f)

AdminStep == \E t \in Tokens :
  RemoveToken(t) \/ \E row \in Rows : AddToken(t, row)

Next == \/ RequestStep \/ SchedulerStep \/ SyncStep \/ AdminStep \/ CheckNow
        \/ \E t \in Tokens : CoolElapses(t)
        \/ \E ids \in SUBSET dirty \ {{}} : ClearDirty(ids)

Spec == Init /\ [][Next]_vars

\* The ticker and the scheduler run for as long as the process does; the
\* scheduler works its snapshot off and waits for no one but upstream, whose
\* calls time out.
Fairness ==
  /\ WF_vars(CheckNow)
  /\ WF_vars(\E mode \in Modes : SchedScan(mode))
  /\ \A t \in Tokens : WF_vars(SchedRestore(t) \/ \E f \in Fetchers : SchedRefresh(f, t))
  /\ \A f \in Fetchers : WF_vars(SyncFails(f) \/ \E n \in Remainings : SyncQuota(f, n))
  /\ \A t \in Tokens : WF_vars(CoolElapses(t))

FairSpec == Spec /\ Fairness
-----------------------------------------------------------------------------
(***************************************************************************)
(* Properties.                                                             *)
(***************************************************************************)

\* The initial quota the admin pages show is never below the quota that is
\* left, whatever mixes of Consume, SyncQuota, RestoreToken and AddToken wrote
\* the two (manager.go, quota.go).
BaselineCoversQuota == \A t \in Tokens : Loaded(t) =>
  \A c \in Categories : tokens[t].quota[c] <= tokens[t].baseline[c]

\* A cooling token has a deadline: without one neither the ticker nor the
\* scheduler ever looks at it again (ticker.go, refresh.go).
CoolingHasDeadline == \A t \in Tokens :
  Loaded(t) /\ tokens[t].status = "cooling" => tokens[t].cool # "none"

\* An active token without quota: never picked, and overlooked by ticker and
\* scheduler, because it does not cool.
Zombie(t) == Loaded(t) /\ tokens[t].status = "active" /\ Exhausted(tokens[t])

SuccessOn(t) == \E r \in Requests :
  /\ req[r] # NoRequest /\ req[r].tok = t
  /\ (ChatSuccess(r) \/ MediaSuccess(r))

\* Consume, SyncQuota, the ticker and the scheduler never leave a token a
\* zombie; only a success reported on a token others have exhausted, or a row
\* the admin wrote so, does.
ZombiesComeFromSuccessReports ==
  [][\A t \in Tokens : ~Zombie(t) /\ Zombie(t)' =>
       \/ SuccessOn(t)
       \/ \E row \in Rows : AddToken(t, row)]_vars

\* What a comment of SyncQuota says: an active token with no quota must enter
\* cooling.
NoZombie == \A t \in Tokens : ~Zombie(t)

\* What the persister sees of the memory.
Persisted(tok) ==
  [status |-> tok.status, quota |-> tok.quota, baseline |-> tok.baseline,
   coolUntil |-> tok.cool # "none", fails |-> tok.fails]
mem == [t \in Tokens |-> IF Loaded(t) THEN Persisted(tokens[t]) ELSE NoToken]

obj == [t \in Tokens |-> Loaded(t) /\ tokens[t].obj]

DT == INSTANCE DirtyTokens WITH Values <- PersistedToken

\* A token in memory changes only together with its mark in the dirty set,
\* even where an answer arrives for an object that was replaced.
DirtySpec == DT!Spec

\* While the scheduler's mode is "auto" again and again, no token stays in an
\* elapsed cooling: an answer that never comes does not hold up the round.
ElapsedCoolingEnds ==
  []<>(sched.mode = "auto") => \A t \in Tokens : ElapsedCooling(t) ~> ~ElapsedCooling(t)

\* A cooling token that has quota in some category comes back when its
\* deadline has passed, even if upstream never answers.
Recovering(t) == /\ Cooling(t)
                 /\ tokens[t].cool # "running" /\ ~Exhausted(tokens[t])
TickerRestores == \A t \in Tokens : Recovering(t) ~> ~Recovering(t)
=============================================================================
