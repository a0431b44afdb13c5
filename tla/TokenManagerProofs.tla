------------------------- MODULE TokenManagerProofs -------------------------
(***************************************************************************)
(* Proofs about TokenManager, for any tokens, requests, fetchers and rows. *)
(*                                                                         *)
(* Every action treats a token in one of four ways: it leaves it alone,    *)
(* removes it, loads a row, or applies one of the manager's changes to it  *)
(* (StepTreatsTokens).  The invariants of one token are then lemmas about  *)
(* the changes alone.                                                      *)
(***************************************************************************)
EXTENDS TokenManager, TLAPS

\* What the manager may make of a token that is in memory.
Elapsed(tok) == [tok EXCEPT !.cool = "elapsed"]

Changed(tok, new) ==
  \/ new \in {MarkCooling(tok), MarkFailed(tok), MarkExpired(tok), MarkSuccess(tok)}
  \/ new = RestoreToken(tok)
  \/ tok.cool = "running" /\ new = Elapsed(tok)
  \/ new = Restored(tok)
  \/ \E c \in Categories, cost \in Nat :
       tok.quota[c] > 0 /\ new = Consume(tok, c, cost)
  \/ \E remaining \in Remainings : new = Synced(tok, remaining)

Treated(old, new) ==
  \/ new = old
  \/ new = NoToken
  \/ \E row \in Rows : new = Object(row, old)
  \/ old \in Token /\ Changed(old, new)

-----------------------------------------------------------------------------
(***************************************************************************)
(* The changes of one token.                                               *)
(***************************************************************************)

\* Charging a token, in any category, leaves a token.
LEMMA ConsumeTyped ==
  ASSUME NEW tok \in Token, NEW c \in Categories, NEW cost \in Nat
  PROVE  Consume(tok, c, cost) \in Token
<1> DEFINE charged == [tok EXCEPT !.quota[c] = Larger(@ - cost, 0)]
<1>1. Larger(tok.quota[c] - cost, 0) \in Int
  BY DEF Token, Quotas, Larger
<1>2. [tok.quota EXCEPT ![c] = Larger(@ - cost, 0)] \in Quotas
  BY <1>1 DEF Token, Quotas
<1>3. charged \in Token
  BY <1>2 DEF Token
<1>4. [charged EXCEPT !.status = "cooling", !.cool = "running"] \in Token
  BY <1>3 DEF Token, Status, Deadline
<1> QED
  BY <1>3, <1>4 DEF Consume

\* The failures of a token may be reset.
LEMMA NoFailures == 0 \in 0..FailThreshold
BY ConstantsAssumption

\* An upstream answer leaves a token.
LEMMA SyncedTyped ==
  ASSUME NEW tok \in Token, NEW remaining \in Remainings
  PROVE  Synced(tok, remaining) \in Token
<1> DEFINE configured(c) == c # Chat /\ DefaultQuota[c] > 0
           quota == [c \in Categories |-> IF c = Chat THEN remaining
                 ELSE IF configured(c) THEN DefaultQuota[c] ELSE tok.quota[c]]
           baseline == [c \in Categories |->
                 IF c = Chat THEN Larger(tok.baseline[c], remaining)
                 ELSE IF configured(c) THEN DefaultQuota[c] ELSE tok.baseline[c]]
           synced == [tok EXCEPT !.quota = quota, !.baseline = baseline]
<1>1. quota \in Quotas
  BY ConstantsAssumption DEF Token, Quotas
<1>2. baseline \in Quotas
  BY ConstantsAssumption DEF Token, Quotas, Larger
<1> HIDE DEF quota, baseline
<1>3. synced \in Token
  BY <1>1, <1>2 DEF Token
<1>4. Synced(tok, remaining) =
        CASE remaining > 0 /\ tok.status = "cooling" ->
               [synced EXCEPT !.status = "active", !.cool = "none", !.fails = 0]
          [] remaining <= 0 /\ tok.status = "active" ->
               [synced EXCEPT !.status = "cooling", !.cool = "elapsed"]
          [] OTHER -> synced
  BY DEF Synced, quota, baseline
<1> HIDE DEF synced
<1>5. [synced EXCEPT !.status = "active", !.cool = "none", !.fails = 0] \in Token
  BY <1>3, NoFailures DEF Token, Status, Deadline
<1>6. [synced EXCEPT !.status = "cooling", !.cool = "elapsed"] \in Token
  BY <1>3 DEF Token, Status, Deadline
<1> QED
  BY <1>3, <1>4, <1>5, <1>6

\* Loading a row makes a token of it.
LEMMA NormalizeTyped ==
  ASSUME NEW row \in Rows
  PROVE  Normalize(row) \in Token
BY ConstantsAssumption DEF Normalize, Token, Quotas, Larger

\* So does putting it in over an object or over none.
LEMMA ObjectTyped ==
  ASSUME NEW row \in Rows, NEW old \in Token \union {NoToken}
  PROVE  Object(row, old) \in Token
<1>1. (old # NoToken /\ ~old.obj) \in BOOLEAN
  OBVIOUS
<1> QED
  BY <1>1, NormalizeTyped DEF Object, Token

\* It keeps everything of the row but the history of the object.
LEMMA ObjectKeeps ==
  ASSUME NEW row \in Rows, NEW old
  PROVE  LET new == Object(row, old)  norm == Normalize(row) IN
         /\ new.quota = norm.quota /\ new.baseline = norm.baseline
         /\ new.status = norm.status /\ new.cool = norm.cool
BY NormalizeTyped DEF Object, Token

\* Every change leaves a token.
LEMMA ChangedTyped ==
  ASSUME NEW tok \in Token, NEW new, Changed(tok, new)
  PROVE  new \in Token
<1>1. /\ MarkCooling(tok) \in Token /\ MarkExpired(tok) \in Token
      /\ MarkSuccess(tok) \in Token
  BY NoFailures
  DEF MarkCooling, MarkExpired, MarkSuccess, Token, Status, Deadline
<1>2. MarkFailed(tok) \in Token
  <2> DEFINE n == Smaller(tok.fails + 1, FailThreshold)
  <2>1. n \in 0..FailThreshold
    BY ConstantsAssumption DEF Smaller, Token
  <2> HIDE DEF n
  <2>2. MarkFailed(tok) = [tok EXCEPT !.fails = n,
          !.status = IF FailThreshold > 0 /\ n >= FailThreshold
                       THEN "disabled" ELSE tok.status]
    BY DEF MarkFailed, n
  <2> QED
    BY <2>1, <2>2 DEF Token, Status
<1>3. RestoreToken(tok) \in Token
  <2> DEFINE quota == [c \in Categories |->
               IF DefaultQuota[c] > 0 THEN DefaultQuota[c] ELSE FallbackQuota[c]]
  <2>1. quota \in Quotas
    BY ConstantsAssumption DEF Quotas
  <2> HIDE DEF quota
  <2>2. RestoreToken(tok) = [tok EXCEPT !.quota = quota, !.baseline = quota,
                                        !.status = "active", !.cool = "none"]
    BY DEF RestoreToken, quota
  <2> QED
    BY <2>1, <2>2 DEF Token, Status, Deadline
<1>4. Elapsed(tok) \in Token /\ Restored(tok) \in Token
  BY DEF Elapsed, Restored, Token, Status, Deadline
<1> QED
  BY <1>1, <1>2, <1>3, <1>4, ConsumeTyped, SyncedTyped DEF Changed

\* A token that was treated is a token, or gone.
LEMMA TreatedTyped ==
  ASSUME NEW old \in Token \union {NoToken}, NEW new, Treated(old, new)
  PROVE  new \in Token \union {NoToken}
BY ObjectTyped, ChangedTyped DEF Treated
-----------------------------------------------------------------------------
(***************************************************************************)
(* The steps.                                                              *)
(***************************************************************************)

\* Update writes the object of one token, if there is one.
LEMMA UpdateTreats ==
  ASSUME TypeOK, NEW t \in Tokens, NEW tok, Update(t, tok),
         Loaded(t) => Changed(tokens[t], tok)
  PROVE  /\ tokens' = [u \in Tokens |-> tokens'[u]]
         /\ \A u \in Tokens : Treated(tokens[u], tokens'[u])
         /\ dirty' \subseteq Tokens
<1>1. CASE Loaded(t)
  BY <1>1 DEF Update, TypeOK, Treated, Loaded
<1>2. CASE ~Loaded(t)
  BY <1>2 DEF Update, TypeOK, Treated
<1> QED
  BY <1>1, <1>2

\* A goroutine that holds a token knows which one.
LEMMA HeldToken ==
  ASSUME TypeOK, NEW r \in Requests, NEW phases, Holding(r, phases)
  PROVE  req[r] \in Request /\ req[r].tok \in Tokens
BY DEF TypeOK, Holding, Request

\* One token is updated by one of the manager's changes, ...
UpdateStep == \E t \in Tokens : \E tok :
  Update(t, tok) /\ (Loaded(t) => Changed(tokens[t], tok))
\* ... or none is.
Quiet == tokens' = tokens /\ \E S \in SUBSET Tokens : dirty' = dirty \union S

\* A step of a request updates one token or none.
LEMMA RequestShape ==
  ASSUME TypeOK, RequestStep
  PROVE  (tokens' = tokens /\ dirty' = dirty) \/ UpdateStep
<1>1. PICK r \in Requests :
        \/ \E t \in Tokens, c \in Categories : Pick(r, t, c)
        \/ GiveUp(r) \/ ReportFailure(r)
        \/ ChatSuccess(r) \/ \E cost \in Costs : ChatConsume(r, cost)
        \/ MediaConsume(r) \/ MediaSuccess(r)
  BY DEF RequestStep
<1>2. CASE (\E t \in Tokens, c \in Categories : Pick(r, t, c)) \/ GiveUp(r)
  BY <1>2 DEF Pick, GiveUp
<1>3. CASE ReportFailure(r)
  <2>1. req[r].tok \in Tokens
    BY <1>3, HeldToken DEF ReportFailure
  <2>2. PICK tok \in {MarkCooling(tokens[req[r].tok]), MarkFailed(tokens[req[r].tok]),
                      MarkExpired(tokens[req[r].tok])} : Update(req[r].tok, tok)
    BY <1>3 DEF ReportFailure
  <2> QED
    BY <2>1, <2>2 DEF Changed, UpdateStep
<1>4. CASE ChatSuccess(r) \/ MediaSuccess(r)
  <2>1. req[r].tok \in Tokens
    BY <1>4, HeldToken DEF ChatSuccess, MediaSuccess
  <2>2. Update(req[r].tok, MarkSuccess(tokens[req[r].tok]))
    BY <1>4 DEF ChatSuccess, MediaSuccess
  <2> QED
    BY <2>1, <2>2 DEF Changed, UpdateStep
<1>5. CASE \E cost \in Costs : ChatConsume(r, cost)
  <2>1. PICK cost \in Costs : ChatConsume(r, cost)
    BY <1>5
  <2>2. req[r].tok \in Tokens /\ cost \in Nat /\ Chat \in Categories
    BY <2>1, HeldToken, ConstantsAssumption DEF ChatConsume
  <2>3. \/ tokens' = tokens /\ dirty' = dirty
        \/ /\ tokens[req[r].tok].quota[Chat] > 0
           /\ Update(req[r].tok, Consume(tokens[req[r].tok], Chat, cost))
    BY <2>1 DEF ChatConsume, CanConsume
  <2> QED
    BY <2>2, <2>3 DEF Changed, UpdateStep
<1>6. CASE MediaConsume(r)
  <2>1. req[r].tok \in Tokens /\ req[r].cat \in Categories
    BY <1>6, HeldToken DEF MediaConsume, Request
  <2>2. \/ tokens' = tokens /\ dirty' = dirty
        \/ /\ tokens[req[r].tok].quota[req[r].cat] > 0
           /\ Update(req[r].tok, Consume(tokens[req[r].tok], req[r].cat, 1))
    BY <1>6 DEF MediaConsume, CanConsume
  <2> QED
    BY <2>1, <2>2 DEF Changed, UpdateStep
<1> QED
  BY <1>1, <1>2, <1>3, <1>4, <1>5, <1>6

\* So does a step of the recovery scheduler.
LEMMA SchedulerShape ==
  ASSUME TypeOK, SchedulerStep
  PROVE  (tokens' = tokens /\ dirty' = dirty) \/ UpdateStep
<1>1. CASE \E t \in Tokens : SchedRestore(t)
  BY <1>1 DEF SchedRestore, Changed, UpdateStep
<1>2. CASE \/ \E mode \in Modes : SchedScan(mode)
           \/ \E t \in Tokens, f \in Fetchers : SchedRefresh(f, t)
  BY <1>2 DEF SchedScan, SchedRefresh
<1> QED
  BY <1>1, <1>2 DEF SchedulerStep

\* So does a step of a quota synchronisation, but it may mark a token whose
\* object it did not find in the memory any more.
LEMMA SyncShape ==
  ASSUME TypeOK, SyncStep
  PROVE  Quiet \/ UpdateStep
<1>1. PICK f \in Fetchers : \/ \E t \in Tokens : Probe(f, t)
                            \/ \E remaining \in Remainings : SyncQuota(f, remaining)
                            \/ SyncFails(f)
  BY DEF SyncStep
<1>2. CASE \E remaining \in Remainings : SyncQuota(f, remaining)
  <2>1. PICK remaining \in Remainings : SyncQuota(f, remaining)
    BY <1>2
  <2>2. fetch[f].tok \in Tokens
    BY <2>1 DEF SyncQuota, TypeOK, Fetch
  <2>3. CASE fetch[f].live
    <3>1. Update(fetch[f].tok, Synced(tokens[fetch[f].tok], remaining))
      BY <2>1, <2>3 DEF SyncQuota
    <3> QED
      BY <2>2, <3>1 DEF Changed, UpdateStep
  <2>4. CASE ~fetch[f].live
    BY <2>1, <2>2, <2>4 DEF SyncQuota, Quiet
  <2> QED
    BY <2>3, <2>4
<1>3. CASE (\E t \in Tokens : Probe(f, t)) \/ SyncFails(f)
  <2>1. tokens' = tokens /\ dirty' = dirty \union {}
    BY <1>3 DEF Probe, SyncFails
  <2> QED
    BY <2>1 DEF Quiet
<1> QED
  BY <1>1, <1>2, <1>3

\* The admin's steps, the ticker and the clock treat every token as described.
LEMMA OtherTreats ==
  ASSUME TypeOK, AdminStep \/ CheckNow \/ \E t \in Tokens : CoolElapses(t)
  PROVE  /\ tokens' = [u \in Tokens |-> tokens'[u]]
         /\ \A u \in Tokens : Treated(tokens[u], tokens'[u])
         /\ dirty' \subseteq Tokens
<1>1. CASE AdminStep
  <2>1. PICK t \in Tokens : RemoveToken(t) \/ \E row \in Rows : AddToken(t, row)
    BY <1>1 DEF AdminStep
  <2>2. CASE RemoveToken(t)
    BY <2>2 DEF RemoveToken, TypeOK, Treated
  <2>3. CASE \E row \in Rows : AddToken(t, row)
    BY <2>3 DEF AddToken, TypeOK, Treated
  <2> QED
    BY <2>1, <2>2, <2>3
<1>2. CASE CheckNow
  <2>1. \A u \in Tokens :
          \/ tokens'[u] = tokens[u]
          \/ u \in Restorable /\ tokens'[u] = Restored(tokens[u])
    BY <1>2 DEF CheckNow
  <2>2. \A u \in Restorable : tokens[u] \in Token
    BY DEF Restorable, ElapsedCooling, Cooling, Loaded, TypeOK
  <2> QED
    BY <1>2, <2>1, <2>2 DEF CheckNow, Restorable, TypeOK, Treated, Changed
<1>3. CASE \E t \in Tokens : CoolElapses(t)
  <2>1. PICK t \in Tokens : CoolElapses(t)
    BY <1>3
  <2>2. /\ tokens[t] \in Token /\ tokens[t].cool = "running"
        /\ tokens' = [tokens EXCEPT ![t] = Elapsed(tokens[t])]
        /\ dirty' = dirty
    BY <2>1 DEF CoolElapses, Loaded, TypeOK, Elapsed
  <2> QED
    BY <2>2 DEF TypeOK, Treated, Changed
<1> QED
  BY <1>1, <1>2, <1>3

\* The end of a flush changes marks only.
LEMMA ClearTreats ==
  ASSUME TypeOK, NEW ids, ClearDirty(ids)
  PROVE  /\ tokens' = [u \in Tokens |-> tokens'[u]]
         /\ \A u \in Tokens : Treated(tokens[u], tokens'[u])
         /\ dirty' \subseteq Tokens
BY DEF ClearDirty, TypeOK, Treated

\* Every step treats every token as described above.
LEMMA StepTreatsTokens ==
  ASSUME TypeOK, [Next]_vars
  PROVE  /\ tokens' = [u \in Tokens |-> tokens'[u]]
         /\ \A u \in Tokens : Treated(tokens[u], tokens'[u])
         /\ dirty' \subseteq Tokens
<1>1. CASE Quiet \/ (tokens' = tokens /\ dirty' = dirty)
  BY <1>1 DEF Quiet, TypeOK, Treated
<1>2. CASE UpdateStep
  BY <1>2, UpdateTreats DEF UpdateStep
<1>3. CASE UNCHANGED vars
  BY <1>3 DEF vars, TypeOK, Treated
<1> QED
  BY <1>1, <1>2, <1>3, RequestShape, SchedulerShape, SyncShape, OtherTreats,
     ClearTreats DEF Next
-----------------------------------------------------------------------------
(***************************************************************************)
(* Type correctness.                                                       *)
(***************************************************************************)

\* A SyncQuota call that starts is recorded as one.
LEMMA StartSyncTyped ==
  ASSUME TypeOK, NEW f \in Fetchers, NEW t \in Tokens, NEW scheduled \in BOOLEAN,
         StartSync(f, t, scheduled)
  PROVE  fetch' \in [Fetchers -> Fetch \union {NoFetch}]
<1>1. [tok |-> t, live |-> TRUE, scheduled |-> scheduled] \in Fetch
  BY DEF Fetch
<1> QED
  BY <1>1 DEF StartSync, TypeOK

\* The goroutines' own state stays typed.
LEMMA GoroutinesTyped ==
  ASSUME TypeOK, [Next]_vars
  PROVE  /\ req' \in [Requests -> Request \union {NoRequest}]
         /\ fetch' \in [Fetchers -> Fetch \union {NoFetch}]
         /\ sched' \in [mode : {"auto", "upstream"}, pending : SUBSET Tokens]
<1>1. CASE RequestStep
  <2>1. PICK r \in Requests :
          \/ \E t \in Tokens, c \in Categories : Pick(r, t, c)
          \/ GiveUp(r) \/ ReportFailure(r)
          \/ ChatSuccess(r) \/ \E cost \in Costs : ChatConsume(r, cost)
          \/ MediaConsume(r) \/ MediaSuccess(r)
    BY <1>1 DEF RequestStep
  <2>2. fetch' = fetch /\ sched' = sched
    BY <2>1 DEF Pick, GiveUp, ReportFailure, ChatSuccess, ChatConsume,
                MediaConsume, MediaSuccess
  <2>3. CASE \E t \in Tokens, c \in Categories : Pick(r, t, c)
    BY <2>2, <2>3, ConstantsAssumption DEF Pick, TypeOK, Request
  <2>4. CASE GiveUp(r) \/ MediaSuccess(r) \/ \E cost \in Costs : ChatConsume(r, cost)
    <3>1. Drop(r)
      BY <2>4 DEF GiveUp, ChatConsume, MediaSuccess
    <3> QED
      BY <2>2, <3>1 DEF Drop, TypeOK
  <2>5. CASE ReportFailure(r)
    <3>1. req[r] \in Request /\ Retry(r)
      BY <2>5, HeldToken DEF ReportFailure
    <3>2. req[r].left - 1 \in 0..MaxReports
      BY <3>1, ConstantsAssumption DEF Retry, Request
    <3>3. [req[r] EXCEPT !.left = @ - 1] \in Request
      BY <3>1, <3>2 DEF Request
    <3> QED
      BY <2>2, <3>1, <3>3 DEF Retry, TypeOK
  <2>6. CASE ChatSuccess(r) \/ MediaConsume(r)
    <3>1. req[r] \in Request
      BY <2>6, HeldToken DEF ChatSuccess, MediaConsume
    <3>2. Drop(r) \/ \E phase \in {"reported", "charged"} : Become(r, phase)
      BY <2>6 DEF ChatSuccess, MediaConsume
    <3>3. \A phase \in {"reported", "charged"} :
            [req[r] EXCEPT !.phase = phase] \in Request
      BY <3>1 DEF Request
    <3> QED
      BY <2>2, <3>2, <3>3 DEF Drop, Become, TypeOK
  <2> QED
    BY <2>1, <2>3, <2>4, <2>5, <2>6
<1>2. CASE SchedulerStep
  <2>1. CASE \E mode \in Modes : SchedScan(mode)
    BY <2>1, ConstantsAssumption DEF SchedScan, TypeOK
  <2>2. CASE \E t \in Tokens : SchedRestore(t)
    BY <2>2 DEF SchedRestore, Handled, TypeOK
  <2>3. CASE \E t \in Tokens, f \in Fetchers : SchedRefresh(f, t)
    <3>1. PICK t \in Tokens, f \in Fetchers : SchedRefresh(f, t)
      BY <2>3
    <3>2. fetch' \in [Fetchers -> Fetch \union {NoFetch}]
      BY <3>1, StartSyncTyped DEF SchedRefresh, TypeOK
    <3> QED
      BY <3>1, <3>2 DEF SchedRefresh, Handled, TypeOK
  <2> QED
    BY <1>2, <2>1, <2>2, <2>3 DEF SchedulerStep
<1>3. CASE SyncStep
  <2>1. PICK f \in Fetchers : \/ \E t \in Tokens : Probe(f, t)
                              \/ \E remaining \in Remainings : SyncQuota(f, remaining)
                              \/ SyncFails(f)
    BY <1>3 DEF SyncStep
  <2>2. req' = req /\ sched' = sched
    BY <2>1 DEF Probe, SyncQuota, SyncFails
  <2>3. \/ \E t \in Tokens : StartSync(f, t, FALSE)
        \/ fetch' = [fetch EXCEPT ![f] = NoFetch]
    BY <2>1 DEF Probe, SyncQuota, SyncFails
  <2> QED
    BY <2>2, <2>3, StartSyncTyped DEF TypeOK
<1>4. CASE AdminStep
  <2>1. PICK t \in Tokens : RemoveToken(t) \/ \E row \in Rows : AddToken(t, row)
    BY <1>4 DEF AdminStep
  <2>2. Detach(t) /\ req' = req /\ sched' = sched
    BY <2>1 DEF RemoveToken, AddToken
  <2>3. \A f \in Fetchers : fetch[f] # NoFetch =>
          [fetch[f] EXCEPT !.live = FALSE] \in Fetch
    BY DEF TypeOK, Fetch
  <2> QED
    BY <2>2, <2>3 DEF Detach, TypeOK
<1>5. CASE \/ CheckNow \/ \E t \in Tokens : CoolElapses(t)
           \/ (\E ids : ClearDirty(ids)) \/ UNCHANGED vars
  BY <1>5 DEF CheckNow, CoolElapses, ClearDirty, vars, TypeOK
<1> QED
  BY <1>1, <1>2, <1>3, <1>4, <1>5 DEF Next

\* A step from a typed state ends in one.
LEMMA TypeOKStep == TypeOK /\ [Next]_vars => TypeOK'
<1> SUFFICES ASSUME TypeOK, [Next]_vars PROVE TypeOK'
  OBVIOUS
<1>1. \A u \in Tokens : tokens[u] \in Token \union {NoToken}
  BY DEF TypeOK
<1>2. \A u \in Tokens : tokens'[u] \in Token \union {NoToken}
  BY <1>1, StepTreatsTokens, TreatedTyped
<1> QED
  BY <1>2, StepTreatsTokens, GoroutinesTyped DEF TypeOK

\* The rows loaded at the start are typed.
LEMMA TypeOKInit == Init => TypeOK
BY NormalizeTyped DEF Init, TypeOK

\* TokenManager's variables stay in their types, whatever requests, quota answers
\* and reloads overlap.  Quotas are integers of any sign: nothing checks what an
\* admin writes (admin_token.go) or upstream answers (quota.go).
THEOREM TypeCorrect == Spec => []TypeOK
BY TypeOKInit, TypeOKStep, PTL DEF Spec
-----------------------------------------------------------------------------
(***************************************************************************)
(* Where a negative quota comes from.                                      *)
(***************************************************************************)

\* A number an unchecked answer or an unchecked row holds.
Given(n, c) == n \in Remainings \/ \E row \in Rows : n = row.quota[c]

\* No arithmetic of the manager makes a quota negative: one that is was answered
\* by upstream or written by an admin as it stands (Consume, SyncQuota).
Owned(tok) == \A c \in Categories : tok.quota[c] < 0 => Given(tok.quota[c], c)
NegativesAreGiven == \A t \in Tokens : Loaded(t) => Owned(tokens[t])

\* Loading a row keeps its quota.
LEMMA ObjectOwned ==
  ASSUME NEW row \in Rows, NEW old
  PROVE  Owned(Object(row, old))
<1>1. Object(row, old).quota = row.quota
  BY ObjectKeeps, ConstantsAssumption DEF Normalize, Token
<1> QED
  BY <1>1 DEF Owned, Given

\* A change leaves a negative quota alone, or takes upstream's.
LEMMA ChangedOwned ==
  ASSUME NEW tok \in Token, Owned(tok), NEW new, Changed(tok, new)
  PROVE  Owned(new)
<1>1. CASE \/ new \in {MarkCooling(tok), MarkFailed(tok), MarkExpired(tok), MarkSuccess(tok)}
           \/ new = Elapsed(tok) \/ new = Restored(tok)
  <2>1. new.quota = tok.quota
    BY <1>1 DEF MarkCooling, MarkFailed, MarkExpired, MarkSuccess, Elapsed,
                Restored, Token
  <2> QED
    BY <2>1 DEF Owned
<1>2. CASE new = RestoreToken(tok)
  <2>1. \A c \in Categories : DefaultQuota[c] \in Int /\ FallbackQuota[c] \in Nat
    BY ConstantsAssumption DEF Quotas
  <2>2. \A c \in Categories : new.quota[c] = IF DefaultQuota[c] > 0
                                 THEN DefaultQuota[c] ELSE FallbackQuota[c]
    BY <1>2 DEF RestoreToken, Token
  <2> QED
    BY <2>1, <2>2 DEF Owned
<1>3. CASE \E c \in Categories, cost \in Nat : new = Consume(tok, c, cost)
  <2>1. PICK c \in Categories, cost \in Nat : new = Consume(tok, c, cost)
    BY <1>3
  <2> DEFINE less == [tok.quota EXCEPT ![c] = Larger(@ - cost, 0)]
  <2>2. new.quota = less
    BY <2>1 DEF Consume, Token
  <2>3. tok.quota \in [Categories -> Int]
    BY DEF Token, Quotas
  <2>4. \A d \in Categories : less[d] < 0 => less[d] = tok.quota[d]
    BY <2>3 DEF Larger
  <2> QED
    BY <2>2, <2>4 DEF Owned
<1>4. CASE \E remaining \in Remainings : new = Synced(tok, remaining)
  <2>1. PICK remaining \in Remainings : new = Synced(tok, remaining)
    BY <1>4
  <2>2. new.quota = [c \in Categories |-> IF c = Chat THEN remaining
               ELSE IF c # Chat /\ DefaultQuota[c] > 0 THEN DefaultQuota[c]
               ELSE tok.quota[c]]
    BY <2>1 DEF Synced, Token
  <2>3. DefaultQuota \in [Categories -> Int]
    BY ConstantsAssumption DEF Quotas
  <2>4. \A c \in Categories : new.quota[c] < 0 =>
          new.quota[c] = remaining \/ new.quota[c] = tok.quota[c]
    BY <2>2, <2>3
  <2> QED
    BY <2>4 DEF Owned, Given
<1> QED
  BY <1>1, <1>2, <1>3, <1>4 DEF Changed

\* Whatever requests overlap, charging a token (Consume) never overdraws it: a
\* negative quota is one an admin's row or upstream brought in, unchanged since.
THEOREM NegativeQuotasAreGiven == Spec => []NegativesAreGiven
<1>1. Init => NegativesAreGiven
  <2> SUFFICES ASSUME Init, NEW t \in Tokens, Loaded(t) PROVE Owned(tokens[t])
    BY DEF NegativesAreGiven
  <2>1. PICK row \in Rows : tokens[t] = Normalize(row)
    BY DEF Init, Loaded
  <2>2. tokens[t].quota = row.quota
    BY <2>1, ConstantsAssumption DEF Normalize, Token
  <2> QED
    BY <2>2 DEF Owned, Given
<1>2. TypeOK /\ NegativesAreGiven /\ [Next]_vars => NegativesAreGiven'
  <2> SUFFICES ASSUME TypeOK, NegativesAreGiven, [Next]_vars,
                      NEW t \in Tokens, Loaded(t)'
               PROVE  Owned(tokens'[t])
    BY DEF NegativesAreGiven, Owned, Given
  <2>1. Treated(tokens[t], tokens'[t]) /\ tokens'[t] # NoToken
    BY StepTreatsTokens DEF Loaded
  <2>2. tokens[t] \in Token => Owned(tokens[t])
    BY AbsentAssumption DEF NegativesAreGiven, Loaded
  <2>3. tokens[t] # NoToken => Owned(tokens[t])
    BY DEF NegativesAreGiven, Loaded
  <2>4. ASSUME NEW row \in Rows, tokens'[t] = Object(row, tokens[t])
        PROVE  Owned(tokens'[t])
    BY <2>4, ObjectOwned
  <2> QED
    BY <2>1, <2>2, <2>3, <2>4, ChangedOwned DEF Treated
<1> QED
  BY <1>1, <1>2, TypeCorrect, PTL DEF Spec
-----------------------------------------------------------------------------
(***************************************************************************)
(* The baseline covers the quota.                                          *)
(***************************************************************************)
Covered(tok) == \A c \in Categories : tok.quota[c] <= tok.baseline[c]

\* A row is normalised when it is loaded, ...
LEMMA NormalizeCovers ==
  ASSUME NEW row \in Rows
  PROVE  Covered(Normalize(row))
BY ConstantsAssumption DEF Covered, Normalize, Token, Quotas, Larger

\* ... and no change raises a quota above its baseline.
LEMMA ChangedCovers ==
  ASSUME NEW tok \in Token, Covered(tok), NEW new, Changed(tok, new)
  PROVE  Covered(new)
<1>1. CASE \/ new \in {MarkCooling(tok), MarkFailed(tok), MarkExpired(tok), MarkSuccess(tok)}
           \/ new = Elapsed(tok) \/ new = Restored(tok)
  <2>1. new.quota = tok.quota /\ new.baseline = tok.baseline
    BY <1>1 DEF MarkCooling, MarkFailed, MarkExpired, MarkSuccess, Elapsed,
                Restored, Token
  <2> QED
    BY <2>1 DEF Covered
<1>2. CASE new = RestoreToken(tok)
  <2>1. \A c \in Categories : DefaultQuota[c] \in Int /\ FallbackQuota[c] \in Int
    BY ConstantsAssumption DEF Quotas
  <2>2. new.quota = new.baseline /\ \A c \in Categories : new.quota[c] \in Int
    BY <1>2, <2>1 DEF RestoreToken, Token
  <2> QED
    BY <2>2 DEF Covered
<1>3. CASE \E c \in Categories, cost \in Nat :
             tok.quota[c] > 0 /\ new = Consume(tok, c, cost)
  <2>1. PICK c \in Categories, cost \in Nat :
             tok.quota[c] > 0 /\ new = Consume(tok, c, cost)
    BY <1>3
  <2> DEFINE less == [tok.quota EXCEPT ![c] = Larger(@ - cost, 0)]
  <2>2. new.quota = less /\ new.baseline = tok.baseline
    BY <2>1 DEF Consume, Token
  <2>3. \A d \in Categories : tok.quota[d] \in Int /\ tok.baseline[d] \in Int
    BY DEF Token, Quotas
  <2>4. \A d \in Categories : less[d] <= tok.quota[d] /\ less[d] \in Int
    BY <2>1, <2>3 DEF Token, Quotas, Larger
  <2> QED
    BY <2>2, <2>3, <2>4 DEF Covered
<1>4. CASE \E remaining \in Remainings : new = Synced(tok, remaining)
  <2>1. PICK remaining \in Remainings : new = Synced(tok, remaining)
    BY <1>4
  <2>2. /\ new.quota = [c \in Categories |-> IF c = Chat THEN remaining
               ELSE IF c # Chat /\ DefaultQuota[c] > 0 THEN DefaultQuota[c]
               ELSE tok.quota[c]]
        /\ new.baseline = [c \in Categories |->
               IF c = Chat THEN Larger(tok.baseline[c], remaining)
               ELSE IF c # Chat /\ DefaultQuota[c] > 0 THEN DefaultQuota[c]
               ELSE tok.baseline[c]]
    BY <2>1 DEF Synced, Token
  <2>3. \A c \in Categories : /\ tok.quota[c] \in Int /\ tok.baseline[c] \in Int
                             /\ DefaultQuota[c] \in Int
    BY ConstantsAssumption DEF Token, Quotas
  <2>4. remaining \in Int
    BY ConstantsAssumption
  <2> QED
    BY <2>2, <2>3, <2>4 DEF Covered, Larger
<1> QED
  BY <1>1, <1>2, <1>3, <1>4 DEF Changed

\* A step keeps every loaded token covered.
LEMMA BaselineStep ==
  TypeOK /\ BaselineCoversQuota /\ [Next]_vars => BaselineCoversQuota'
<1> SUFFICES ASSUME TypeOK, BaselineCoversQuota, [Next]_vars,
                    NEW t \in Tokens, Loaded(t)'
             PROVE  Covered(tokens'[t])
  BY DEF BaselineCoversQuota, Covered
<1>1. Treated(tokens[t], tokens'[t]) /\ tokens'[t] # NoToken
  BY StepTreatsTokens DEF Loaded
<1>2. tokens[t] \in Token => tokens[t] # NoToken
  BY AbsentAssumption
<1>3. tokens[t] # NoToken => Covered(tokens[t])
  BY DEF BaselineCoversQuota, Covered, Loaded
<1>4. ASSUME NEW row \in Rows, tokens'[t] = Object(row, tokens[t])
      PROVE  Covered(tokens'[t])
  BY <1>4, NormalizeCovers, ObjectKeeps DEF Covered
<1> QED
  BY <1>1, <1>2, <1>3, <1>4, ChangedCovers DEF Treated

\* The invariant BaselineCoversQuota of the runs, for all constants: no mix of
\* Consume, SyncQuota, RestoreToken and AddToken shows more quota than there
\* ever was.
THEOREM BaselineCovers == Spec => []BaselineCoversQuota
<1>1. Init => BaselineCoversQuota
  <2> SUFFICES ASSUME Init, NEW t \in Tokens, Loaded(t) PROVE Covered(tokens[t])
    BY DEF BaselineCoversQuota, Covered
  <2>1. \E row \in Rows : tokens[t] = Normalize(row)
    BY DEF Init, Loaded
  <2> QED
    BY <2>1, NormalizeCovers
<1> QED
  BY <1>1, BaselineStep, TypeCorrect, PTL DEF Spec
-----------------------------------------------------------------------------
(***************************************************************************)
(* Where a token without quota gets active.                                *)
(***************************************************************************)
Dead(tok) == tok.status = "active" /\ Exhausted(tok)

\* Consume leaves no active token without quota: it cools it.
LEMMA ConsumeSpares ==
  ASSUME NEW tok \in Token, NEW c \in Categories, NEW cost \in Nat
  PROVE  ~Dead(Consume(tok, c, cost))
<1> DEFINE charged == [tok EXCEPT !.quota[c] = Larger(@ - cost, 0)]
<1>1. CASE Exhausted(charged)
  <2>1. Consume(tok, c, cost).status = "cooling"
    BY <1>1 DEF Consume, Token
  <2> QED
    BY <2>1 DEF Dead
<1>2. CASE ~Exhausted(charged)
  BY <1>2 DEF Consume, Dead
<1> QED
  BY <1>1, <1>2

\* Neither does an answer of upstream.
LEMMA SyncedSpares ==
  ASSUME NEW tok \in Token, NEW remaining \in Remainings
  PROVE  ~Dead(Synced(tok, remaining))
<1> DEFINE new == Synced(tok, remaining)
<1>1. remaining \in Int /\ Chat \in Categories
  BY ConstantsAssumption
<1>2. CASE remaining > 0
  <2>1. new.quota[Chat] = remaining
    BY <1>1 DEF Synced, Token
  <2> QED
    BY <1>1, <1>2, <2>1 DEF Dead, Exhausted
<1>3. CASE ~(remaining > 0)
  <2>1. new.status = IF tok.status = "active" THEN "cooling" ELSE tok.status
    BY <1>1, <1>3 DEF Synced, Token
  <2> QED
    BY <2>1 DEF Dead
<1> QED
  BY <1>2, <1>3

\* The scheduler restores default quotas, which are positive.
LEMMA RestoreSpares ==
  ASSUME NEW tok \in Token
  PROVE  ~Dead(RestoreToken(tok))
<1>1. /\ Chat \in Categories /\ DefaultQuota[Chat] \in Int
      /\ FallbackQuota[Chat] \in Nat \ {0}
  BY ConstantsAssumption DEF Quotas
<1>2. RestoreToken(tok).quota[Chat] = IF DefaultQuota[Chat] > 0 THEN DefaultQuota[Chat]
                                                               ELSE FallbackQuota[Chat]
  BY <1>1 DEF RestoreToken, Token
<1>3. RestoreToken(tok).quota[Chat] > 0 /\ RestoreToken(tok).quota[Chat] \in Int
  BY <1>1, <1>2
<1> QED
  BY <1>1, <1>3 DEF Dead, Exhausted

\* A reported failure and the clock leave the quota, and no status that is not
\* active becomes active.
LEMMA FailureSpares ==
  ASSUME NEW tok \in Token, ~Dead(tok),
         NEW new \in {MarkCooling(tok), MarkFailed(tok), MarkExpired(tok), Elapsed(tok)}
  PROVE  ~Dead(new)
<1>1. new.quota = tok.quota /\ (new.status = "active" => tok.status = "active")
  BY DEF MarkCooling, MarkFailed, MarkExpired, Elapsed, Token
<1> QED
  BY <1>1 DEF Dead, Exhausted

\* The one token an update writes.
LEMMA UpdateOf ==
  ASSUME TypeOK, NEW t \in Tokens, NEW u \in Tokens, NEW tok, Update(u, tok),
         ~Zombie(t), Zombie(t)'
  PROVE  u = t /\ tokens[t] \in Token /\ ~Dead(tokens[t]) /\ Dead(tok)
<1>1. Loaded(u) /\ tokens' = [tokens EXCEPT ![u] = tok]
  BY DEF Update, Zombie, Loaded, Exhausted
<1>2. u = t
  BY <1>1 DEF Zombie, Loaded, TypeOK, Exhausted
<1>3. tokens'[t] = tok
  BY <1>1, <1>2 DEF TypeOK
<1> QED
  BY <1>1, <1>2, <1>3 DEF Zombie, Dead, Loaded, TypeOK, Exhausted

\* A request leaves a token active without quota by a report of success only.
LEMMA RequestZombie ==
  ASSUME TypeOK, RequestStep, NEW t \in Tokens, ~Zombie(t), Zombie(t)'
  PROVE  SuccessOn(t)
<1>1. PICK r \in Requests :
        \/ \E u \in Tokens, c \in Categories : Pick(r, u, c)
        \/ GiveUp(r) \/ ReportFailure(r)
        \/ ChatSuccess(r) \/ \E cost \in Costs : ChatConsume(r, cost)
        \/ MediaConsume(r) \/ MediaSuccess(r)
  BY DEF RequestStep
<1>2. tokens' # tokens
  BY DEF Zombie, Loaded, Exhausted
<1>3. CASE (\E u \in Tokens, c \in Categories : Pick(r, u, c)) \/ GiveUp(r)
  BY <1>2, <1>3 DEF Pick, GiveUp
<1>4. CASE ReportFailure(r)
  <2>1. req[r].tok \in Tokens
    BY <1>4, HeldToken DEF ReportFailure
  <2>2. PICK tok \in {MarkCooling(tokens[req[r].tok]), MarkFailed(tokens[req[r].tok]),
                      MarkExpired(tokens[req[r].tok])} : Update(req[r].tok, tok)
    BY <1>4 DEF ReportFailure
  <2> QED
    BY <2>1, <2>2, UpdateOf, FailureSpares
<1>5. CASE ChatSuccess(r) \/ MediaSuccess(r)
  <2>1. req[r] # NoRequest /\ req[r].tok \in Tokens
    BY <1>5, HeldToken DEF ChatSuccess, MediaSuccess, Holding
  <2>2. Update(req[r].tok, MarkSuccess(tokens[req[r].tok]))
    BY <1>5 DEF ChatSuccess, MediaSuccess
  <2>3. req[r].tok = t
    BY <2>1, <2>2, UpdateOf
  <2> QED
    BY <1>5, <2>1, <2>3 DEF SuccessOn
<1>6. CASE \E cost \in Costs : ChatConsume(r, cost)
  <2>1. PICK cost \in Costs : ChatConsume(r, cost)
    BY <1>6
  <2>2. req[r].tok \in Tokens /\ cost \in Nat /\ Chat \in Categories
    BY <2>1, HeldToken, ConstantsAssumption DEF ChatConsume
  <2>3. Update(req[r].tok, Consume(tokens[req[r].tok], Chat, cost))
    BY <1>2, <2>1 DEF ChatConsume
  <2> QED
    BY <2>2, <2>3, UpdateOf, ConsumeSpares
<1>7. CASE MediaConsume(r)
  <2>1. req[r].tok \in Tokens /\ req[r].cat \in Categories
    BY <1>7, HeldToken DEF MediaConsume, Request
  <2>2. Update(req[r].tok, Consume(tokens[req[r].tok], req[r].cat, 1))
    BY <1>2, <1>7 DEF MediaConsume
  <2> QED
    BY <2>1, <2>2, UpdateOf, ConsumeSpares
<1> QED
  BY <1>1, <1>3, <1>4, <1>5, <1>6, <1>7

\* The scheduler and the synchronisations leave none.
LEMMA RecoveryZombie ==
  ASSUME TypeOK, SchedulerStep \/ SyncStep, NEW t \in Tokens, ~Zombie(t), Zombie(t)'
  PROVE  FALSE
<1>1. tokens' # tokens
  BY DEF Zombie, Loaded, Exhausted
<1>2. CASE SchedulerStep
  <2>1. PICK u \in Tokens : Update(u, RestoreToken(tokens[u]))
    BY <1>1, <1>2 DEF SchedulerStep, SchedScan, SchedRestore, SchedRefresh
  <2> QED
    BY <2>1, UpdateOf, RestoreSpares
<1>3. CASE SyncStep
  <2>1. PICK f \in Fetchers, remaining \in Remainings : SyncQuota(f, remaining)
    BY <1>1, <1>3 DEF SyncStep, Probe, SyncFails
  <2>2. fetch[f].tok \in Tokens
    BY <2>1 DEF SyncQuota, TypeOK, Fetch
  <2>3. Update(fetch[f].tok, Synced(tokens[fetch[f].tok], remaining))
    BY <1>1, <2>1 DEF SyncQuota
  <2> QED
    BY <2>2, <2>3, UpdateOf, SyncedSpares
<1> QED
  BY <1>2, <1>3

\* Of the rest only a row that is loaded does.
LEMMA OtherZombie ==
  ASSUME TypeOK, NEW t \in Tokens, ~Zombie(t), Zombie(t)',
         AdminStep \/ CheckNow \/ \E u \in Tokens : CoolElapses(u)
  PROVE  \E row \in Rows : AddToken(t, row)
<1>1. CASE AdminStep
  <2>1. PICK u \in Tokens : RemoveToken(u) \/ \E row \in Rows : AddToken(u, row)
    BY <1>1 DEF AdminStep
  <2>2. ~RemoveToken(u)
    BY DEF RemoveToken, Zombie, Loaded, TypeOK, Exhausted
  <2>3. u = t
    BY <2>1, <2>2 DEF AddToken, Zombie, Loaded, TypeOK, Exhausted
  <2> QED
    BY <2>1, <2>2, <2>3
<1>2. CASE CheckNow
  <2>1. \/ tokens'[t] = tokens[t]
        \/ t \in Restorable /\ tokens'[t] = Restored(tokens[t])
    BY <1>2 DEF CheckNow
  <2>2. CASE t \in Restorable /\ tokens'[t] = Restored(tokens[t])
    <3>1. tokens[t] \in Token /\ ~Exhausted(tokens[t])
      BY <2>2 DEF Restorable, ElapsedCooling, Cooling, Loaded, TypeOK
    <3>2. tokens'[t].quota = tokens[t].quota
      BY <2>2, <3>1 DEF Restored, Token
    <3> QED
      BY <3>1, <3>2 DEF Zombie, Exhausted
  <2> QED
    BY <2>1, <2>2 DEF Zombie, Loaded, Exhausted
<1>3. CASE \E u \in Tokens : CoolElapses(u)
  <2>1. PICK u \in Tokens : CoolElapses(u)
    BY <1>3
  <2>2. tokens[u] \in Token /\ tokens' = [tokens EXCEPT ![u] = Elapsed(tokens[u])]
    BY <2>1 DEF CoolElapses, Loaded, TypeOK, Elapsed
  <2>3. /\ Elapsed(tokens[u]).status = tokens[u].status
        /\ Elapsed(tokens[u]).quota = tokens[u].quota
    BY <2>2 DEF Elapsed, Token
  <2>4. Loaded(u)
    BY <2>1 DEF CoolElapses
  <2> QED
    BY <2>2, <2>3, <2>4 DEF Zombie, Loaded, TypeOK, Exhausted
<1> QED
  BY <1>1, <1>2, <1>3

\* The action property ZombiesComeFromSuccessReports of the runs, for all constants:
\* Consume, SyncQuota, the ticker and the scheduler leave no token active without
\* quota, whatever they overlap with.
THEOREM ZombiesOnlyFromReports == Spec => ZombiesComeFromSuccessReports
<1>1. ASSUME TypeOK, [Next]_vars, NEW t \in Tokens, ~Zombie(t), Zombie(t)'
      PROVE  SuccessOn(t) \/ \E row \in Rows : AddToken(t, row)
  <2>1. tokens' # tokens
    BY <1>1 DEF Zombie, Loaded, Exhausted
  <2>2. ~UNCHANGED vars /\ ~(\E ids \in SUBSET dirty \ {{}} : ClearDirty(ids))
    BY <2>1 DEF vars, ClearDirty
  <2>3. \/ RequestStep \/ SchedulerStep \/ SyncStep
        \/ AdminStep \/ CheckNow \/ \E u \in Tokens : CoolElapses(u)
    BY <1>1, <2>2 DEF Next
  <2> QED
    BY <1>1, <2>3, RequestZombie, RecoveryZombie, OtherZombie
<1>2. TypeOK /\ [Next]_vars =>
        [\A t \in Tokens : ~Zombie(t) /\ Zombie(t)' =>
           \/ SuccessOn(t)
           \/ \E row \in Rows : AddToken(t, row)]_vars
  BY <1>1
<1> QED
  BY <1>2, TypeCorrect, PTL DEF Spec, ZombiesComeFromSuccessReports
-----------------------------------------------------------------------------
(***************************************************************************)
(* A cooling token has a deadline, if the rows of the database have.       *)
(***************************************************************************)
Timed(tok) == tok.status = "cooling" => tok.cool # "none"

\* What the theorem asks of the database: an admin who sets the status of a
\* token to "cooling" by hand, where it never cooled before, breaks this.
TimedRows == \A row \in Rows : Timed(row)

\* No change lets a token cool without a deadline.
LEMMA ChangedTimed ==
  ASSUME NEW tok \in Token, Timed(tok), NEW new, Changed(tok, new)
  PROVE  Timed(new)
<1>1. CASE new \in {MarkCooling(tok), MarkFailed(tok), MarkExpired(tok), MarkSuccess(tok)}
  BY <1>1 DEF Timed, MarkCooling, MarkFailed, MarkExpired, MarkSuccess, Token, Status
<1>2. CASE new = RestoreToken(tok) \/ new = Restored(tok) \/ new = Elapsed(tok)
  BY <1>2 DEF Timed, RestoreToken, Restored, Elapsed, Token
<1>3. CASE \E c \in Categories, cost \in Nat : new = Consume(tok, c, cost)
  BY <1>3 DEF Timed, Consume, Token
<1>4. CASE \E remaining \in Remainings : new = Synced(tok, remaining)
  <2>1. PICK remaining \in Remainings : new = Synced(tok, remaining)
    BY <1>4
  <2>2. remaining \in Int
    BY ConstantsAssumption
  <2>3. CASE remaining > 0 /\ tok.status = "cooling"
    BY <2>1, <2>3 DEF Timed, Synced, Token
  <2>4. CASE remaining <= 0 /\ tok.status = "active"
    BY <2>1, <2>2, <2>4 DEF Timed, Synced, Token
  <2>5. CASE /\ ~(remaining > 0 /\ tok.status = "cooling")
             /\ ~(remaining <= 0 /\ tok.status = "active")
    <3>1. new.status = tok.status /\ new.cool = tok.cool
      BY <2>1, <2>5 DEF Synced, Token
    <3> QED
      BY <3>1 DEF Timed
  <2> QED
    BY <2>3, <2>4, <2>5
<1> QED
  BY <1>1, <1>2, <1>3, <1>4 DEF Changed

\* Loading a row keeps its status and its deadline.
LEMMA NormalizeTimed ==
  ASSUME TimedRows, NEW row \in Rows
  PROVE  Timed(Normalize(row))
BY ConstantsAssumption DEF TimedRows, Timed, Normalize, Token

\* A step keeps a deadline on every cooling token.
LEMMA DeadlineStep ==
  ASSUME TimedRows
  PROVE  TypeOK /\ CoolingHasDeadline /\ [Next]_vars => CoolingHasDeadline'
<1> SUFFICES ASSUME TypeOK, CoolingHasDeadline, [Next]_vars,
                    NEW t \in Tokens, Loaded(t)'
             PROVE  Timed(tokens'[t])
  BY DEF CoolingHasDeadline, Timed
<1>1. Treated(tokens[t], tokens'[t]) /\ tokens'[t] # NoToken
  BY StepTreatsTokens DEF Loaded
<1>2. tokens[t] \in Token => tokens[t] # NoToken
  BY AbsentAssumption
<1>3. tokens[t] # NoToken => Timed(tokens[t])
  BY DEF CoolingHasDeadline, Timed, Loaded
<1>4. ASSUME NEW row \in Rows, tokens'[t] = Object(row, tokens[t])
      PROVE  Timed(tokens'[t])
  BY <1>4, NormalizeTimed, ObjectKeeps DEF Timed
<1> QED
  BY <1>1, <1>2, <1>3, <1>4, ChangedTimed DEF Treated

\* The invariant CoolingHasDeadline of the runs, for all constants: if every
\* cooling row has a deadline, no cooling token is forgotten by the ticker and
\* the scheduler, which only look at deadlines.
THEOREM CoolingEnds ==
  ASSUME TimedRows
  PROVE  Spec => []CoolingHasDeadline
<1>1. Init => CoolingHasDeadline
  <2> SUFFICES ASSUME Init, NEW t \in Tokens, Loaded(t) PROVE Timed(tokens[t])
    BY DEF CoolingHasDeadline, Timed
  <2>1. \E row \in Rows : tokens[t] = Normalize(row)
    BY DEF Init, Loaded
  <2> QED
    BY <2>1, NormalizeTimed
<1>2. TypeOK /\ CoolingHasDeadline /\ [Next]_vars => CoolingHasDeadline'
  BY DeadlineStep
<1> QED
  BY <1>1, <1>2, TypeCorrect, PTL DEF Spec
-----------------------------------------------------------------------------
(***************************************************************************)
(* The manager implements DirtyTokens.                                     *)
(***************************************************************************)

\* What the persister sees of a token is a persisted token.
LEMMA PersistedTyped ==
  ASSUME NEW tok \in Token
  PROVE  Persisted(tok) \in PersistedToken /\ Persisted(tok) # NoToken
<1>1. Persisted(tok) \in PersistedToken
  BY DEF Persisted, PersistedToken, Token
<1> QED
  BY <1>1, AbsentAssumption

\* A change is one of the same object.
LEMMA ChangedSameObject ==
  ASSUME NEW tok \in Token, NEW new, Changed(tok, new)
  PROVE  new.obj = tok.obj
<1>1. CASE \/ new \in {MarkCooling(tok), MarkFailed(tok), MarkExpired(tok), MarkSuccess(tok)}
           \/ new = Elapsed(tok) \/ new = Restored(tok) \/ new = RestoreToken(tok)
  BY <1>1 DEF MarkCooling, MarkFailed, MarkExpired, MarkSuccess, Elapsed,
              Restored, RestoreToken, Token
<1>2. CASE \E c \in Categories, cost \in Nat : new = Consume(tok, c, cost)
  BY <1>2 DEF Consume, Token
<1>3. CASE \E remaining \in Remainings : new = Synced(tok, remaining)
  BY <1>3 DEF Synced, Token
<1> QED
  BY <1>1, <1>2, <1>3 DEF Changed

\* What the persister sees of the memory.
LEMMA MemTyped ==
  ASSUME TypeOK
  PROVE  mem \in [Tokens -> PersistedToken \union {NoToken}]
BY PersistedTyped DEF mem, TypeOK, Loaded

\* A step that replaces loaded tokens by tokens, all of them marked, is a
\* mutation of these tokens.
LEMMA MarkedChangeRefines ==
  ASSUME TypeOK, TypeOK', NEW S \in SUBSET Tokens,
         \A u \in Tokens \ S : tokens'[u] = tokens[u],
         \A u \in S : Loaded(u) /\ Loaded(u)' /\ tokens'[u].obj = tokens[u].obj,
         dirty' = dirty \union S
  PROVE  DT!Mutate(S)
<1>1. mem' \in [Tokens -> PersistedToken \union {NoToken}]
  BY PersistedTyped DEF mem, TypeOK, Loaded
<1>2. \A u \in Tokens : mem'[u] # mem[u] => u \in S
  BY DEF mem, Loaded
<1>3. \A u \in S : mem[u] # NoToken /\ mem'[u] # NoToken
  BY PersistedTyped DEF mem, Loaded, TypeOK
<1>4. obj' = obj
  <2>1. \A u \in Tokens : Loaded(u)' = Loaded(u)
    BY DEF Loaded
  <2>2. \A u \in Tokens : Loaded(u) => tokens'[u].obj = tokens[u].obj
    BY DEF Loaded
  <2> QED
    BY <2>1, <2>2 DEF obj, Loaded
<1> QED
  BY <1>1, <1>2, <1>3, <1>4 DEF DT!Mutate

\* Update marks the token it writes.
LEMMA UpdateRefines ==
  ASSUME TypeOK, TypeOK', NEW t \in Tokens, NEW tok \in Token, Update(t, tok),
         Loaded(t) => tok.obj = tokens[t].obj
  PROVE  [DT!Next]_(DT!vars)
<1>1. CASE Loaded(t)
  <2>1. /\ \A u \in Tokens \ {t} : tokens'[u] = tokens[u]
        /\ tokens'[t] = tok /\ dirty' = dirty \union {t}
    BY <1>1 DEF Update, TypeOK
  <2>2. Loaded(t)'
    BY <2>1, AbsentAssumption DEF Loaded
  <2>3. DT!Mutate({t})
    BY <1>1, <2>1, <2>2, MarkedChangeRefines
  <2> QED
    BY <2>3 DEF DT!Next
<1>2. CASE ~Loaded(t)
  BY <1>2 DEF Update, DT!vars, mem, obj, Loaded
<1> QED
  BY <1>1, <1>2

\* Every step of the manager is a step of DirtyTokens, or changes nothing the
\* persister sees.
LEMMA StepRefines ==
  ASSUME TypeOK, TypeOK', [Next]_vars
  PROVE  [DT!Next]_(DT!vars)
<1>1. CASE UpdateStep
  <2>1. PICK t \in Tokens : \E tok : Update(t, tok) /\ (Loaded(t) => Changed(tokens[t], tok))
    BY <1>1 DEF UpdateStep
  <2>2. PICK tok : Update(t, tok) /\ (Loaded(t) => Changed(tokens[t], tok))
    BY <2>1
  <2>3. CASE Loaded(t)
    <3>1. tok \in Token /\ tok.obj = tokens[t].obj
      BY <2>2, <2>3, ChangedTyped, ChangedSameObject DEF TypeOK, Loaded
    <3> QED
      BY <2>2, <3>1, UpdateRefines
  <2>4. CASE ~Loaded(t)
    BY <2>2, <2>4 DEF Update, DT!vars, mem, obj, Loaded
  <2> QED
    BY <2>3, <2>4
<1>2. CASE Quiet
  <2>1. PICK S \in SUBSET Tokens : dirty' = dirty \union S
    BY <1>2 DEF Quiet
  <2>2. mem' = mem /\ obj' = obj
    BY <1>2 DEF Quiet, mem, obj, Loaded
  <2>3. DT!Mutate(S)
    BY <2>1, <2>2, MemTyped DEF DT!Mutate
  <2> QED
    BY <2>3 DEF DT!Next
<1>3. CASE CheckNow
  <2>1. \A u \in Restorable : /\ Loaded(u) /\ tokens'[u] \in Token
                             /\ tokens'[u].obj = tokens[u].obj
    <3>1. \A u \in Restorable : u \in Tokens /\ Loaded(u) /\ tokens[u] \in Token
      BY DEF Restorable, ElapsedCooling, Cooling, Loaded, TypeOK
    <3>2. \A u \in Restorable : tokens'[u] = Restored(tokens[u])
      BY <1>3, <3>1 DEF CheckNow
    <3> QED
      BY <3>1, <3>2, ChangedTyped, ChangedSameObject DEF Changed
  <2>2. \A u \in Restorable : Loaded(u) /\ Loaded(u)' /\ tokens'[u].obj = tokens[u].obj
    BY <2>1, AbsentAssumption DEF Loaded
  <2>3. DT!Mutate(Restorable)
    BY <1>3, <2>2, MarkedChangeRefines DEF CheckNow, Restorable
  <2> QED
    BY <2>3 DEF DT!Next, Restorable
<1>4. CASE \E t \in Tokens : CoolElapses(t)
  <2>1. PICK t \in Tokens : CoolElapses(t)
    BY <1>4
  <2>2. /\ tokens[t] \in Token /\ tokens[t].cool = "running" /\ dirty' = dirty
        /\ tokens' = [tokens EXCEPT ![t] = Elapsed(tokens[t])]
    BY <2>1 DEF CoolElapses, Loaded, TypeOK, Elapsed
  <2>3. Elapsed(tokens[t]) \in Token
        /\ Persisted(Elapsed(tokens[t])) = Persisted(tokens[t])
        /\ Elapsed(tokens[t]).obj = tokens[t].obj
    BY <2>2 DEF Elapsed, Persisted, Token, Deadline
  <2>4. Loaded(t) /\ Loaded(t)'
    BY <2>1, <2>2, <2>3, AbsentAssumption DEF CoolElapses, Loaded, TypeOK
  <2>5. mem' = mem /\ obj' = obj
    BY <2>2, <2>3, <2>4 DEF mem, obj, Loaded, TypeOK
  <2> QED
    BY <2>2, <2>5 DEF DT!vars
<1>5. CASE \E t \in Tokens : RemoveToken(t)
  <2>1. PICK t \in Tokens : RemoveToken(t)
    BY <1>5
  <2>2. mem[t] # NoToken /\ dirty' = dirty \ {t}
    BY <2>1, PersistedTyped DEF RemoveToken, mem, Loaded, TypeOK
  <2>3. mem' = [mem EXCEPT ![t] = NoToken]
    BY <2>1 DEF RemoveToken, mem, Loaded, TypeOK
  <2>4. obj' = [obj EXCEPT ![t] = FALSE]
    BY <2>1 DEF RemoveToken, obj, Loaded, TypeOK
  <2> QED
    BY <2>2, <2>3, <2>4 DEF DT!Remove, DT!Next
<1>6. CASE \E t \in Tokens, row \in Rows : AddToken(t, row)
  <2>1. PICK t \in Tokens, row \in Rows : AddToken(t, row)
    BY <1>6
  <2>2. tokens'[t] = Object(row, tokens[t]) /\ tokens'[t] \in Token
    BY <2>1, ObjectTyped DEF AddToken, TypeOK
  <2>3. mem' \in [Tokens -> PersistedToken \union {NoToken}] /\ mem'[t] # NoToken
    BY <2>2, PersistedTyped, AbsentAssumption DEF mem, Loaded, TypeOK
  <2>4. \A u \in Tokens \ {t} : mem'[u] = mem[u]
    BY <2>1 DEF AddToken, mem, Loaded, TypeOK
  <2>5. obj' = [obj EXCEPT ![t] = mem[t] # NoToken /\ ~@]
    <3>1. tokens'[t].obj = (tokens[t] # NoToken /\ ~tokens[t].obj)
      BY <2>1, <2>2, NormalizeTyped DEF Object, Token
    <3>2. Loaded(t)' /\ (mem[t] # NoToken <=> Loaded(t))
      BY <2>2, PersistedTyped, AbsentAssumption DEF mem, Loaded, TypeOK
    <3>3. \A u \in Tokens \ {t} : tokens'[u] = tokens[u]
      BY <2>1 DEF AddToken, TypeOK
    <3>4. obj'[t] = (mem[t] # NoToken /\ ~obj[t])
      BY <3>1, <3>2 DEF obj, Loaded
    <3>5. \A u \in Tokens \ {t} : obj'[u] = obj[u]
      BY <3>3 DEF obj, Loaded
    <3> QED
      BY <3>4, <3>5 DEF obj
  <2> QED
    BY <2>1, <2>3, <2>4, <2>5 DEF AddToken, DT!Add, DT!Next
<1>7. CASE UNCHANGED vars \/ (tokens' = tokens /\ dirty' = dirty)
  BY <1>7 DEF vars, DT!vars, mem, obj, Loaded
<1>8. CASE \E ids \in SUBSET dirty : ClearDirty(ids)
  <2>1. PICK ids \in SUBSET dirty : ClearDirty(ids)
    BY <1>8
  <2>2. mem' = mem /\ obj' = obj /\ dirty' = dirty \ ids /\ ids \in SUBSET Tokens
    BY <2>1 DEF ClearDirty, mem, obj, Loaded, TypeOK
  <2> QED
    BY <2>2 DEF DT!Clear, DT!Next
<1> QED
  BY <1>1, <1>2, <1>3, <1>4, <1>5, <1>6, <1>7, <1>8, RequestShape, SchedulerShape,
     SyncShape DEF Next, AdminStep

\* The property DirtySpec of the runs, for all constants: whatever runs at
\* once, a token in memory never changes without its mark, so the next flush
\* sees every change.
THEOREM ManagerImplementsDirtyTokens == Spec => DirtySpec
<1>1. Init => DT!Init
  <2>1. Init => mem \in [Tokens -> PersistedToken \union {NoToken}]
    BY TypeOKInit, MemTyped
  <2>2. Init => obj = [t \in Tokens |-> FALSE]
    <3> SUFFICES ASSUME Init, NEW t \in Tokens, Loaded(t) PROVE ~tokens[t].obj
      BY DEF obj
    <3>1. PICK row \in Rows : tokens[t] = Normalize(row)
      BY DEF Init, Loaded
    <3> QED
      BY <3>1, ConstantsAssumption DEF Normalize, Token
  <2> QED
    BY <2>1, <2>2 DEF Init, DT!Init
<1>2. TypeOK /\ TypeOK' /\ [Next]_vars => [DT!Next]_(DT!vars)
  BY StepRefines
<1> QED
  BY <1>1, <1>2, TypeCorrect, PTL DEF Spec, DirtySpec, DT!Spec
=============================================================================
