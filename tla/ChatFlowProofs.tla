--------------------------- MODULE ChatFlowProofs ---------------------------
(***************************************************************************)
(* Proofs about ChatFlow and its circuit breakers, for any number of       *)
(* requests, tokens and retries, and about the selection of tokens, for    *)
(* any pool.                                                               *)
(***************************************************************************)
EXTENDS ChatFlow, TokenSelection, FiniteSetTheorems, TLAPS

-----------------------------------------------------------------------------
(***************************************************************************)
(* Circuit breakers.  A closed breaker counts exactly the failures since   *)
(* the last success; one that is not closed has seen the threshold.        *)
(***************************************************************************)
Counts(b, n) == /\ b \in Breaker /\ n \in 0..BreakerThreshold
                /\ b.state = "closed" => b.failures = n /\ n < BreakerThreshold
                /\ b.state # "closed" => n = BreakerThreshold

BreakerInv == /\ cb = [t \in Tokens |-> cb[t]] /\ streak = [t \in Tokens |-> streak[t]]
              /\ \A t \in Tokens : Counts(cb[t], streak[t])

\* A new breaker has counted nothing.
LEMMA NewBreakerCounts == Counts(newCircuitBreaker, 0)
BY BreakerAssumption DEF Counts, newCircuitBreaker, Breaker

\* Asking a breaker does not change what it has counted.
LEMMA AskingCounts ==
  ASSUME NEW b, NEW n, Counts(b, n)
  PROVE  Counts(AllowRequest(b), n)
BY DEF Counts, AllowRequest, Breaker

\* A failure is counted, unless the threshold is reached already.
LEMMA FailureCounts ==
  ASSUME NEW b, NEW n, Counts(b, n)
  PROVE  Counts(Failed(b), IF n < BreakerThreshold THEN n + 1 ELSE n)
<1>1. CASE b.state = "closed"
  <2> DEFINE counted == [b EXCEPT !.failures = @ + 1]
  <2>1. /\ n < BreakerThreshold /\ n + 1 \in 0..BreakerThreshold
        /\ counted \in Breaker /\ counted.failures = n + 1 /\ counted.state = "closed"
    BY <1>1, BreakerAssumption DEF Counts, Breaker
  <2>2. Failed(b) = IF counted.failures >= BreakerThreshold THEN Open(counted) ELSE counted
    BY <1>1 DEF Failed
  <2> HIDE DEF counted
  <2>3. Open(counted) \in Breaker /\ Open(counted).state = "open"
    BY <2>1 DEF Open, Breaker
  <2> QED
    BY <2>1, <2>2, <2>3, BreakerAssumption DEF Counts
<1>2. CASE b.state = "halfOpen"
  <2>1. Failed(b) = Open(b)
    BY <1>2 DEF Failed
  <2>2. Open(b) \in Breaker /\ Open(b).state = "open"
    BY DEF Open, Breaker, Counts
  <2> QED
    BY <1>2, <2>1, <2>2, BreakerAssumption DEF Counts
<1>3. CASE b.state = "open"
  <2>1. Failed(b) = b
    BY <1>3 DEF Failed
  <2> QED
    BY <1>3, <2>1, BreakerAssumption DEF Counts
<1> QED
  BY <1>1, <1>2, <1>3 DEF Counts, Breaker

\* Each call of a breaker keeps the counts of all of them.
LEMMA BreakerStep ==
  ASSUME BreakerInv,
         \/ UNCHANGED breakers \/ AskBreakers
         \/ \E t : RecordFailure(t) \/ RecordSuccess(t)
         \/ \E t \in Tokens : HalfOpenTimeout(t) \/ ResetBreaker(t)
  PROVE  BreakerInv'
<1>1. CASE UNCHANGED breakers
  BY <1>1 DEF BreakerInv, breakers
<1>2. CASE AskBreakers
  BY <1>2, AskingCounts DEF BreakerInv, AskBreakers
<1>3. CASE \E t : RecordFailure(t)
  <2>1. PICK t : RecordFailure(t)
    BY <1>3
  <2>2. \A u \in Tokens \ {t} : cb'[u] = cb[u] /\ streak'[u] = streak[u]
    BY <2>1 DEF RecordFailure, BreakerInv
  <2>3. t \in Tokens => /\ cb'[t] = Failed(cb[t])
                       /\ streak'[t] = IF streak[t] < BreakerThreshold
                                         THEN streak[t] + 1 ELSE streak[t]
    BY <2>1 DEF RecordFailure, BreakerInv
  <2>4. \A u \in Tokens : Counts(cb'[u], streak'[u])
    BY <2>2, <2>3, FailureCounts DEF BreakerInv
  <2> QED
    BY <2>1, <2>4 DEF RecordFailure, BreakerInv
<1>4. CASE \E t : RecordSuccess(t)
  BY <1>4, NewBreakerCounts DEF BreakerInv, RecordSuccess, Succeeded
<1>5. CASE \E t \in Tokens : HalfOpenTimeout(t)
  <2>1. ASSUME NEW b, NEW n, Counts(b, n), b.state = "open"
        PROVE  Counts([b EXCEPT !.elapsed = TRUE], n)
    <3>1. [b EXCEPT !.elapsed = TRUE] \in Breaker
      BY <2>1 DEF Counts, Breaker
    <3>2. [b EXCEPT !.elapsed = TRUE].state = "open"
      BY <2>1 DEF Counts, Breaker
    <3> QED
      BY <2>1, <3>1, <3>2 DEF Counts
  <2>2. PICK t \in Tokens : HalfOpenTimeout(t)
    BY <1>5
  <2>3. /\ cb' = [cb EXCEPT ![t] = [cb[t] EXCEPT !.elapsed = TRUE]]
        /\ cb[t].state = "open" /\ streak' = streak
    BY <2>2 DEF HalfOpenTimeout
  <2>4. \A u \in Tokens : Counts(cb'[u], streak'[u])
    BY <2>1, <2>3 DEF BreakerInv
  <2> QED
    BY <2>3, <2>4 DEF BreakerInv
<1>6. CASE \E t \in Tokens : ResetBreaker(t)
  BY <1>6, NewBreakerCounts DEF BreakerInv, ResetBreaker
<1> QED
  BY <1>1, <1>2, <1>3, <1>4, <1>5, <1>6

\* Every step of the flows is one call of the breakers at most.
LEMMA FlowCallsBreakers ==
  ASSUME [Next]_vars
  PROVE  \/ UNCHANGED breakers \/ AskBreakers
         \/ \E t : RecordFailure(t) \/ RecordSuccess(t)
         \/ \E t \in Tokens : HalfOpenTimeout(t) \/ ResetBreaker(t)
<1>1. ASSUME NEW r \in Requests, Loop(r)
      PROVE  \/ UNCHANGED breakers \/ AskBreakers
             \/ \E t : RecordFailure(t) \/ RecordSuccess(t)
  BY <1>1 DEF Loop, Complete, GiveUp, GoOn, PickFrom, PrimaryEmpty, NoTokenLeft,
     BuildFails, ClientMissing, ChatStarts, ChatFails, MarkCircuitFailure, BackoffEnds, BackoffCut,
     Emit, SendFinish, SendError, SendLast, ReportSuccess, MarkCircuitSuccess, Consume
<1>2. ASSUME NEW r \in Requests, Receive(r) \/ AnswerEnds(r) \/ Read(r) \/ Leave(r)
      PROVE  UNCHANGED breakers
  BY <1>2 DEF Receive, AnswerEnds, StreamCloses, StreamFails, Read, Leave
<1>3. ASSUME NEW t \in Tokens, ManagerChanges(t) \/ Reload(t) \/ BreakerClock(t)
      PROVE  UNCHANGED breakers \/ HalfOpenTimeout(t) \/ ResetBreaker(t)
  BY <1>3 DEF ManagerChanges, Reload, BreakerClock
<1>4. CASE UNCHANGED vars
  BY <1>4 DEF vars, breakers
<1> QED
  BY <1>1, <1>2, <1>3, <1>4 DEF Next

\* The invariant ClosedBelowThreshold of the runs, for all constants: the
\* answers of any number of overlapping requests leave a breaker closed exactly
\* while fewer failures than the threshold were recorded in a row.
THEOREM BreakersCount == Spec => []ClosedBelowThreshold
<1>1. Init => BreakerInv
  BY NewBreakerCounts DEF Init, BreakerInit, BreakerInv
<1>2. BreakerInv /\ [Next]_vars => BreakerInv'
  BY BreakerStep, FlowCallsBreakers
<1>3. BreakerInv => ClosedBelowThreshold
  BY BreakerAssumption DEF BreakerInv, Counts, ClosedBelowThreshold
<1> QED
  BY <1>1, <1>2, <1>3, PTL DEF Spec
-----------------------------------------------------------------------------
(***************************************************************************)
(* The flows.                                                              *)
(***************************************************************************)
Over == {"report", "circuit", "charge", "done"}
Trying == {"pickPrimary", "pickFallback", "call", "failed", "backoff", "stream", "emit"}
Calling == {"call", "stream", "emit"}
WithToken == {"call", "failed", "stream", "emit", "finish", "report", "circuit", "charge"}

\* What holds of a flow between any two of its steps: an attempt is left while
\* it tries, a retry is left while it calls, the terminal event was sent if and
\* only if it is over, and a panic has its reason.
Sound(fl) == /\ fl \in Flow
             /\ fl.pc \in Trying => fl.attempt < MaxAttempts
             /\ fl.pc \in Calling => fl.retries < PerTokenRetries
             /\ fl.pc \in WithToken => fl.cur \in Tokens
             /\ fl.ends = 1 <=> fl.pc \in Over
             /\ fl.pc = "panicked" => ~HasFallback \/ ~fl.xai

FlowInv == /\ flow = [r \in Requests |-> flow[r]]
           /\ \A r \in Requests : Sound(flow[r])

\* The retry loop is bounded.
LEMMA MaxAttemptsNat == MaxAttempts \in Nat
BY ChatAssumption DEF MaxAttempts

\* A flow that only moves to another step stays sound, if that step asks for
\* nothing it lacks.
LEMMA MoveSound ==
  ASSUME NEW fl, Sound(fl), NEW pc \in Steps,
         pc \in Trying => fl.attempt < MaxAttempts,
         pc \in Calling => fl.retries < PerTokenRetries,
         pc \in WithToken => fl.cur \in Tokens,
         pc \in Over <=> fl.pc \in Over,
         pc = "panicked" => ~HasFallback \/ ~fl.xai
  PROVE  Sound([fl EXCEPT !.pc = pc])
<1>1. [fl EXCEPT !.pc = pc] \in Flow
  BY DEF Sound, Flow
<1> QED
  BY <1>1 DEF Sound, Flow

\* The next attempt of a flow that has one left.
LEMMA NextAttemptSound ==
  ASSUME NEW fl, Sound(fl), fl.attempt < MaxAttempts, fl.pc \notin Over
  PROVE  Sound(NextAttempt(fl))
<1>1. fl.attempt + 1 \in 0..MaxAttempts
  BY MaxAttemptsNat DEF Sound, Flow
<1>2. NextAttempt(fl) \in Flow
  BY <1>1 DEF NextAttempt, Sound, Flow, Steps
<1> QED
  BY <1>2 DEF NextAttempt, Sound, Flow, Trying, Calling, WithToken, Over

\* The flow of r becomes another sound one.
Becomes(r) == \E fl : Sound(fl) /\ flow' = [flow EXCEPT ![r] = fl]

\* A step that only moves r to the step pc.
LEMMA GotoBecomes ==
  ASSUME FlowInv, NEW r \in Requests, NEW pc \in Steps, Goto(r, pc),
         pc \in Trying => flow[r].attempt < MaxAttempts,
         pc \in Calling => flow[r].retries < PerTokenRetries,
         pc \in WithToken => flow[r].cur \in Tokens,
         pc \in Over <=> flow[r].pc \in Over,
         pc = "panicked" => ~HasFallback \/ ~flow[r].xai
  PROVE  Becomes(r)
<1>1. Sound([flow[r] EXCEPT !.pc = pc])
  BY MoveSound DEF FlowInv
<1> QED
  BY <1>1 DEF Goto, Becomes

\* The steps up to the call of upstream.
LEMMA PickBecomes ==
  ASSUME FlowInv, NEW r \in Requests,
         \/ Complete(r) \/ GiveUp(r) \/ GoOn(r) \/ PrimaryEmpty(r) \/ NoTokenLeft(r)
         \/ \E t \in Primary : PickFrom(r, "pickPrimary", Primary, t)
         \/ \E t \in Fallback : PickFrom(r, "pickFallback", Fallback, t)
  PROVE  Becomes(r)
<1> USE DEF At
<1>0. Sound(flow[r]) /\ flow[r] \in Flow
  BY DEF FlowInv, Sound
<1>1. CASE Complete(r)
  <2>1. CASE Goto(r, "head")
    BY <1>1, <2>1, GotoBecomes DEF Complete, Steps, Trying, Calling, WithToken, Over
  <2>2. CASE flow' = [flow EXCEPT ![r].pc = "done", ![r].queued = 1, ![r].ends = 1]
    <3> DEFINE fl == [flow[r] EXCEPT !.pc = "done", !.queued = 1, !.ends = 1]
    <3>0. 1 \in 0..OutCap /\ 1 \in 0..1 /\ "done" \in Steps
      BY ChatAssumption DEF Steps
    <3>1. fl \in Flow /\ fl.pc = "done" /\ fl.ends = 1
      BY <1>0, <3>0 DEF Flow
    <3>2. flow' = [flow EXCEPT ![r] = fl]
      BY <2>2
    <3> HIDE DEF fl
    <3>3. Sound(fl)
      BY <3>1 DEF Sound, Trying, Calling, WithToken, Over
    <3> QED
      BY <3>2, <3>3 DEF Becomes
  <2> QED
    BY <1>1, <2>1, <2>2 DEF Complete
<1>2. CASE GiveUp(r)
  BY <1>2, GotoBecomes DEF GiveUp, Steps, Trying, Calling, WithToken, Over
<1>3. CASE GoOn(r)
  <2>1. CASE flow[r].cur = NoToken \/ flow[r].retries >= PerTokenRetries
    BY <1>3, <2>1, GotoBecomes DEF GoOn, Steps, Trying, Calling, WithToken, Over
  <2>2. CASE ~(flow[r].cur = NoToken \/ flow[r].retries >= PerTokenRetries)
    <3>1. flow[r].cur \in Tokens /\ flow[r].retries < PerTokenRetries
      BY <1>0, <2>2, ChatAssumption DEF Flow
    <3> QED
      BY <1>3, <2>2, <3>1, GotoBecomes DEF GoOn, Steps, Trying, Calling, WithToken, Over
  <2> QED
    BY <2>1, <2>2
<1>4. CASE PrimaryEmpty(r)
  BY <1>0, <1>4, GotoBecomes
  DEF PrimaryEmpty, Sound, Steps, Trying, Calling, WithToken, Over
<1>5. CASE NoTokenLeft(r)
  <2>1. flow[r].pc \in Trying \ Over /\ flow[r].attempt < MaxAttempts
    BY <1>0, <1>5 DEF NoTokenLeft, LastPool, Sound, Trying, Over
  <2>2. Sound([flow[r] EXCEPT !.exclude = {}, !.pc = "pickPrimary"])
    BY <1>0, <2>1 DEF Sound, Flow, Steps, Trying, Calling, WithToken, Over
  <2>3. Sound(NextAttempt(flow[r]))
    BY <1>0, <2>1, NextAttemptSound
  <2>4. ~HasFallback => Sound([flow[r] EXCEPT !.pc = "panicked"])
    BY <1>0, <2>1 DEF Sound, Flow, Steps, Trying, Calling, WithToken, Over
  <2> QED
    BY <1>5, <2>2, <2>3, <2>4 DEF NoTokenLeft, Becomes
<1>6. ASSUME NEW pc \in {"pickPrimary", "pickFallback"}, NEW pool \in SUBSET Tokens,
             NEW t \in pool, PickFrom(r, pc, pool, t)
      PROVE  Becomes(r)
  <2>m. PICK made \in BOOLEAN : flow' = [flow EXCEPT ![r] =
         [@ EXCEPT !.cur = t, !.retries = 0, !.xai = made, !.pc = "call"]]
    BY <1>6 DEF PickFrom
  <2> DEFINE fl == [flow[r] EXCEPT !.cur = t, !.retries = 0, !.xai = made, !.pc = "call"]
  <2>0. 0 \in 0..PerTokenRetries /\ 0 < PerTokenRetries /\ t \in Tokens
    BY ChatAssumption
  <2>1. fl \in Flow /\ fl.pc = "call" /\ fl.cur = t /\ fl.retries = 0
        /\ fl.attempt = flow[r].attempt /\ fl.ends = flow[r].ends
    BY <1>0, <2>0 DEF Flow, Steps
  <2>2. flow' = [flow EXCEPT ![r] = fl] /\ flow[r].pc = pc
    <3>1. flow' = [flow EXCEPT ![r] = fl]
      BY <2>m
    <3> QED
      BY <1>6, <3>1 DEF PickFrom
  <2> HIDE DEF fl
  <2>3. Sound(fl)
    BY <1>0, <2>0, <2>1, <2>2 DEF Sound, Trying, Calling, WithToken, Over
  <2> QED
    BY <2>2, <2>3 DEF Becomes
<1> QED
  BY <1>1, <1>2, <1>3, <1>4, <1>5, <1>6, ChatAssumption

\* The steps of a call that fails.
LEMMA CallBecomes ==
  ASSUME FlowInv, NEW r \in Requests,
         \/ BuildFails(r) \/ ClientMissing(r) \/ ChatStarts(r) \/ \E e \in ChatErrors : ChatFails(r, e)
         \/ MarkCircuitFailure(r) \/ BackoffEnds(r) \/ BackoffCut(r)
  PROVE  Becomes(r)
<1> USE DEF At
<1>0. Sound(flow[r]) /\ flow[r] \in Flow
  BY DEF FlowInv, Sound
<1>1. CASE BuildFails(r) \/ ClientMissing(r) \/ ChatStarts(r) \/ BackoffCut(r)
  BY <1>0, <1>1, GotoBecomes
  DEF BuildFails, ClientMissing, ChatStarts, BackoffCut, Sound, Steps, Trying, Calling, WithToken, Over
<1>2. CASE \E e \in ChatErrors : ChatFails(r, e)
  <2>1. PICK e \in ChatErrors : ChatFails(r, e)
    BY <1>2
  <2>2. PICK pc \in {"fail", "failed"} :
          flow' = [flow EXCEPT ![r].retries = @ + 1, ![r].swap = ShouldSwapToken(e),
                               ![r].pc = pc]
    BY <2>1 DEF ChatFails
  <2> DEFINE fl == [flow[r] EXCEPT !.retries = @ + 1, !.swap = ShouldSwapToken(e), !.pc = pc]
  <2>3. flow[r].retries + 1 \in 0..PerTokenRetries /\ ShouldSwapToken(e) \in BOOLEAN
    <3>0. flow[r].pc \in Calling
      BY <2>1 DEF ChatFails, Calling
    <3>1. flow[r].retries \in Nat /\ flow[r].retries < PerTokenRetries
      BY <1>0, <3>0 DEF Sound, Flow
    <3>2. ShouldSwapToken(e) \in BOOLEAN
      BY DEF ShouldSwapToken, ShouldCoolToken
    <3> QED
      BY <3>1, <3>2, ChatAssumption
  <2>4. fl \in Flow
    BY <1>0, <2>3 DEF Flow, Steps
  <2>5. Sound(fl)
    BY <1>0, <2>1, <2>4 DEF ChatFails, Sound, Flow, Trying, Calling, WithToken, Over
  <2> QED
    BY <2>2, <2>5 DEF Becomes
<1>3. CASE MarkCircuitFailure(r)
  <2> DEFINE mid == IF flow[r].swap THEN SwapToken(flow[r]) ELSE flow[r]
             fl == [mid EXCEPT !.swap = FALSE, !.pc = "backoff"]
  <2>1. /\ flow[r].pc = "failed" /\ flow[r].cur \in Tokens
        /\ flow[r].attempt < MaxAttempts /\ flow[r].ends # 1
    BY <1>0, <1>3 DEF MarkCircuitFailure, Sound, Trying, WithToken, Over
  <2>2. /\ mid \in Flow /\ mid.attempt = flow[r].attempt
        /\ mid.ends = flow[r].ends
    BY <1>0, <2>1 DEF SwapToken, Flow
  <2>3. flow' = [flow EXCEPT ![r] = fl]
    BY <1>3 DEF MarkCircuitFailure
  <2> HIDE DEF mid
  <2>4. Sound(fl)
    BY <2>1, <2>2 DEF Sound, Flow, Steps, Trying, Calling, WithToken, Over
  <2> QED
    BY <2>3, <2>4 DEF Becomes
<1>4. CASE BackoffEnds(r)
  <2>1. flow[r].attempt < MaxAttempts /\ flow[r].pc \notin Over
    BY <1>0, <1>4 DEF BackoffEnds, Sound, Trying, Over
  <2> QED
    BY <1>0, <1>4, <2>1, NextAttemptSound DEF BackoffEnds, Becomes
<1> QED
  BY <1>1, <1>2, <1>3, <1>4

\* The steps of a stream, and those after its end.
LEMMA StreamBecomes ==
  ASSUME FlowInv, NEW r \in Requests,
         \/ Receive(r) \/ Emit(r) \/ AnswerEnds(r) \/ SendFinish(r) \/ SendError(r)
         \/ ReportSuccess(r) \/ MarkCircuitSuccess(r) \/ Consume(r)
  PROVE  Becomes(r)
<1> USE DEF At
<1>0. Sound(flow[r]) /\ flow[r] \in Flow
  BY DEF FlowInv, Sound
<1>1. CASE \/ Receive(r) \/ StreamCloses(r)
           \/ ReportSuccess(r) \/ MarkCircuitSuccess(r) \/ Consume(r)
  BY <1>0, <1>1, GotoBecomes
  DEF Receive, StreamCloses, ReportSuccess, MarkCircuitSuccess, Consume, Sound,
      Steps, Trying, Calling, WithToken, Over
<1>2. CASE Emit(r)
  <2> DEFINE fl == [flow[r] EXCEPT !.queued = @ + 1, !.pc = "stream"]
  <2>1. flow[r].queued + 1 \in 0..OutCap
    BY <1>0, <1>2, ChatAssumption DEF Emit, Room, Flow
  <2>2. fl \in Flow
    BY <1>0, <2>1 DEF Flow, Steps
  <2>3. Sound(fl)
    BY <1>0, <1>2, <2>2 DEF Emit, Sound, Flow, Trying, Calling, WithToken, Over
  <2> QED
    BY <1>2, <2>3 DEF Emit, Becomes
<1>3. CASE \E e \in StreamErrors : StreamFails(r, e)
  <2>1. PICK e \in StreamErrors : StreamFails(r, e)
    BY <1>3
  <2> DEFINE failed == [flow[r] EXCEPT !.retries = @ + 1]
             mid == IF failed.retries >= PerTokenRetries \/ ShouldSwapToken(e)
                      THEN SwapToken(failed) ELSE failed
  <2>2. /\ flow[r].pc = "stream" /\ flow[r].cur \in Tokens
        /\ flow[r].attempt < MaxAttempts /\ flow[r].retries < PerTokenRetries
        /\ flow[r].ends # 1
    BY <1>0, <2>1 DEF StreamFails, Sound, Trying, Calling, WithToken, Over
  <2>3. flow[r].retries + 1 \in 0..PerTokenRetries
    BY <1>0, <2>2, ChatAssumption DEF Flow
  <2>4. failed \in Flow /\ failed.attempt = flow[r].attempt
        /\ failed.ends = flow[r].ends /\ failed.pc = "stream" /\ failed.cur = flow[r].cur
    BY <1>0, <2>2, <2>3 DEF Flow
  <2>5. flow' = [flow EXCEPT ![r] = NextAttempt(mid)]
    BY <2>1 DEF StreamFails
  <2> HIDE DEF failed
  <2>6. mid \in Flow /\ mid.attempt = flow[r].attempt /\ mid.ends = flow[r].ends
    BY <2>2, <2>4 DEF SwapToken, Flow
  <2> HIDE DEF mid
  <2>7. mid.attempt + 1 \in 0..MaxAttempts
    BY <2>2, <2>6, MaxAttemptsNat DEF Flow
  <2>8. NextAttempt(mid) \in Flow
    BY <2>6, <2>7 DEF NextAttempt, Flow, Steps
  <2>9. Sound(NextAttempt(mid))
    BY <2>2, <2>6, <2>8 DEF NextAttempt, Sound, Flow, Trying, Calling, WithToken, Over
  <2> QED
    BY <2>5, <2>9 DEF Becomes
<1>4. ASSUME NEW from, NEW to, SendLast(r, from, to),
             <<from, to>> \in {<<"finish", "report">>, <<"fail", "done">>}
      PROVE  Becomes(r)
  <2> DEFINE fl == [flow[r] EXCEPT !.queued = @ + 1, !.ends = @ + 1, !.pc = to]
  <2>1. flow[r].pc = from /\ flow[r].ends = 0 /\ flow[r].queued + 1 \in 0..OutCap
    BY <1>0, <1>4, ChatAssumption DEF SendLast, Room, Sound, Flow, Over
  <2>2. fl = [flow[r] EXCEPT !.queued = flow[r].queued + 1, !.ends = 1, !.pc = to]
    BY <2>1
  <2>3. to \in Steps /\ 1 \in 0..1
    BY <1>4 DEF Steps
  <2>4. fl \in Flow /\ fl.ends = 1 /\ fl.pc = to /\ fl.cur = flow[r].cur
    BY <1>0, <2>1, <2>2, <2>3 DEF Flow
  <2>5. flow' = [flow EXCEPT ![r] = fl]
    BY <1>4 DEF SendLast
  <2> HIDE DEF fl
  <2>6. Sound(fl)
    BY <1>0, <1>4, <2>1, <2>4 DEF Sound, Trying, Calling, WithToken, Over
  <2> QED
    BY <2>5, <2>6 DEF Becomes
<1> QED
  BY <1>1, <1>2, <1>3, <1>4 DEF AnswerEnds, SendFinish, SendError

\* The handler takes an event that is there.
LEMMA ReadBecomes ==
  ASSUME FlowInv, NEW r \in Requests, Read(r)
  PROVE  Becomes(r)
<1> DEFINE fl == [flow[r] EXCEPT !.queued = @ - 1]
<1>0. Sound(flow[r]) /\ flow[r] \in Flow
  BY DEF FlowInv, Sound
<1>1. flow[r].queued - 1 \in 0..OutCap
  BY <1>0, ChatAssumption DEF Read, Flow
<1>2. fl \in Flow
  BY <1>0, <1>1 DEF Flow
<1>3. Sound(fl)
  BY <1>0, <1>2 DEF Sound, Flow
<1> QED
  BY <1>3 DEF Read, Becomes

\* A step keeps every flow sound.
LEMMA FlowStep == FlowInv /\ [Next]_vars => FlowInv'
<1> SUFFICES ASSUME FlowInv, [Next]_vars PROVE FlowInv'
  OBVIOUS
<1>1. ASSUME NEW r \in Requests, Becomes(r)
      PROVE  FlowInv'
  BY <1>1 DEF Becomes, FlowInv
<1>2. ASSUME flow' = flow
      PROVE  FlowInv'
  BY <1>2 DEF FlowInv
<1>3. CASE \E r \in Requests : Loop(r) \/ Receive(r) \/ AnswerEnds(r) \/ Read(r)
  BY <1>1, <1>3, PickBecomes, CallBecomes, StreamBecomes, ReadBecomes DEF Loop
<1>4. CASE \/ \E r \in Requests : Leave(r)
           \/ \E t \in Tokens : ManagerChanges(t) \/ Reload(t) \/ BreakerClock(t)
           \/ UNCHANGED vars
  <2>1. flow' = flow
    BY <1>4 DEF Leave, ManagerChanges, Reload, BreakerClock, vars
  <2> QED
    BY <1>2, <2>1
<1> QED
  BY <1>3, <1>4 DEF Next

\* The flows are sound at the start, all of them idle.
LEMMA FlowInit == Init => FlowInv
BY ChatAssumption, MaxAttemptsNat
DEF Init, FlowInv, Sound, Flow, Steps, Trying, Calling, WithToken, Over

\* The invariant OneOutcome of the runs, for all constants: whatever upstream,
\* the tokens, the breakers and the other requests do, a request sends one
\* terminal event, as its last, unless its goroutine panics; and that it does
\* only in a model of one pool or for want of a client of package xai.
THEOREM OneOutcomePerRequest == Spec => []OneOutcome
<1>1. FlowInv => OneOutcome
  BY DEF FlowInv, Sound, OneOutcome, Over
<1> QED
  BY <1>1, FlowInit, FlowStep, PTL DEF Spec
-----------------------------------------------------------------------------
(***************************************************************************)
(* Type correctness.                                                       *)
(***************************************************************************)
SidesOK == /\ client \in [Requests -> {"reading", "gone", "returned"}]
           /\ usable \subseteq Tokens

\* A penalty only takes tokens away.
LEMMA HandleErrorTyped ==
  ASSUME SidesOK, NEW t, NEW e \in Errors, HandleError(t, e)
  PROVE  usable' \subseteq Tokens
<1>1. CASE e \in {"invalid", "forbidden", "rateLimited"}
  BY <1>1 DEF HandleError, SidesOK
<1>2. CASE e \in {"badRequest", "other"}
  BY <1>2 DEF HandleError, SidesOK
<1>3. CASE e \in {"challenge", "transport", "cancelled"}
  BY <1>3 DEF HandleError, SidesOK
<1> QED
  BY <1>1, <1>2, <1>3 DEF Errors

\* The clients and the usable tokens keep their types.
LEMMA SidesStep == SidesOK /\ FlowInv /\ [Next]_vars => SidesOK'
<1> SUFFICES ASSUME SidesOK, FlowInv, [Next]_vars PROVE SidesOK'
  OBVIOUS
<1>1. ASSUME NEW r \in Requests, NEW e \in Errors, ChatFails(r, e) \/ StreamFails(r, e)
      PROVE  SidesOK'
  <2>1. HandleError(flow[r].cur, e) /\ client' = client
    BY <1>1 DEF ChatFails, StreamFails
  <2> QED
    BY <2>1, HandleErrorTyped DEF SidesOK
<1>2. ASSUME NEW r \in Requests, ReportSuccess(r) \/ Consume(r)
      PROVE  SidesOK'
  <2>1. flow[r].cur \in Tokens /\ client' = client
    BY <1>2 DEF ReportSuccess, Consume, At, FlowInv, Sound, WithToken
  <2> QED
    BY <1>2, <2>1 DEF ReportSuccess, Consume, SidesOK
<1>3. ASSUME NEW r \in Requests, Read(r) \/ Leave(r)
      PROVE  SidesOK'
  BY <1>3 DEF Read, Leave, SidesOK
<1>4. ASSUME NEW t \in Tokens, ManagerChanges(t) \/ Reload(t)
      PROVE  SidesOK'
  BY <1>4 DEF ManagerChanges, Reload, SidesOK
<1>5. ASSUME UNCHANGED <<client, usable>>
      PROVE  SidesOK'
  BY <1>5 DEF SidesOK
<1>6. CASE \E r \in Requests : Loop(r)
  <2>1. PICK r \in Requests : Loop(r)
    BY <1>6
  <2>2. \/ \E e \in ChatErrors : ChatFails(r, e)
        \/ ReportSuccess(r) \/ Consume(r)
        \/ UNCHANGED <<client, usable>>
    BY <2>1 DEF Loop, Complete, GiveUp, GoOn, PickFrom, PrimaryEmpty, NoTokenLeft,
       BuildFails, ClientMissing, ChatStarts, MarkCircuitFailure, BackoffEnds, BackoffCut,
       Emit, SendFinish, SendError, SendLast, MarkCircuitSuccess
  <2> QED
    BY <1>1, <1>2, <1>5, <2>2, ChatAssumption
<1>7. CASE \E r \in Requests : Receive(r) \/ AnswerEnds(r)
  <2>1. PICK r \in Requests : Receive(r) \/ AnswerEnds(r)
    BY <1>7
  <2>2. \/ \E e \in StreamErrors : StreamFails(r, e)
        \/ UNCHANGED <<client, usable>>
    BY <2>1 DEF Receive, AnswerEnds, StreamCloses
  <2> QED
    BY <1>1, <1>5, <2>2, ChatAssumption
<1>8. CASE (\E t \in Tokens : BreakerClock(t)) \/ UNCHANGED vars
  <2>1. UNCHANGED <<client, usable>>
    BY <1>8 DEF BreakerClock, vars
  <2> QED
    BY <1>5, <2>1
<1> QED
  BY <1>3, <1>4, <1>6, <1>7, <1>8 DEF Next

\* ChatFlow's variables stay in their types: no request makes more attempts or
\* retries than configured, or sends more than the channel holds.
THEOREM ChatFlowTyped == Spec => []TypeOK
<1>1. Init => BreakerInv /\ SidesOK
  BY NewBreakerCounts DEF Init, BreakerInit, BreakerInv, SidesOK
<1>2. BreakerInv /\ [Next]_vars => BreakerInv'
  BY BreakerStep, FlowCallsBreakers
<1>3. FlowInv /\ BreakerInv /\ SidesOK => TypeOK
  BY DEF FlowInv, Sound, BreakerInv, Counts, SidesOK, TypeOK, BreakerTypeOK
<1> QED
  BY <1>1, <1>2, <1>3, FlowInit, FlowStep, SidesStep, PTL DEF Spec
-----------------------------------------------------------------------------
(***************************************************************************)
(* That requests advance.  Every step of the loop leads to a later stage   *)
(* of the same attempt or to the next attempt, of which one is left.       *)
(***************************************************************************)

LEMMA StageOf ==
  ASSUME NEW fl
  PROVE  /\ fl.pc = "idle" => Stage(fl) = 14
         /\ fl.pc = "head" => Stage(fl) = 13
         /\ fl.pc = "pickPrimary" => Stage(fl) = IF fl.exclude # {} THEN 12 ELSE 10
         /\ fl.pc = "pickFallback" => Stage(fl) = IF fl.exclude # {} THEN 11 ELSE 9
         /\ fl.pc = "call" => Stage(fl) = 8
         /\ fl.pc = "failed" => Stage(fl) = 7
         /\ fl.pc \in {"backoff", "stream", "emit"} => Stage(fl) = 6
         /\ fl.pc = "finish" => Stage(fl) = 5
         /\ fl.pc = "report" => Stage(fl) = 4
         /\ fl.pc = "circuit" => Stage(fl) = 3
         /\ fl.pc = "charge" => Stage(fl) = 2
         /\ fl.pc = "fail" => Stage(fl) = 1
         /\ fl.pc \in {"done", "panicked"} => Stage(fl) = 0
BY DEF Stage

LEMMA StageIsNat == ASSUME NEW fl, fl.pc \in Steps PROVE Stage(fl) \in 0..14
BY StageOf DEF Steps

LEMMA LaterStage ==
  ASSUME NEW old, NEW new, old.attempt \in 0..MaxAttempts, new.attempt = old.attempt,
         old.pc \in Steps, new.pc \in Steps
  PROVE  /\ Stage(new) < Stage(old) => Remaining(new) < Remaining(old)
         /\ Stage(new) = Stage(old) => Remaining(new) = Remaining(old)
BY StageIsNat, MaxAttemptsNat DEF Remaining

LEMMA NextAttemptIsLess ==
  ASSUME NEW old, NEW new, old.attempt \in 0..MaxAttempts, new.attempt = old.attempt + 1,
         old.pc \in Steps, new.pc = "head"
  PROVE  Remaining(new) < Remaining(old)
<1>1. Stage(new) = 13 /\ Stage(old) \in 0..14
  BY StageOf, StageIsNat
<1> QED
  BY <1>1, MaxAttemptsNat DEF Remaining

\* The flow of r is less or passes events on.
Advances(r) ==
  \E fl : /\ flow' = [flow EXCEPT ![r] = fl]
          /\ Remaining(fl) < Remaining(flow[r]) \/ PassesOn(flow[r], fl)

LEMMA GotoAdvances ==
  ASSUME FlowInv, NEW r \in Requests, NEW pc \in Steps, Goto(r, pc),
         \A fl : fl.pc = pc /\ fl.exclude = flow[r].exclude => Stage(fl) < Stage(flow[r])
  PROVE  Advances(r)
<1> DEFINE fl == [flow[r] EXCEPT !.pc = pc]
<1>1. flow[r] \in Flow
  BY DEF FlowInv, Sound
<1>2. fl.pc = pc /\ fl.exclude = flow[r].exclude /\ fl.attempt = flow[r].attempt
  BY <1>1 DEF Flow
<1>3. flow' = [flow EXCEPT ![r] = fl]
  BY DEF Goto
<1> HIDE DEF fl
<1>4. Remaining(fl) < Remaining(flow[r])
  BY <1>1, <1>2, LaterStage DEF Flow
<1> QED
  BY <1>3, <1>4 DEF Advances

LEMMA PickAdvances ==
  ASSUME FlowInv, NEW r \in Requests,
         \/ Complete(r) \/ GiveUp(r) \/ GoOn(r) \/ PrimaryEmpty(r) \/ NoTokenLeft(r)
         \/ \E t \in Primary : PickFrom(r, "pickPrimary", Primary, t)
         \/ \E t \in Fallback : PickFrom(r, "pickFallback", Fallback, t)
  PROVE  Advances(r)
<1> USE DEF At
<1>0. flow[r] \in Flow /\ flow[r].pc \in Steps /\ flow[r].attempt \in 0..MaxAttempts
  BY DEF FlowInv, Sound, Flow
<1>1. CASE Complete(r)
  <2>1. CASE Goto(r, "head")
    BY <1>1, <2>1, GotoAdvances, StageOf DEF Complete, Steps
  <2>2. CASE flow' = [flow EXCEPT ![r].pc = "done", ![r].queued = 1, ![r].ends = 1]
    <3> DEFINE fl == [flow[r] EXCEPT !.pc = "done", !.queued = 1, !.ends = 1]
    <3>1. fl.pc = "done" /\ fl.attempt = flow[r].attempt /\ flow' = [flow EXCEPT ![r] = fl]
      BY <1>0, <2>2 DEF Flow
    <3> HIDE DEF fl
    <3>2. Stage(fl) < Stage(flow[r])
      BY <1>1, <3>1, StageOf DEF Complete
    <3> QED
      BY <1>0, <3>1, <3>2, LaterStage DEF Advances, Steps
  <2> QED
    BY <1>1, <2>1, <2>2 DEF Complete
<1>2. CASE GiveUp(r)
  BY <1>2, GotoAdvances, StageOf DEF GiveUp, Steps
<1>3. CASE GoOn(r)
  BY <1>3, GotoAdvances, StageOf DEF GoOn, Steps
<1>4. CASE PrimaryEmpty(r)
  BY <1>4, GotoAdvances, StageOf DEF PrimaryEmpty, Steps
<1>5. CASE NoTokenLeft(r)
  <2>1. flow[r].pc \in {"pickPrimary", "pickFallback"}
    BY <1>5 DEF NoTokenLeft, LastPool
  <2>2. CASE flow[r].exclude # {}
    <3> DEFINE fl == [flow[r] EXCEPT !.exclude = {}, !.pc = "pickPrimary"]
    <3>1. /\ fl.pc = "pickPrimary" /\ fl.exclude = {} /\ fl.attempt = flow[r].attempt
          /\ flow' = [flow EXCEPT ![r] = fl]
      BY <1>0, <1>5, <2>2 DEF NoTokenLeft, Flow
    <3> HIDE DEF fl
    <3>2. Stage(fl) < Stage(flow[r])
      BY <2>1, <2>2, <3>1, StageOf
    <3> QED
      BY <1>0, <3>1, <3>2, LaterStage DEF Advances, Steps
  <2>3. CASE flow[r].exclude = {} /\ HasFallback
    <3> DEFINE fl == NextAttempt(flow[r])
    <3>1. fl.pc = "head" /\ fl.attempt = flow[r].attempt + 1 /\ flow' = [flow EXCEPT ![r] = fl]
      BY <1>0, <1>5, <2>3 DEF NoTokenLeft, NextAttempt, Flow
    <3> QED
      BY <1>0, <3>1, NextAttemptIsLess DEF Advances
  <2>4. CASE flow[r].exclude = {} /\ ~HasFallback
    <3> DEFINE fl == [flow[r] EXCEPT !.pc = "panicked"]
    <3>1. fl.pc = "panicked" /\ fl.attempt = flow[r].attempt /\ flow' = [flow EXCEPT ![r] = fl]
      BY <1>0, <1>5, <2>4 DEF NoTokenLeft, Flow
    <3> HIDE DEF fl
    <3>2. Stage(fl) < Stage(flow[r])
      BY <2>1, <3>1, StageOf
    <3> QED
      BY <1>0, <3>1, <3>2, LaterStage DEF Advances, Steps
  <2> QED
    BY <2>2, <2>3, <2>4
<1>6. ASSUME NEW pc \in {"pickPrimary", "pickFallback"}, NEW pool, NEW t, PickFrom(r, pc, pool, t)
      PROVE  Advances(r)
  <2>m. PICK made \in BOOLEAN : flow' = [flow EXCEPT ![r] =
         [@ EXCEPT !.cur = t, !.retries = 0, !.xai = made, !.pc = "call"]]
    BY <1>6 DEF PickFrom
  <2> DEFINE fl == [flow[r] EXCEPT !.cur = t, !.retries = 0, !.xai = made, !.pc = "call"]
  <2>1. fl.pc = "call" /\ fl.attempt = flow[r].attempt
    BY <1>0 DEF Flow
  <2>2. flow' = [flow EXCEPT ![r] = fl] /\ flow[r].pc \in {"pickPrimary", "pickFallback"}
    <3>1. flow' = [flow EXCEPT ![r] = fl]
      BY <2>m
    <3> QED
      BY <1>6, <3>1 DEF PickFrom
  <2> HIDE DEF fl
  <2>3. Stage(fl) < Stage(flow[r])
    BY <2>1, <2>2, StageOf
  <2> QED
    BY <1>0, <2>1, <2>2, <2>3, LaterStage DEF Advances, Steps
<1> QED
  BY <1>1, <1>2, <1>3, <1>4, <1>5, <1>6

LEMMA CallAdvances ==
  ASSUME FlowInv, NEW r \in Requests,
         \/ BuildFails(r) \/ ClientMissing(r) \/ ChatStarts(r) \/ \E e \in ChatErrors : ChatFails(r, e)
         \/ MarkCircuitFailure(r) \/ BackoffEnds(r) \/ BackoffCut(r)
  PROVE  Advances(r)
<1> USE DEF At
<1>0. flow[r] \in Flow /\ flow[r].pc \in Steps /\ flow[r].attempt \in 0..MaxAttempts
  BY DEF FlowInv, Sound, Flow
<1>1. CASE BuildFails(r) \/ ClientMissing(r) \/ ChatStarts(r) \/ BackoffCut(r)
  BY <1>1, GotoAdvances, StageOf DEF BuildFails, ClientMissing, ChatStarts, BackoffCut, Steps
<1>2. ASSUME NEW e, ChatFails(r, e) PROVE Advances(r)
  <2> DEFINE pc == IF IsNonRecoverable(e) THEN "fail" ELSE "failed"
             fl == [flow[r] EXCEPT !.retries = @ + 1, !.swap = ShouldSwapToken(e), !.pc = pc]
  <2>1. /\ fl.pc \in {"fail", "failed"} /\ fl.attempt = flow[r].attempt
        /\ flow[r].pc = "call" /\ flow' = [flow EXCEPT ![r] = fl]
    BY <1>0, <1>2 DEF ChatFails, Flow
  <2> HIDE DEF fl
  <2>2. Stage(fl) < Stage(flow[r])
    BY <2>1, StageOf
  <2> QED
    BY <1>0, <2>1, <2>2, LaterStage DEF Advances, Steps
<1>3. CASE MarkCircuitFailure(r)
  <2> DEFINE mid == IF flow[r].swap THEN SwapToken(flow[r]) ELSE flow[r]
             fl == [mid EXCEPT !.swap = FALSE, !.pc = "backoff"]
  <2>1. flow[r].pc = "failed" /\ flow' = [flow EXCEPT ![r] = fl]
    BY <1>3 DEF MarkCircuitFailure
  <2>2. PICK x, c : mid = [flow[r] EXCEPT !.exclude = x, !.cur = c]
    <3>1. flow[r] = [flow[r] EXCEPT !.exclude = flow[r].exclude, !.cur = flow[r].cur]
      BY <1>0 DEF Flow
    <3> QED
      BY <3>1 DEF SwapToken
  <2>3. fl.pc = "backoff" /\ fl.attempt = flow[r].attempt
    BY <1>0, <2>2 DEF Flow
  <2> HIDE DEF fl, mid
  <2>4. Stage(fl) < Stage(flow[r])
    BY <2>1, <2>3, StageOf
  <2> QED
    BY <1>0, <2>1, <2>3, <2>4, LaterStage DEF Advances, Steps
<1>4. CASE BackoffEnds(r)
  <2> DEFINE fl == NextAttempt(flow[r])
  <2>1. fl.pc = "head" /\ fl.attempt = flow[r].attempt + 1 /\ flow' = [flow EXCEPT ![r] = fl]
    BY <1>0, <1>4 DEF BackoffEnds, NextAttempt, Flow
  <2> QED
    BY <1>0, <2>1, NextAttemptIsLess DEF Advances
<1> QED
  BY <1>1, <1>2, <1>3, <1>4

LEMMA StreamAdvances ==
  ASSUME FlowInv, NEW r \in Requests,
         \/ Receive(r) \/ Emit(r) \/ AnswerEnds(r) \/ SendFinish(r) \/ SendError(r)
         \/ ReportSuccess(r) \/ MarkCircuitSuccess(r) \/ Consume(r) \/ Read(r)
  PROVE  Advances(r)
<1> USE DEF At
<1>0. flow[r] \in Flow /\ flow[r].pc \in Steps /\ flow[r].attempt \in 0..MaxAttempts
  BY DEF FlowInv, Sound, Flow
<1>1. CASE StreamCloses(r) \/ ReportSuccess(r) \/ MarkCircuitSuccess(r) \/ Consume(r)
  BY <1>1, GotoAdvances, StageOf DEF StreamCloses, ReportSuccess, MarkCircuitSuccess, Consume, Steps
<1>2. CASE Receive(r) \/ Emit(r)
  <2>1. PICK fl : /\ flow' = [flow EXCEPT ![r] = fl] /\ fl.attempt = flow[r].attempt
                  /\ {flow[r].pc, fl.pc} = {"stream", "emit"}
    <3> DEFINE one == [flow[r] EXCEPT !.pc = "emit"]
               two == [flow[r] EXCEPT !.queued = @ + 1, !.pc = "stream"]
    <3>1. one.attempt = flow[r].attempt /\ one.pc = "emit"
          /\ two.attempt = flow[r].attempt /\ two.pc = "stream"
      BY <1>0 DEF Flow
    <3>2. CASE Receive(r)
      BY <3>1, <3>2 DEF Receive, Goto
    <3>3. CASE Emit(r)
      BY <3>1, <3>3 DEF Emit
    <3> QED
      BY <1>2, <3>2, <3>3
  <2>2. fl.pc \in {"stream", "emit"} /\ flow[r].pc \in {"stream", "emit"}
    BY <2>1
  <2>3. Stage(fl) = Stage(flow[r])
    BY <2>2, StageOf
  <2> QED
    BY <1>0, <2>1, <2>2, <2>3, LaterStage DEF Advances, PassesOn, Steps
<1>3. ASSUME NEW e, StreamFails(r, e) PROVE Advances(r)
  <2> DEFINE failed == [flow[r] EXCEPT !.retries = @ + 1]
             mid == IF failed.retries >= PerTokenRetries \/ ShouldSwapToken(e)
                      THEN SwapToken(failed) ELSE failed
             fl == NextAttempt(mid)
  <2>1. flow' = [flow EXCEPT ![r] = fl]
    BY <1>3 DEF StreamFails
  <2>2. NextAttempt(failed).pc = "head" /\ NextAttempt(failed).attempt = flow[r].attempt + 1
    BY <1>0 DEF NextAttempt, Flow
  <2>3. /\ NextAttempt(SwapToken(failed)).pc = "head"
        /\ NextAttempt(SwapToken(failed)).attempt = flow[r].attempt + 1
    BY <1>0 DEF NextAttempt, SwapToken, Flow
  <2>4. fl.pc = "head" /\ fl.attempt = flow[r].attempt + 1
    BY <2>2, <2>3
  <2> QED
    BY <1>0, <2>1, <2>4, NextAttemptIsLess DEF Advances
<1>4. ASSUME NEW from, NEW to, SendLast(r, from, to),
             <<from, to>> \in {<<"finish", "report">>, <<"fail", "done">>}
      PROVE  Advances(r)
  <2> DEFINE fl == [flow[r] EXCEPT !.queued = @ + 1, !.ends = @ + 1, !.pc = to]
  <2>1. /\ fl.pc = to /\ fl.attempt = flow[r].attempt /\ flow[r].pc = from
        /\ flow' = [flow EXCEPT ![r] = fl]
    BY <1>0, <1>4 DEF SendLast, Flow
  <2> HIDE DEF fl
  <2>2. Stage(fl) < Stage(flow[r]) /\ fl.pc \in Steps
    BY <1>4, <2>1, StageOf DEF Steps
  <2> QED
    BY <1>0, <2>1, <2>2, LaterStage DEF Advances
<1>5. CASE Read(r)
  <2> DEFINE fl == [flow[r] EXCEPT !.queued = @ - 1]
  <2>1. flow' = [flow EXCEPT ![r] = fl] /\ fl = [flow[r] EXCEPT !.queued = fl.queued]
    BY <1>0, <1>5 DEF Read, Flow
  <2> QED
    BY <2>1 DEF Advances, PassesOn
<1> QED
  BY <1>1, <1>2, <1>3, <1>4, <1>5 DEF AnswerEnds, SendFinish, SendError

\* The retry loop of executeWithRetry has a variant, however many tokens are swapped, tried
\* again or changed meanwhile: each step of a request leaves less to do (RequestsAdvance).
THEOREM RetriesRunOut == Spec => RequestsAdvance
<1>1. FlowInv /\ [Next]_vars =>
        [\A r \in Requests :
           Remaining(flow'[r]) < Remaining(flow[r]) \/ PassesOn(flow[r], flow'[r])]_vars
  <2> SUFFICES ASSUME FlowInv, Next, NEW q \in Requests
               PROVE  Remaining(flow'[q]) < Remaining(flow[q]) \/ PassesOn(flow[q], flow'[q])
    OBVIOUS
  <2>1. flow[q] = [flow[q] EXCEPT !.queued = flow[q].queued]
    <3>1. flow[q] \in Flow
      BY DEF FlowInv, Sound
    <3> QED
      BY <3>1 DEF Flow
  <2>2. CASE flow'[q] = flow[q]
    BY <2>1, <2>2 DEF PassesOn
  <2>3. ASSUME NEW r \in Requests, Loop(r) \/ Receive(r) \/ AnswerEnds(r) \/ Read(r)
        PROVE  flow'[q] = flow[q] \/ Remaining(flow'[q]) < Remaining(flow[q]) \/ PassesOn(flow[q], flow'[q])
    <3>1. Advances(r)
      BY <2>3, PickAdvances, CallAdvances, StreamAdvances DEF Loop
    <3>2. flow = [p \in Requests |-> flow[p]]
      BY DEF FlowInv
    <3> QED
      BY <3>1, <3>2 DEF Advances
  <2>4. CASE \/ \E r \in Requests : Leave(r)
             \/ \E t \in Tokens : ManagerChanges(t) \/ Reload(t) \/ BreakerClock(t)
    <3>1. flow' = flow
      BY <2>4 DEF Leave, ManagerChanges, Reload, BreakerClock
    <3> QED
      BY <2>2, <3>1
  <2> QED
    BY <2>2, <2>3, <2>4 DEF Next
<1> QED
  BY <1>1, FlowInit, FlowStep, PTL DEF Spec, RequestsAdvance
-----------------------------------------------------------------------------
(***************************************************************************)
(* Round robin.  The counter's value modulo the size of the tier is the    *)
(* rank of the token that is selected; as many values in a row as the tier *)
(* has tokens give as many tokens.                                         *)
(***************************************************************************)

\* Every rank below the size of a set of ids is that of a member.
LEMMA RankExists ==
  ASSUME NEW S \in SUBSET Ids, NEW k \in 0..(Cardinality(S) - 1)
  PROVE  \E t \in S : Cardinality({u \in S : u < t}) = k
<1> DEFINE below(t) == {u \in S : u < t}
           n == Cardinality(S)
           rank == [t \in S |-> Cardinality(below(t))]
<1>1. S \subseteq Nat /\ IsFiniteSet(S) /\ n \in Nat
  BY SelectionAssumption, FS_Subset, FS_CardinalityType
<1>2. \A t \in S : IsFiniteSet(below(t)) /\ Cardinality(below(t)) \in 0..(n - 1)
  <2> TAKE t \in S
  <2>1. below(t) \in SUBSET S /\ t \notin below(t) /\ t \in S
    BY <1>1
  <2>2. /\ IsFiniteSet(below(t)) /\ Cardinality(below(t)) <= n
        /\ n # Cardinality(below(t))
    BY <1>1, <2>1, FS_Subset
  <2>3. Cardinality(below(t)) \in Nat
    BY <2>2, FS_CardinalityType
  <2> QED
    BY <1>1, <2>2, <2>3
<1>3. \A t, v \in S : t < v => Cardinality(below(t)) # Cardinality(below(v))
  <2> TAKE t, v \in S
  <2> HAVE t < v
  <2>1. t \in Nat /\ v \in Nat /\ \A u \in S : u \in Nat
    BY <1>1
  <2>2. \A u \in S : u < t => u < v
    BY <2>1
  <2>3. below(t) \in SUBSET below(v)
    BY <2>2
  <2>4. t \in below(v)
    OBVIOUS
  <2>5. t \notin below(t)
    BY <2>1
  <2> QED
    BY <1>2, <2>3, <2>4, <2>5, FS_Subset
<1>4. rank \in Injection(S, 0..(n - 1))
  <2>1. rank \in [S -> 0..(n - 1)]
    BY <1>2
  <2>2. ASSUME NEW t \in S, NEW v \in S, rank[t] = rank[v]
        PROVE  t = v
    <3>1. t < v \/ v < t \/ t = v
      BY <1>1
    <3> QED
      BY <1>3, <2>2, <3>1
  <2> QED
    BY <2>1, <2>2 DEF Injection, IsInjective
<1>5. IsFiniteSet(0..(n - 1)) /\ Cardinality(0..(n - 1)) = n
  BY <1>1, FS_Interval
<1>6. rank \in Surjection(S, 0..(n - 1))
  BY <1>4, <1>5, FS_Injection
<1>7. PICK t \in S : rank[t] = k
  BY <1>6 DEF Surjection
<1> QED
  BY <1>7

\* Ranked finds it.
LEMMA RankedFinds ==
  ASSUME NEW S \in SUBSET Ids, NEW k \in 0..(Cardinality(S) - 1)
  PROVE  Ranked(S, k) \in S /\ Cardinality({u \in S : u < Ranked(S, k)}) = k
BY RankExists DEF Ranked

\* Numbers less than n apart have different remainders.
LEMMA RemaindersDiffer ==
  ASSUME NEW i \in Nat, NEW j \in Nat, NEW n \in Nat, i < j, j < i + n
  PROVE  i % n # j % n
<1>1. n > 0
  OBVIOUS
<1>2. /\ i \div n \in Int /\ j \div n \in Int /\ i % n \in 0..(n - 1) /\ j % n \in 0..(n - 1)
      /\ i = n * (i \div n) + (i % n) /\ j = n * (j \div n) + (j % n)
  BY <1>1
<1> DEFINE a == i \div n
           b == j \div n
<1> SUFFICES ASSUME i % n = j % n PROVE FALSE
  OBVIOUS
<1>3. j - i = n * b - n * a
  BY <1>2
<1> HIDE DEF a, b
<1>4. a \in Int /\ b \in Int
  BY <1>2 DEF a, b
<1>5. n * b - n * a = n * (b - a)
  BY <1>4
<1>6. n * (b - a) > 0 /\ n * (b - a) < n
  BY <1>3, <1>4, <1>5
<1>7. CASE b - a <= 0
  BY <1>1, <1>4, <1>6, <1>7
<1>8. CASE b - a >= 1
  BY <1>1, <1>4, <1>6, <1>8
<1> QED
  BY <1>4, <1>7, <1>8

\* Two turns of one tier, less than a round apart, are of different tokens.
LEMMA TurnsDiffer ==
  ASSUME NEW S \in SUBSET Ids, NEW i \in Nat, NEW j \in Nat,
         i < j, j < i + Cardinality(S)
  PROVE  RoundRobin(S, i) # RoundRobin(S, j)
<1>1. Cardinality(S) \in Nat
  BY SelectionAssumption, FS_Subset, FS_CardinalityType
<1> DEFINE n == Cardinality(S)
<1> HIDE DEF n
<1>2. n \in Nat /\ n > 0 /\ i % n # j % n
  BY <1>1, RemaindersDiffer DEF n
<1>3. i % n \in 0..(n - 1) /\ j % n \in 0..(n - 1)
  BY <1>2
<1>4. /\ Cardinality({u \in S : u < Ranked(S, i % n)}) = i % n
      /\ Cardinality({u \in S : u < Ranked(S, j % n)}) = j % n
  BY <1>3, RankedFinds DEF n
<1>5. Ranked(S, i % n) # Ranked(S, j % n)
  BY <1>2, <1>4
<1> QED
  BY <1>5 DEF RoundRobin, n

\* Two places of a history that is no longer than a round.
LEMMA PlacesInRound ==
  ASSUME NEW first \in Nat, NEW len \in Nat, NEW n \in Nat, len <= n,
         NEW j \in 1..len, NEW k \in 1..len, j < k
  PROVE  /\ first + j - 1 \in Nat /\ first + k - 1 \in Nat
         /\ first + j - 1 < first + k - 1
         /\ first + k - 1 < first + j - 1 + n
OBVIOUS

\* The history holds the turns of the last values of the counter.
Turns(r, i) ==
  /\ r.tier \in SUBSET Ids /\ r.ids \in Seq(Ids)
  /\ Len(r.ids) <= i /\ Len(r.ids) <= Cardinality(r.tier)
  /\ \A k \in 1..Len(r.ids) : r.ids[k] = RoundRobin(r.tier, i - Len(r.ids) + k - 1)

SelectionTypeOK ==
  /\ algorithm \in {"high_quota_first", "random", "round_robin"}
  /\ priority \in [Ids -> Priorities]
  /\ units \in [Ids -> [Uses -> 0..MaxUnits]]
  /\ rrIndex \in 0..MaxPicks

RotationInv == SelectionTypeOK /\ (algorithm = "round_robin" => Turns(recent, rrIndex))

\* One selection more.
LEMMA TurnAdded ==
  ASSUME NEW i \in Nat, NEW tier \in SUBSET Ids, tier # {}, NEW ids \in Seq(Ids),
         Turns([tier |-> tier, ids |-> ids], i)
  PROVE  LET t == RoundRobin(tier, i) IN
         Turns([tier |-> tier, ids |-> Latest(Append(ids, t), tier)], i + 1)
<1> DEFINE n == Cardinality(tier)
           t == RoundRobin(tier, i)
           long == Append(ids, t)
           new == Latest(long, tier)
<1>1. n \in Nat /\ n > 0
  <2>1. IsFiniteSet(tier)
    BY SelectionAssumption, FS_Subset
  <2>2. n \in Nat /\ n # 0
    BY <2>1, FS_CardinalityType, FS_EmptySet
  <2> QED
    BY <2>2
<1>2. t \in Ids
  <2> HIDE DEF n
  <2>1. i % n \in 0..(n - 1)
    BY <1>1
  <2>2. Ranked(tier, i % n) \in tier
    BY <2>1, RankedFinds DEF n
  <2> QED
    BY <2>2 DEF RoundRobin, n
<1>3. /\ Len(ids) <= i /\ Len(ids) <= n /\ Len(ids) \in Nat
      /\ \A k \in 1..Len(ids) : ids[k] = RoundRobin(tier, i - Len(ids) + k - 1)
  BY DEF Turns
<1> HIDE DEF t, n
<1>4. /\ long \in Seq(Ids) /\ Len(long) = Len(ids) + 1
      /\ \A k \in 1..Len(long) : long[k] = RoundRobin(tier, (i + 1) - Len(long) + k - 1)
  <2>1. long \in Seq(Ids) /\ Len(long) = Len(ids) + 1 /\ long[Len(long)] = t
    BY <1>2
  <2>2. ASSUME NEW k \in 1..Len(long)
        PROVE  long[k] = RoundRobin(tier, (i + 1) - Len(long) + k - 1)
    <3>1. CASE k = Len(long)
      <4>1. (i + 1) - Len(long) + k - 1 = i
        BY <1>3, <2>1, <3>1
      <4> QED
        BY <2>1, <3>1, <4>1 DEF t
    <3>2. CASE k # Len(long)
      <4>1. k \in 1..Len(ids)
        BY <1>3, <2>1, <3>2
      <4>3. long[k] = ids[k]
        BY <1>2, <4>1
      <4>2. (i + 1) - Len(long) + k - 1 = i - Len(ids) + k - 1
        BY <1>3, <2>1
      <4> QED
        BY <1>3, <4>1, <4>2, <4>3
    <3> QED
      BY <3>1, <3>2
  <2> QED
    BY <2>1, <2>2
<1> HIDE DEF long
<1> USE DEF Turns
<1>5. CASE Len(long) > n
  <2>1. /\ new = Tail(long) /\ new \in Seq(Ids) /\ Len(new) = Len(long) - 1
        /\ \A k \in 1..Len(new) : new[k] = long[k + 1]
    BY <1>1, <1>4, <1>5 DEF Latest, n
  <2>2. ASSUME NEW k \in 1..Len(new)
        PROVE  new[k] = RoundRobin(tier, (i + 1) - Len(new) + k - 1)
    <3>1. Len(long) \in Nat /\ k + 1 \in 1..Len(long)
      BY <1>3, <1>4, <2>1
    <3>2. (i + 1) - Len(long) + (k + 1) - 1 = (i + 1) - Len(new) + k - 1
      BY <2>1, <3>1
    <3> QED
      BY <1>4, <2>1, <3>1, <3>2
  <2> HIDE DEF new
  <2>3. Len(new) <= i + 1 /\ Len(new) <= Cardinality(tier)
    BY <1>1, <1>3, <1>4, <2>1 DEF n
  <2>4. Turns([tier |-> tier, ids |-> new], i + 1)
    BY <2>1, <2>2, <2>3
  <2> QED
    BY <2>4 DEF new, long, t
<1>6. CASE ~(Len(long) > n)
  <2>1. new = long
    BY <1>6 DEF Latest, n
  <2> QED
    BY <1>1, <1>3, <1>4, <1>6, <2>1 DEF n, long, t, Turns
<1> QED
  BY <1>5, <1>6

\* The history keeps up with the counter.
LEMMA RotationStep == RotationInv /\ [SelectionNext]_selectionVars => RotationInv'
<1> SUFFICES ASSUME RotationInv, [SelectionNext]_selectionVars PROVE RotationInv'
  OBVIOUS
<1>1. CASE \E t \in Ids, use \in Uses : TokenChanges(t, use)
  <2>1. PICK t \in Ids, use \in Uses : TokenChanges(t, use)
    BY <1>1
  <2>2. units' \in [Ids -> [Uses -> 0..MaxUnits]]
    BY <2>1 DEF TokenChanges, RotationInv, SelectionTypeOK
  <2> QED
    BY <2>1, <2>2 DEF TokenChanges, RotationInv, SelectionTypeOK
<1>2. CASE \E use \in Uses, exclude \in SUBSET Ids : Select(use, exclude)
  <2>1. PICK use \in Uses, exclude \in SUBSET Ids : Select(use, exclude)
    BY <1>2
  <2> DEFINE tier == TopTier(use, exclude)
             ids == IF tier = recent.tier THEN recent.ids ELSE << >>
  <2>2. tier # {} /\ tier \in SUBSET Ids
    BY <2>1 DEF Select, TopTier, Eligible
  <2>3. SelectionTypeOK'
    BY <2>1, SelectionAssumption DEF Select, RotationInv, SelectionTypeOK
  <2>4. ASSUME algorithm = "round_robin" PROVE Turns(recent', rrIndex')
    <3>1. rrIndex \in Nat /\ Turns(recent, rrIndex)
      BY <2>4, SelectionAssumption DEF RotationInv, SelectionTypeOK
    <3>2. Turns([tier |-> tier, ids |-> ids], rrIndex)
      <4>1. CASE tier = recent.tier
        BY <3>1, <4>1 DEF Turns
      <4>2. CASE tier # recent.tier
        <5>1. Cardinality(tier) \in Nat
          BY <2>2, SelectionAssumption, FS_Subset, FS_CardinalityType
        <5> QED
          BY <2>2, <3>1, <4>2, <5>1 DEF Turns
      <4> QED
        BY <4>1, <4>2
    <3>3. ids \in Seq(Ids)
      BY <3>1 DEF Turns
    <3>4. Selectable(tier, use) = {RoundRobin(tier, rrIndex)}
      BY <2>4 DEF Selectable
    <3>5. /\ rrIndex' = rrIndex + 1
          /\ recent' = [tier |-> tier, ids |-> Latest(Append(ids, RoundRobin(tier, rrIndex)), tier)]
      BY <2>1, <2>4, <3>4 DEF Select
    <3> HIDE DEF tier, ids
    <3> QED
      BY <2>2, <3>1, <3>2, <3>3, <3>5, TurnAdded
  <2> QED
    BY <2>1, <2>3, <2>4 DEF RotationInv, Select
<1>3. CASE UNCHANGED selectionVars
  BY <1>3 DEF selectionVars, RotationInv, SelectionTypeOK
<1> QED
  BY <1>1, <1>2, <1>3 DEF SelectionNext

\* The invariant Rotation of the runs, for any pool, priorities and exclusions: no
\* token of a tier is selected again before all others of it were.
THEOREM RoundRobinIsFair == SelectionSpec => []Rotation
<1>1. SelectionInit => RotationInv
  <2> SUFFICES ASSUME SelectionInit PROVE RotationInv
    OBVIOUS
  <2>1. SelectionTypeOK
    BY SelectionAssumption DEF SelectionInit, SelectionTypeOK
  <2>2. Turns(recent, rrIndex)
    BY FS_EmptySet DEF SelectionInit, Nothing, Turns
  <2> QED
    BY <2>1, <2>2 DEF RotationInv
<1>2. ASSUME RotationInv, algorithm = "round_robin",
             NEW j \in DOMAIN recent.ids, NEW k \in DOMAIN recent.ids, j < k
      PROVE  recent.ids[j] # recent.ids[k]
  <2> DEFINE first == rrIndex - Len(recent.ids)
  <2>1. /\ recent.ids \in Seq(Ids) /\ j \in 1..Len(recent.ids) /\ k \in 1..Len(recent.ids)
        /\ rrIndex \in Nat /\ recent.tier \in SUBSET Ids
    BY <1>2, SelectionAssumption DEF RotationInv, SelectionTypeOK, Turns
  <2>2. /\ Len(recent.ids) <= rrIndex /\ Len(recent.ids) <= Cardinality(recent.tier)
        /\ recent.ids[j] = RoundRobin(recent.tier, first + j - 1)
        /\ recent.ids[k] = RoundRobin(recent.tier, first + k - 1)
    BY <1>2, <2>1 DEF RotationInv, Turns
  <2>3. Cardinality(recent.tier) \in Nat /\ Len(recent.ids) \in Nat
    BY <2>1, SelectionAssumption, FS_Subset, FS_CardinalityType
  <2>4. first \in Nat
    BY <2>1, <2>2, <2>3
  <2> HIDE DEF first
  <2>5. /\ first + j - 1 \in Nat /\ first + k - 1 \in Nat
        /\ first + j - 1 < first + k - 1
        /\ first + k - 1 < first + j - 1 + Cardinality(recent.tier)
    BY <1>2, <2>1, <2>2, <2>3, <2>4, PlacesInRound
  <2> QED
    BY <2>1, <2>2, <2>5, TurnsDiffer
<1>3. RotationInv => Rotation
  <2>1. ASSUME RotationInv, algorithm = "round_robin"
        PROVE  \A j, k \in DOMAIN recent.ids : j < k \/ k < j \/ j = k
    <3>1. recent.ids \in Seq(Ids)
      BY <2>1 DEF RotationInv, Turns
    <3> QED
      BY <3>1
  <2> QED
    BY <1>2, <2>1 DEF Rotation, IsInjective
<1> QED
  BY <1>1, <1>3, RotationStep, PTL DEF SelectionSpec
=============================================================================
