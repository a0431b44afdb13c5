------------------------------ MODULE ChatFlow ------------------------------
(***************************************************************************)
(* A chat request: the goroutine of executeWithRetry that picks tokens,    *)
(* calls upstream and forwards its answer through a bounded channel, the   *)
(* HTTP handler that reads the channel, and the client that may leave.     *)
(* Several requests share the tokens and their circuit breakers.           *)
(*                                                                         *)
(* Abstractions.  usable stands for the token manager: the ids a pick may  *)
(* return, which other goroutines and the clock may change at any time     *)
(* (module TokenManager says how).  An event is content or terminal.  The  *)
(* retry budget and the backoff delay are the choice to give up or go on.  *)
(* Every pool exists, if only empty.  Sessions, usage records and event    *)
(* parsing are left out.                                                   *)
(***************************************************************************)
EXTENDS CircuitBreaker

CONSTANTS
  Requests,         \* chat requests
  Streaming,        \* the requests answered as a stream of events
  NoToken,          \* the request holds no token
  Primary,          \* the tokens of the model's preferred pool
  Fallback,         \* the tokens of its other pool
  HasFallback,      \* the model is configured in both pools
  MaxTokens,        \* retry.max_tokens
  PerTokenRetries,  \* retry.per_token_retries
  HasBudget,        \* retry.retry_budget is set
  OutCap,           \* capacity of the channel (64 in the code)
  ChatErrors,       \* errors client.Chat may return
  StreamErrors      \* errors an event of upstream's answer may carry

\* "transport" includes every status from 500 to 599.
Errors == {"invalid", "forbidden", "challenge", "rateLimited", "transport",
           "badRequest", "cancelled", "other"}

ASSUME ChatAssumption ==
  /\ Streaming \subseteq Requests
  /\ NoToken \notin Tokens
  /\ Primary \subseteq Tokens /\ Fallback \subseteq Tokens
  /\ HasFallback \in BOOLEAN /\ HasBudget \in BOOLEAN
  /\ MaxTokens \in Nat /\ PerTokenRetries \in Nat \ {0}
  /\ OutCap \in Nat \ {0}
  /\ ChatErrors \subseteq Errors /\ StreamErrors \subseteq Errors

VARIABLES
  flow,    \* the goroutine of each request, and its channel
  client,  \* the handler reads; its client is gone; it returned because of that
  usable   \* tokens that are active and have chat quota

breakers == <<cb, streak>>
vars == <<flow, client, usable, cb, streak>>

MaxAttempts == MaxTokens * PerTokenRetries
Steps == {"idle", "head", "pickPrimary", "pickFallback", "call", "failed",
          "backoff", "stream", "emit", "finish", "report", "circuit", "charge",
          "fail", "done", "panicked"}

\* xai: the client of package xai was made, for the token picked last;
\* queued: events in the channel; ends: terminal events sent.
Flow == [pc : Steps, attempt : 0..MaxAttempts, retries : 0..PerTokenRetries,
         cur : Tokens \union {NoToken}, exclude : SUBSET Tokens,
         swap : BOOLEAN, xai : BOOLEAN, queued : 0..OutCap, ends : 0..1]

TypeOK == /\ flow \in [Requests -> Flow]
          /\ client \in [Requests -> {"reading", "gone", "returned"}]
          /\ usable \subseteq Tokens
          /\ BreakerTypeOK

Init ==
  /\ flow = [r \in Requests |->
       [pc |-> "idle", attempt |-> 0, retries |-> 0, cur |-> NoToken,
        exclude |-> {}, swap |-> FALSE, xai |-> TRUE, queued |-> 0, ends |-> 0]]
  /\ client = [r \in Requests |-> "reading"]
  /\ usable \in SUBSET Tokens
  /\ BreakerInit
-----------------------------------------------------------------------------
At(r, pc) == flow[r].pc = pc
Goto(r, pc) == flow' = [flow EXCEPT ![r].pc = pc]
Gone(r) == client[r] # "reading"
Room(r) == flow[r].queued < OutCap

\* The next iteration of the retry loop, for a request that is now fl.
NextAttempt(fl) == [fl EXCEPT !.attempt = @ + 1, !.pc = "head"]
SwapToken(fl) == [fl EXCEPT !.exclude = @ \union {fl.cur}, !.cur = NoToken]

\* A model outside every pool is answered by one error event at once.
Complete(r) ==
  /\ At(r, "idle")
  /\ \/ Goto(r, "head")
     \/ flow' = [flow EXCEPT ![r].pc = "done", ![r].queued = 1, ![r].ends = 1]
  /\ UNCHANGED <<client, usable, breakers>>

\* The head of the loop: attempts, budget and context, in this order.
GiveUp(r) ==
  /\ At(r, "head")
  /\ flow[r].attempt = MaxAttempts \/ HasBudget \/ Gone(r)
  /\ Goto(r, "fail")
  /\ UNCHANGED <<client, usable, breakers>>

GoOn(r) ==
  /\ At(r, "head")
  /\ flow[r].attempt < MaxAttempts /\ ~Gone(r)
  /\ Goto(r, IF flow[r].cur = NoToken \/ flow[r].retries >= PerTokenRetries
               THEN "pickPrimary" ELSE "call")
  /\ UNCHANGED <<client, usable, breakers>>

\* PickExcluding on one pool; the breakers are asked before it selects.
Candidates(r, pool) ==
  {t \in (pool \intersect usable) \ flow[r].exclude : Allows(cb[t])}

\* The factory of the xai client may fail, of a proxy or URL it cannot parse;
\* nobody looks whether it gave one.
PickFrom(r, pc, pool, t) ==
  /\ At(r, pc) /\ t \in Candidates(r, pool)
  /\ \E made \in BOOLEAN :
       flow' = [flow EXCEPT ![r] =
         [@ EXCEPT !.cur = t, !.retries = 0, !.xai = made, !.pc = "call"]]
  /\ AskBreakers
  /\ UNCHANGED <<client, usable>>

PrimaryEmpty(r) ==
  /\ At(r, "pickPrimary") /\ HasFallback /\ Candidates(r, Primary) = {}
  /\ Goto(r, "pickFallback")
  /\ AskBreakers
  /\ UNCHANGED <<client, usable>>

\* A model of both pools prefers one and falls back to the other.
LastPool == IF HasFallback THEN "pickFallback" ELSE "pickPrimary"

\* No pool of the model has a token: the excluded ones get another chance,
\* once; then the attempt is lost.  Without a fallback the code reads the token
\* it did not get: the goroutine panics, closes the channel and is recovered.
NoTokenLeft(r) ==
  /\ At(r, LastPool)
  /\ Candidates(r, IF HasFallback THEN Fallback ELSE Primary) = {}
  /\ flow' = [flow EXCEPT ![r] =
       IF @.exclude # {} THEN [@ EXCEPT !.exclude = {}, !.pc = "pickPrimary"]
       ELSE IF HasFallback THEN NextAttempt(@)
       ELSE [@ EXCEPT !.pc = "panicked"]]
  /\ AskBreakers
  /\ UNCHANGED <<client, usable>>
-----------------------------------------------------------------------------
IsNonRecoverable(e) == e \in {"invalid", "badRequest", "cancelled"}
\* With the default cooling codes, 429 alone.
ShouldCoolToken(e) == e = "rateLimited"
ShouldSwapToken(e) == e = "forbidden" \/ ShouldCoolToken(e)

\* handleError: MarkExpired or ReportRateLimit take the token out, ReportError
\* disables it at the failure threshold; the other errors are not its fault.
HandleError(t, e) ==
  CASE e \in {"invalid", "forbidden", "rateLimited"} -> usable' = usable \ {t}
    [] e \in {"badRequest", "other"} -> usable' \in {usable, usable \ {t}}
    [] e \in {"challenge", "transport", "cancelled"} -> UNCHANGED usable

\* buildXAIRequest cannot upload an attachment: the request ends and the token is
\* not blamed.  (A session reset after a challenge never fails.)
BuildFails(r) ==
  /\ At(r, "call")
  /\ Goto(r, "fail")
  /\ UNCHANGED <<client, usable, breakers>>

\* client.Chat without a client.
ClientMissing(r) ==
  /\ At(r, "call") /\ ~flow[r].xai
  /\ Goto(r, "panicked")
  /\ UNCHANGED <<client, usable, breakers>>

ChatStarts(r) ==
  /\ At(r, "call") /\ flow[r].xai
  /\ Goto(r, "stream")
  /\ UNCHANGED <<client, usable, breakers>>

ChatFails(r, e) ==
  /\ At(r, "call") /\ flow[r].xai
  /\ HandleError(flow[r].cur, e)
  /\ flow' = [flow EXCEPT ![r].retries = @ + 1,
                          ![r].swap = ShouldSwapToken(e),
                          ![r].pc = IF IsNonRecoverable(e) THEN "fail" ELSE "failed"]
  /\ UNCHANGED <<client, breakers>>

MarkCircuitFailure(r) ==
  /\ At(r, "failed")
  /\ RecordFailure(flow[r].cur)
  /\ flow' = [flow EXCEPT ![r] =
       [(IF @.swap THEN SwapToken(@) ELSE @) EXCEPT !.swap = FALSE, !.pc = "backoff"]]
  /\ UNCHANGED <<client, usable>>

\* Mutant of BackoffEnds: the attempt is not counted.
BackoffUncounted(r) ==
  /\ At(r, "backoff")
  /\ Goto(r, "head")
  /\ UNCHANGED <<client, usable, breakers>>

BackoffEnds(r) ==
  /\ At(r, "backoff")
  /\ flow' = [flow EXCEPT ![r] = NextAttempt(@)]
  /\ UNCHANGED <<client, usable, breakers>>

BackoffCut(r) ==
  /\ At(r, "backoff")
  /\ HasBudget \/ Gone(r)
  /\ Goto(r, "fail")
  /\ UNCHANGED <<client, usable, breakers>>
-----------------------------------------------------------------------------
\* streamEvents takes an event of the answer and sends it on.
Receive(r) ==
  /\ At(r, "stream")
  /\ Goto(r, "emit")
  /\ UNCHANGED <<client, usable, breakers>>

Emit(r) ==
  /\ At(r, "emit") /\ Room(r)
  /\ flow' = [flow EXCEPT ![r].queued = @ + 1, ![r].pc = "stream"]
  /\ UNCHANGED <<client, usable, breakers>>

\* Mutant of StreamFails: the request ends when its stream does, and nobody
\* sends the error.
StreamFailsReturns(r, e) ==
  /\ At(r, "stream") /\ (e = "cancelled" => Gone(r))
  /\ HandleError(flow[r].cur, e)
  /\ Goto(r, "done")
  /\ UNCHANGED <<client, breakers>>

\* The answer breaks off, or the client is gone; retried without a backoff,
\* whatever the error was.
StreamFails(r, e) ==
  /\ At(r, "stream") /\ (e = "cancelled" => Gone(r))
  /\ HandleError(flow[r].cur, e)
  /\ LET failed == [flow[r] EXCEPT !.retries = @ + 1] IN
       flow' = [flow EXCEPT ![r] = NextAttempt(
         IF failed.retries >= PerTokenRetries \/ ShouldSwapToken(e)
           THEN SwapToken(failed) ELSE failed)]
  /\ UNCHANGED <<client, breakers>>

StreamCloses(r) ==
  /\ At(r, "stream")
  /\ Goto(r, "finish")
  /\ UNCHANGED <<client, usable, breakers>>

\* A terminal event: the finish event of an answer, or the last error.
SendLast(r, from, to) ==
  /\ At(r, from) /\ Room(r)
  /\ flow' = [flow EXCEPT ![r].queued = @ + 1, ![r].ends = @ + 1, ![r].pc = to]
  /\ UNCHANGED <<client, usable, breakers>>
SendFinish(r) == SendLast(r, "finish", "report")
SendError(r) == SendLast(r, "fail", "done")

\* ReportSuccess makes the token active again; it may lack quota.
ReportSuccess(r) ==
  /\ At(r, "report")
  /\ usable' \in {usable, usable \union {flow[r].cur}}
  /\ Goto(r, "circuit")
  /\ UNCHANGED <<client, breakers>>

MarkCircuitSuccess(r) ==
  /\ At(r, "circuit")
  /\ RecordSuccess(flow[r].cur)
  /\ Goto(r, "charge")
  /\ UNCHANGED <<client, usable>>

\* Consume may take the last of the quota.
Consume(r) ==
  /\ At(r, "charge")
  /\ usable' \in {usable, usable \ {flow[r].cur}}
  /\ Goto(r, "done")
  /\ UNCHANGED <<client, breakers>>
-----------------------------------------------------------------------------
\* The handler takes an event; a streaming one returns when its client is gone.
Read(r) ==
  /\ client[r] # "returned" /\ flow[r].queued > 0
  /\ flow' = [flow EXCEPT ![r].queued = @ - 1]
  /\ client' = IF r \in Streaming /\ Gone(r)
                 THEN [client EXCEPT ![r] = "returned"] ELSE client
  /\ UNCHANGED <<usable, breakers>>

Leave(r) ==
  /\ client[r] = "reading" /\ flow[r].pc \notin {"idle", "done", "panicked"}
  /\ client' = [client EXCEPT ![r] = "gone"]
  /\ UNCHANGED <<flow, usable, breakers>>

\* Other goroutines and the clock: a token comes back, runs out or is edited.
ManagerChanges(t) ==
  /\ usable' \in {usable \union {t}, usable \ {t}} \ {usable}
  /\ UNCHANGED <<flow, client, breakers>>

\* SyncToken puts the row of an edited token in, with a new breaker; the old one
\* is gone from the moment the old object is.
Reload(t) ==
  /\ ResetBreaker(t)
  /\ usable' \in {usable, usable \union {t}, usable \ {t}}
  /\ UNCHANGED <<flow, client>>

BreakerClock(t) == HalfOpenTimeout(t) /\ UNCHANGED <<flow, client, usable>>

Loop(r) == \/ Complete(r) \/ GiveUp(r) \/ GoOn(r)
           \/ \E t \in Primary : PickFrom(r, "pickPrimary", Primary, t)
           \/ \E t \in Fallback : PickFrom(r, "pickFallback", Fallback, t)
           \/ PrimaryEmpty(r) \/ NoTokenLeft(r)
           \/ BuildFails(r) \/ ClientMissing(r) \/ ChatStarts(r) \/ \E e \in ChatErrors : ChatFails(r, e)
           \/ MarkCircuitFailure(r) \/ BackoffEnds(r) \/ BackoffCut(r)
           \/ Emit(r) \/ SendFinish(r) \/ SendError(r)
           \/ ReportSuccess(r) \/ MarkCircuitSuccess(r) \/ Consume(r)

AnswerEnds(r) == StreamCloses(r) \/ \E e \in StreamErrors : StreamFails(r, e)

Next == \/ \E r \in Requests : \/ Loop(r) \/ Receive(r) \/ AnswerEnds(r)
                               \/ Read(r) \/ Leave(r)
        \/ \E t \in Tokens : ManagerChanges(t) \/ Reload(t) \/ BreakerClock(t)

Spec == Init /\ [][Next]_vars

\* Goroutines run; an answer of upstream is finite or breaks off (the HTTP
\* client has a timeout); a handler reads until it returns.
Fairness == \A r \in Requests :
  WF_vars(Loop(r)) /\ SF_vars(AnswerEnds(r)) /\ WF_vars(Read(r))
FairSpec == Spec /\ Fairness
-----------------------------------------------------------------------------
\* A request that is over sent one terminal event, a finish or an error, and
\* sent it last, unless its goroutine panicked; and it panics only for want of a
\* token in a model of one pool, or for want of a client of package xai.
OneOutcome == \A r \in Requests :
  /\ flow[r].ends = 1 <=> flow[r].pc \in {"report", "circuit", "charge", "done"}
  /\ flow[r].pc = "panicked" => ~HasFallback \/ ~flow[r].xai

Ended(r) == flow[r].pc \in {"done", "panicked"}

\* "All retries exhausted - always send error to client" (chat.go): a channel that
\* closes without a terminal event is a complete answer to who reads it.
AlwaysAnswered == \A r \in Requests : Ended(r) => flow[r].ends = 1

\* A request whose channel nobody empties any more.
Abandoned(r) == client[r] = "returned" /\ flow[r].queued = OutCap

\* What is before a request within its attempt; the pools are tried again once, without
\* exclusions.
Stage(fl) ==
  CASE fl.pc = "idle" -> 14
    [] fl.pc = "head" -> 13
    [] fl.pc = "pickPrimary" -> IF fl.exclude # {} THEN 12 ELSE 10
    [] fl.pc = "pickFallback" -> IF fl.exclude # {} THEN 11 ELSE 9
    [] fl.pc = "call" -> 8
    [] fl.pc = "failed" -> 7
    [] fl.pc \in {"backoff", "stream", "emit"} -> 6
    [] fl.pc = "finish" -> 5
    [] fl.pc = "report" -> 4
    [] fl.pc = "circuit" -> 3
    [] fl.pc = "charge" -> 2
    [] fl.pc = "fail" -> 1
    [] fl.pc \in {"done", "panicked"} -> 0
Remaining(fl) == 15 * (MaxAttempts - fl.attempt) + Stage(fl)

\* A request does not go round in circles: each of its steps leaves less to do, whatever
\* the tokens and the breakers do meanwhile, but for those that pass events on.
PassesOn(old, new) ==
  \/ new = [old EXCEPT !.queued = new.queued]
  \/ {old.pc, new.pc} = {"stream", "emit"} /\ Remaining(new) = Remaining(old)
RequestsAdvance ==
  [][\A r \in Requests :
       Remaining(flow'[r]) < Remaining(flow[r]) \/ PassesOn(flow[r], flow'[r])]_vars

\* Every request ends, whatever upstream, the tokens and the other requests do,
\* unless a streaming client left and its channel filled up.
EveryRequestEnds == \A r \in Requests :
  flow[r].pc # "idle" ~> Ended(r) \/ Abandoned(r)
=============================================================================
