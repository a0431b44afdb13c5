----------------------------- MODULE ImageFlow -----------------------------
(* A request for images.  A generation asks its token for one image after   *)
(* the other; a blocked image is tried again on other tokens in parallel,   *)
(* the first of which to succeed wins and cancels the rest.  An edit makes  *)
(* calls of up to two images with one token.  Both charge a token when it   *)
(* has delivered and report the errors of tokens.                           *)
(* An attempt ends as ok, blocked, transport (network, cancelled, 5xx) or   *)
(* fault (any other error).  Prompts, sizes and contents are left out.      *)
EXTENDS Integers, Sequences, FiniteSets

CONSTANTS
    Tokens,
    NoToken,
    N,          \* images asked for
    Attempts,   \* blocked_parallel_attempts
    BatchSize,  \* imageEditBatchSize
    MaxUrls,    \* bound: images of a call
    MaxQuota    \* bound: image quota of a token at the start

ASSUME ImageAssumption ==
    /\ IsFiniteSet(Tokens) /\ NoToken \notin Tokens
    /\ N \in Nat \ {0} /\ Attempts \in Nat \ {0}
    /\ BatchSize \in Nat \ {0} /\ MaxUrls \in Nat /\ MaxQuota \in Nat

Outcomes == {"ok", "blocked", "transport", "fault"}

VARIABLES
    edit,       \* the request is an edit
    stage,      \* where it stands
    tok,        \* its token
    images,     \* images it has
    calls,      \* calls of an edit
    urls,       \* images of the call that are not fetched yet
    quota, usable,  \* of the tokens; other requests use them too
    worker,     \* recovery attempts: "none", "running", an outcome or "over"
    resultCh,   \* results of workers
    winner,     \* its token
    firstErr,   \* the first error that was not a block
    left,       \* the context of the request is done
    charged, faults, blames,  \* history: charges; per token own errors, reports
    lost        \* history: charged images of workers nobody took

ledger == <<charged, faults, blames, lost>>
pool == <<quota, usable>>
round == <<worker, resultCh, winner, firstErr>>
imageVars == <<edit, stage, tok, images, calls, urls, pool, round, left, ledger>>

NoneOf(x) == [t \in Tokens |-> x]

ImageInit ==
    /\ edit \in BOOLEAN /\ stage = "pick" /\ tok = NoToken /\ images = 0 /\ calls = 0 /\ urls = 0
    /\ quota \in [Tokens -> 0..MaxQuota] /\ usable = Tokens
    /\ worker = NoneOf("none") /\ resultCh = << >> /\ winner = NoToken /\ firstErr = "none"
    /\ left = FALSE
    /\ charged = 0 /\ faults = NoneOf(0) /\ blames = NoneOf(0) /\ lost = 0

Candidates(exclude) == {t \in usable \ exclude : quota[t] > 0}

---------------------------------------------------------------------------
(* The token service: Consume takes a token without quota out of the pools, *)
(* ReportError one that failed often enough.                                *)
Consume(t) ==
    /\ quota[t] > 0
    /\ quota' = [quota EXCEPT ![t] = @ - 1]
    /\ usable' = IF quota[t] = 1 THEN usable \ {t} ELSE usable
    /\ charged' = charged + 1

ReportError(t) ==
    /\ blames' = [blames EXCEPT ![t] = @ + 1]
    /\ usable' \in {usable, usable \ {t}}

(* The request fails with err; transport errors are nobody's fault.         *)
FailWith(err) ==
    /\ stage' = "failed"
    /\ IF err = "transport" THEN UNCHANGED <<blames, usable>> ELSE ReportError(tok)

OthersConsume(t) ==
    /\ quota[t] > 0
    /\ quota' = [quota EXCEPT ![t] = @ - 1]
    /\ usable' = IF quota[t] = 1 THEN usable \ {t} ELSE usable
    /\ UNCHANGED <<edit, stage, tok, images, calls, urls, round, left, ledger>>

Leave ==
    /\ ~left /\ left' = TRUE
    /\ UNCHANGED <<edit, stage, tok, images, calls, urls, pool, round, ledger>>

PickToken ==
    /\ stage = "pick"
    /\ \/ /\ Candidates({}) = {}
          /\ stage' = "failed" /\ UNCHANGED tok
       \/ /\ tok' \in Candidates({})
          /\ stage' = IF edit THEN "upload" ELSE "attempt"
    /\ UNCHANGED <<edit, images, calls, urls, pool, round, left, ledger>>

---------------------------------------------------------------------------
(* Generations. *)
Fault(t, o) == faults' = IF o = "fault" THEN [faults EXCEPT ![t] = @ + 1] ELSE faults

\* A block is final when the configuration does not allow the recovery.
Attempt(o) ==
    /\ stage = "attempt" /\ Fault(tok, o)
    /\ \/ o = "ok" /\ stage' = "charge" /\ UNCHANGED <<blames, usable>>
       \/ o = "blocked" /\ stage' = "recover" /\ UNCHANGED <<blames, usable>>
       \/ o # "ok" /\ FailWith(o)
    /\ UNCHANGED <<edit, tok, images, calls, urls, quota, round, left, charged, lost>>

(* Without a second token the block is the answer. *)
Recover ==
    /\ stage = "recover"
    /\ IF Candidates({tok}) = {}
       THEN FailWith("blocked") /\ UNCHANGED round
       ELSE /\ \E S \in SUBSET Candidates({tok}) :
                  /\ S # {} /\ Cardinality(S) <= Attempts
                  /\ Cardinality(S) < Attempts => S = Candidates({tok})
                  /\ worker' = [t \in Tokens |-> IF t \in S THEN "running" ELSE "none"]
            /\ stage' = "collect" /\ winner' = NoToken /\ firstErr' = "none"
            /\ UNCHANGED <<resultCh, blames, usable>>
    /\ UNCHANGED <<edit, tok, images, calls, urls, quota, left, charged, faults, lost>>

(* A worker charges its own token before it offers the image. *)
WorkerEnds(t, o) ==
    /\ worker[t] = "running"
    /\ IF o = "ok" /\ quota[t] > 0
       THEN worker' = [worker EXCEPT ![t] = "ok"] /\ Consume(t) /\ UNCHANGED faults
       ELSE LET err == IF o = "ok" THEN "fault" ELSE o IN
            worker' = [worker EXCEPT ![t] = err] /\ Fault(t, err) /\ UNCHANGED <<pool, charged>>
    /\ UNCHANGED <<edit, stage, tok, images, calls, urls, resultCh, winner, firstErr, left, blames, lost>>

(* select: the channel has room for all; a round that is over may drop it.  *)
Cancelled == winner # NoToken \/ left
WorkerSends(t) ==
    /\ worker[t] \in Outcomes
    /\ \/ resultCh' = Append(resultCh, [token |-> t, outcome |-> worker[t]]) /\ UNCHANGED lost
       \/ /\ Cancelled /\ UNCHANGED resultCh
          /\ lost' = IF worker[t] = "ok" THEN lost + 1 ELSE lost
    /\ worker' = [worker EXCEPT ![t] = "over"]
    /\ UNCHANGED <<edit, stage, tok, images, calls, urls, pool, winner, firstErr, left, charged,
                   faults, blames>>

Collected ==
    /\ stage = "collect" /\ resultCh # << >>
    /\ resultCh' = Tail(resultCh)
    /\ UNCHANGED <<edit, stage, tok, images, calls, urls, quota, worker, left, charged, faults>>

FirstError(o) == firstErr' = IF firstErr = "none" /\ o # "blocked" THEN o ELSE firstErr

(* Mutant of Collect: the collector stops at the first image. *)
CollectUntilWon ==
    /\ Collected /\ winner = NoToken
    /\ LET r == Head(resultCh) IN
       \/ r.outcome = "ok" /\ winner' = r.token /\ UNCHANGED <<firstErr, blames, usable, lost>>
       \/ r.outcome # "ok" /\ FirstError(r.outcome) /\ UNCHANGED <<winner, blames, usable, lost>>

(* Mutant of Collect: transport errors are reported too. *)
CollectBlamesAll ==
    /\ Collected
    /\ LET r == Head(resultCh) IN
       \/ /\ r.outcome = "ok" /\ winner' = r.token
          /\ UNCHANGED <<firstErr, blames, usable, lost>>
       \/ r.outcome # "ok" /\ FirstError(r.outcome) /\ ReportError(r.token) /\ UNCHANGED <<winner, lost>>

Collect ==
    /\ Collected
    /\ LET r == Head(resultCh) IN
       \/ /\ r.outcome = "ok" /\ winner = NoToken
          /\ winner' = r.token
          /\ UNCHANGED <<firstErr, blames, usable, lost>>
       \/ /\ r.outcome = "ok" /\ winner # NoToken
          /\ lost' = lost + 1
          /\ UNCHANGED <<winner, firstErr, blames, usable>>
       \/ /\ r.outcome # "ok" /\ FirstError(r.outcome)
          /\ IF r.outcome = "fault" THEN ReportError(r.token) ELSE UNCHANGED <<blames, usable>>
          /\ UNCHANGED <<winner, lost>>

RoundOver ==
    /\ stage = "collect" /\ resultCh = << >>
    /\ \A t \in Tokens : worker[t] \in {"none", "over"}

NextImage == stage' = IF images' < N THEN "attempt" ELSE "answered"

(* Mutant of RoundWon: the winner is charged like a first attempt. *)
RoundWonUnpaid ==
    /\ RoundOver /\ winner # NoToken
    /\ tok' = winner /\ stage' = "charge" /\ worker' = NoneOf("none")
    /\ UNCHANGED <<edit, images, calls, urls, pool, resultCh, winner, firstErr, left, ledger>>

(* The request goes on with the winner's token. *)
RoundWon ==
    /\ RoundOver /\ winner # NoToken
    /\ tok' = winner /\ images' = images + 1 /\ NextImage
    /\ winner' = NoToken /\ worker' = NoneOf("none")
    /\ UNCHANGED <<edit, calls, urls, pool, resultCh, firstErr, left, ledger>>

(* The first token answers for the errors of the others. *)
RoundLost ==
    /\ RoundOver /\ winner = NoToken
    /\ FailWith(IF firstErr = "none" THEN "blocked" ELSE firstErr)
    /\ UNCHANGED <<edit, tok, images, calls, urls, quota, round, left, charged, faults, lost>>

Charge ==
    /\ stage = "charge"
    /\ IF quota[tok] > 0
       THEN Consume(tok) /\ images' = images + 1 /\ NextImage
       ELSE stage' = "failed" /\ UNCHANGED <<pool, charged, images>>
    /\ UNCHANGED <<edit, tok, calls, urls, round, left, faults, blames, lost>>

---------------------------------------------------------------------------
(* Edits. *)
(* An upload, a call or a download ends with an error. *)
EditFails(o) ==
    /\ stage \in {"upload", "call", "fetch"} /\ o \in {"transport", "fault"}
    /\ Fault(tok, o) /\ FailWith(o)
    /\ UNCHANGED <<edit, tok, images, calls, urls, quota, round, left, charged, lost>>

(* Without a parent post the edit goes on. *)
Upload ==
    /\ stage = "upload" /\ stage' = "call"
    /\ UNCHANGED <<edit, tok, images, calls, urls, pool, round, left, ledger>>

CallsNeeded == (N + BatchSize - 1) \div BatchSize
EditLoop(made, have) ==
    stage' = IF made < CallsNeeded /\ have < N THEN "call"
             ELSE IF have > 0 THEN "answered" ELSE "empty"

(* A call shows k images, fresh of which no earlier call did. *)
Call(k, fresh) ==
    /\ stage = "call" /\ fresh <= k
    /\ calls' = calls + 1
    /\ IF k = 0 THEN EditLoop(calls + 1, images) /\ UNCHANGED <<urls, pool, charged, faults, blames>>
       ELSE IF quota[tok] > 0
       THEN /\ Consume(tok) /\ urls' = fresh
            /\ IF fresh > 0 THEN stage' = "fetch" ELSE EditLoop(calls + 1, images)
            /\ UNCHANGED <<faults, blames>>
       ELSE FailWith("fault") /\ Fault(tok, "fault") /\ UNCHANGED <<urls, quota, charged>>
    /\ UNCHANGED <<edit, tok, images, round, left, lost>>

Fetch ==
    /\ stage = "fetch"
    /\ images' = images + 1 /\ urls' = IF images + 1 >= N THEN 0 ELSE urls - 1
    /\ IF urls' > 0 THEN UNCHANGED stage ELSE EditLoop(calls, images + 1)
    /\ UNCHANGED <<edit, tok, calls, pool, round, left, ledger>>

(* "no edited images received" *)
EditEmpty ==
    /\ stage = "empty" /\ FailWith("fault") /\ Fault(tok, "fault")
    /\ UNCHANGED <<edit, tok, images, calls, urls, quota, round, left, charged, lost>>

EditStep ==
    \/ Upload \/ Fetch \/ EditEmpty
    \/ \E o \in Outcomes : EditFails(o)
    \/ \E k \in 0..MaxUrls, fresh \in 0..MaxUrls : Call(k, fresh)

---------------------------------------------------------------------------
RequestStep ==
    \/ PickToken \/ Recover \/ Collect \/ RoundWon \/ RoundLost \/ Charge \/ EditStep
    \/ \E o \in Outcomes : Attempt(o)
WorkerStep(t) == WorkerSends(t) \/ \E o \in Outcomes : WorkerEnds(t, o)

ImageNext ==
    \/ RequestStep \/ Leave
    \/ \E t \in Tokens : WorkerStep(t) \/ OthersConsume(t)

(* Attempts end by the deadlines of their connections. *)
ImageFairness ==
    /\ WF_imageVars(RequestStep)
    /\ \A t \in Tokens : WF_imageVars(WorkerStep(t))
ImageSpec == ImageInit /\ [][ImageNext]_imageVars /\ ImageFairness

---------------------------------------------------------------------------
ImageTypeOK ==
    /\ edit \in BOOLEAN
    /\ stage \in {"pick", "attempt", "recover", "collect", "charge", "upload", "call", "fetch",
                 "empty", "answered", "failed"}
    /\ tok \in Tokens \cup {NoToken} /\ winner \in Tokens \cup {NoToken}
    /\ images \in 0..N /\ calls \in 0..CallsNeeded /\ urls \in 0..MaxUrls
    /\ quota \in [Tokens -> 0..MaxQuota] /\ usable \subseteq Tokens
    /\ worker \in [Tokens -> Outcomes \cup {"none", "running", "over"}]
    /\ resultCh \in Seq([token : Tokens, outcome : Outcomes])
    /\ firstErr \in {"none", "transport", "fault"} /\ left \in BOOLEAN
    /\ faults \in [Tokens -> Nat] /\ blames \in [Tokens -> Nat]
    /\ charged \in Nat /\ lost \in Nat

\* Charged images that nobody has taken yet: of workers, in the channel and the winner's.
Delivered == {t \in Tokens : worker[t] = "ok"}
Offered == {i \in DOMAIN resultCh : resultCh[i].outcome = "ok"}
Unclaimed ==
    Cardinality(Delivered) + Cardinality(Offered) + IF winner = NoToken THEN 0 ELSE 1

(* Every image was charged once, and a charge without an image is that of a  *)
(* worker which came second or whose request was over.  Of an edit every     *)
(* call is charged at most once, and none gives images for nothing.          *)
Paid ==
    IF edit THEN /\ charged <= CallsNeeded
                 /\ images > 0 => charged > 0
    ELSE charged = images + Unclaimed + lost

(* Errors are reported of the token that made them and never of one whose    *)
(* attempts were blocked, cancelled or cut by the network; except that the   *)
(* request's own token also answers for the error the request ends with.     *)
InnocentSpared ==
    \A t \in Tokens :
        blames[t] <= faults[t] + (IF stage = "failed" /\ t = tok THEN 1 ELSE 0)

(* The request ends: no worker keeps it from its answer. *)
ImageRequestEnds == stage \in {"attempt", "upload"} ~> stage \in {"answered", "failed"}
=============================================================================
