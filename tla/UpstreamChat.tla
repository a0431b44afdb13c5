---------------------------- MODULE UpstreamChat ----------------------------
(* client.Chat (xai/chat.go) and the flow that reads its channel: a          *)
(* goroutine asks upstream, forwards the lines of the answer, asks again     *)
(* after an error that is not final, also when lines of the answer that      *)
(* broke were forwarded, and sends the last error.  The channel is bounded,  *)
(* its sends do not look at the context, and the reader may have left: the   *)
(* chat flow at the end of the context, all flows at a line they cannot read *)
(* or at an error.                                                           *)
EXTENDS Integers, Sequences

CONSTANTS
    MaxRetry,   \* 0 for chat and image edits, 3 for videos
    Buffer,     \* capacity of the channel (16)
    MaxLines    \* bound: lines upstream sends in all

ASSUME UpstreamAssumption == MaxRetry \in Nat /\ Buffer \in Nat \ {0} /\ MaxLines \in Nat

VARIABLES
    asker,      \* the goroutine: "asking", "forwarding", "pausing", "failing", "ended"
    attempt,    \* counted from 0
    chunks,     \* the channel: events "data" and "error"
    taker,      \* the flow: "reading", "left", "done"
    watches,    \* it selects on the context while it reads
    expiry,     \* the context is done
    lines       \* sent so far

upstreamVars == <<asker, attempt, chunks, taker, watches, expiry, lines>>

UpstreamInit ==
    /\ asker = "asking" /\ attempt = 0 /\ chunks = << >> /\ taker = "reading"
    /\ watches \in BOOLEAN /\ expiry = FALSE /\ lines = 0

TakerStays == UNCHANGED <<taker, watches, expiry>>

---------------------------------------------------------------------------
(* doStreamRequest: status 200, *)
Answers ==
    /\ asker = "asking" /\ asker' = "forwarding"
    /\ UNCHANGED <<attempt, chunks, lines>> /\ TakerStays

(* the end of the context or a status 403, which are not asked again, or an  *)
(* error that is.                                                            *)
FinalError ==
    /\ asker' = "failing"
    /\ UNCHANGED <<attempt, chunks, lines>> /\ TakerStays

(* Mutant of RetryableError: attempts are not counted. *)
RetryableErrorUncounted ==
    /\ asker' = "pausing"
    /\ UNCHANGED <<attempt, chunks, lines>> /\ TakerStays

RetryableError ==
    /\ attempt' = IF attempt < MaxRetry THEN attempt + 1 ELSE attempt
    /\ asker' = IF attempt < MaxRetry THEN "pausing" ELSE "failing"
    /\ UNCHANGED <<chunks, lines>> /\ TakerStays

AskFails == asker = "asking" /\ (FinalError \/ RetryableError)

(* parseSSEStream: a line is sent when there is room for it. *)
Forward ==
    /\ asker = "forwarding" /\ lines < MaxLines /\ Len(chunks) < Buffer
    /\ chunks' = Append(chunks, "data") /\ lines' = lines + 1
    /\ UNCHANGED <<asker, attempt>> /\ TakerStays

(* [DONE], or the body ends: also in the middle of an answer, no error. *)
BodyEnds ==
    /\ asker = "forwarding" /\ asker' = "ended"
    /\ UNCHANGED <<attempt, chunks, lines>> /\ TakerStays

(* It breaks, also by the end of the context: a network error either way. *)
BodyBreaks == asker = "forwarding" /\ RetryableError

(* The pause between two attempts, and a select on the context. *)
PauseEnds ==
    /\ asker = "pausing"
    /\ \/ asker' = "asking"
       \/ expiry /\ asker' = "failing"
    /\ UNCHANGED <<attempt, chunks, lines>> /\ TakerStays

(* Mutant of ErrorSent: each failed attempt is reported, and asked again.    *)
ErrorSentEarly ==
    /\ asker = "failing" /\ Len(chunks) < Buffer
    /\ chunks' = Append(chunks, "error")
    /\ asker' = IF lines < MaxLines THEN "asking" ELSE "ended"
    /\ UNCHANGED <<attempt, lines>> /\ TakerStays

(* The error, and the deferred close. *)
ErrorSent ==
    /\ asker = "failing" /\ Len(chunks) < Buffer
    /\ chunks' = Append(chunks, "error") /\ asker' = "ended"
    /\ UNCHANGED <<attempt, lines>> /\ TakerStays

---------------------------------------------------------------------------
(* The flows leave at an error and at a line they cannot decode. *)
Take ==
    /\ taker = "reading" /\ chunks # << >>
    /\ chunks' = Tail(chunks)
    /\ \/ Head(chunks) = "data" /\ UNCHANGED taker
       \/ taker' = "left"
    /\ UNCHANGED <<asker, attempt, watches, expiry, lines>>

TakeClose ==
    /\ taker = "reading" /\ chunks = << >> /\ asker = "ended"
    /\ taker' = "done"
    /\ UNCHANGED <<asker, attempt, chunks, watches, expiry, lines>>

TakerLeaves ==
    /\ taker = "reading" /\ watches /\ expiry
    /\ taker' = "left"
    /\ UNCHANGED <<asker, attempt, chunks, watches, expiry, lines>>

(* The request's timeout passes, its client leaves or its handler returns. *)
RequestExpires ==
    /\ ~expiry /\ expiry' = TRUE
    /\ UNCHANGED <<asker, attempt, chunks, taker, watches, lines>>

---------------------------------------------------------------------------
UpstreamNext ==
    \/ Answers \/ AskFails \/ Forward \/ BodyEnds \/ BodyBreaks \/ PauseEnds \/ ErrorSent
    \/ Take \/ TakeClose \/ TakerLeaves \/ RequestExpires

(* The end of the context ends what is asked and read upstream; upstream may *)
(* be silent until then.  A goroutine that waits for room does not read.     *)
CutOff == expiry /\ ~(Len(chunks) = Buffer /\ asker = "forwarding") /\ (AskFails \/ BodyBreaks)
UpstreamRuns == CutOff \/ PauseEnds \/ ErrorSent
TakerRuns == Take \/ TakeClose \/ TakerLeaves

UpstreamFairness == WF_upstreamVars(UpstreamRuns) /\ WF_upstreamVars(TakerRuns)

UpstreamSpec == UpstreamInit /\ [][UpstreamNext]_upstreamVars /\ UpstreamFairness

---------------------------------------------------------------------------
UpstreamTypeOK ==
    /\ asker \in {"asking", "forwarding", "pausing", "failing", "ended"}
    /\ attempt \in 0..MaxRetry /\ chunks \in Seq({"data", "error"}) /\ Len(chunks) <= Buffer
    /\ taker \in {"reading", "left", "done"} /\ watches \in BOOLEAN /\ expiry \in BOOLEAN
    /\ lines \in 0..MaxLines

(* However often upstream is asked again, the reader sees one answer that    *)
(* ends, at most once, in an error after which nothing comes.  ChatFlow,     *)
(* VideoFlow and ImageFlow start from this.                                  *)
Answered == INSTANCE UpstreamAnswer WITH queue <- chunks, ended <- (asker = "ended")
AnswerSpec == Answered!Spec

(* The goroutine ends after the context, whatever upstream does, unless its  *)
(* reader left it with a full channel: it then waits, and its connection     *)
(* with it, for as long as the process runs.                                 *)
Abandoned == taker = "left" /\ Len(chunks) = Buffer
AskerEnds == expiry ~> (asker = "ended" \/ Abandoned)
=============================================================================
