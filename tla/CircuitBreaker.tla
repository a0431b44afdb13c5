--------------------------- MODULE CircuitBreaker ---------------------------
(***************************************************************************)
(* The per-token circuit breakers of the token manager.  They live in      *)
(* memory only and have their own lock, so each action is one call.        *)
(*                                                                         *)
(* streak is history: the failures recorded on a token since the last      *)
(* success, counted up to the threshold.  It says what a breaker promises. *)
(***************************************************************************)
EXTENDS Integers, FiniteSets

CONSTANTS Tokens,           \* token ids
          BreakerThreshold  \* circuit_breaker_fail_threshold

ASSUME BreakerAssumption == BreakerThreshold \in Nat \ {0}

VARIABLES cb,      \* m.circuits
          streak   \* history

\* elapsed: the time halfOpenAt has passed; it only matters while open.
Breaker == [state : {"closed", "open", "halfOpen"},
            failures : 0..BreakerThreshold, elapsed : BOOLEAN]

BreakerTypeOK == /\ cb \in [Tokens -> Breaker]
                 /\ streak \in [Tokens -> 0..BreakerThreshold]

newCircuitBreaker == [state |-> "closed", failures |-> 0, elapsed |-> FALSE]

BreakerInit == /\ cb = [t \in Tokens |-> newCircuitBreaker]
               /\ streak = [t \in Tokens |-> 0]

\* What AllowRequest answers, and the breaker it leaves behind.
Allows(b) == b.state # "open" \/ b.elapsed
AllowRequest(b) ==
  IF b.state = "open" /\ b.elapsed THEN [b EXCEPT !.state = "halfOpen", !.elapsed = FALSE] ELSE b

\* pick asks every breaker of the manager, those of other pools included.
AskBreakers == /\ cb' = [t \in Tokens |-> AllowRequest(cb[t])]
               /\ UNCHANGED streak

Open(b) == [b EXCEPT !.state = "open", !.elapsed = FALSE]

Failed(b) ==
  CASE b.state = "closed" ->
         LET counted == [b EXCEPT !.failures = @ + 1] IN
         IF counted.failures >= BreakerThreshold THEN Open(counted) ELSE counted
    [] b.state = "halfOpen" -> Open(b)
    [] b.state = "open" -> b

RecordFailure(t) ==
  /\ cb' = [cb EXCEPT ![t] = Failed(@)]
  /\ streak' = [streak EXCEPT ![t] = IF @ < BreakerThreshold THEN @ + 1 ELSE @]

\* Mutant of Succeeded: the failures of before a success still count.
SucceededKeepsCount(b) == [b EXCEPT !.state = "closed", !.elapsed = FALSE]

Succeeded(b) == newCircuitBreaker

RecordSuccess(t) ==
  /\ cb' = [cb EXCEPT ![t] = Succeeded(@)]
  /\ streak' = [streak EXCEPT ![t] = 0]

\* AddToken gives a token that is loaded again a fresh breaker.
ResetBreaker(t) ==
  /\ cb' = [cb EXCEPT ![t] = newCircuitBreaker]
  /\ streak' = [streak EXCEPT ![t] = 0]

HalfOpenTimeout(t) ==
  /\ cb[t].state = "open" /\ ~cb[t].elapsed
  /\ cb' = [cb EXCEPT ![t].elapsed = TRUE]
  /\ UNCHANGED streak

\* A breaker lets requests through freely exactly while fewer failures than the
\* threshold were recorded since the last success or reload, however the answers
\* of overlapping requests are ordered.
ClosedBelowThreshold == \A t \in Tokens :
  cb[t].state = "closed" <=> streak[t] < BreakerThreshold
=============================================================================
