---------------------------- MODULE ChatBreaker ----------------------------
(***************************************************************************)
(* ChatFlow with a history of upstream errors: misses counts, by token and *)
(* up to the threshold, the retryable errors of upstream since the last    *)
(* recorded success or reload, whether client.Chat returned them or an event of the  *)
(* answer carried them.                                                    *)
(***************************************************************************)
EXTENDS ChatFlow

VARIABLE misses

Missed(t) == \E r \in Requests : flow[r].cur = t /\
  \E e \in Errors : ~IsNonRecoverable(e) /\ (ChatFails(r, e) \/ StreamFails(r, e))
Recorded(t) == \E r \in Requests : flow[r].cur = t /\ MarkCircuitSuccess(r)

CountMisses == misses' = [t \in Tokens |->
  IF Missed(t) /\ misses[t] < BreakerThreshold THEN misses[t] + 1
  ELSE IF Recorded(t) \/ Reload(t) THEN 0 ELSE misses[t]]

HistorySpec == /\ Init /\ misses = [t \in Tokens |-> 0]
               /\ [][Next /\ CountMisses]_<<vars, misses>>

\* MarkCircuitFailure is called "after a retryable upstream error" (manager.go):
\* once circuit_breaker_fail_threshold such errors in a row were reported on a
\* token, its breaker is no longer closed.
OpensAfterFailures == \A t \in Tokens :
  /\ misses[t] = BreakerThreshold
  /\ \A r \in Requests : ~(flow[r].cur = t /\ flow[r].pc = "failed")
  => cb[t].state # "closed"
=============================================================================
