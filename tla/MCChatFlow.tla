----------------------------- MODULE MCChatFlow -----------------------------
(***************************************************************************)
(* Values for the constants of ChatFlow.                                   *)
(***************************************************************************)
EXTENDS ChatFlow, TLC

CONSTANTS t1, t2, r1, r2

\* One error of each treatment.
MCErrors == {"invalid", "rateLimited", "transport", "badRequest", "other"}
MCStreamErrors == MCErrors \union {"cancelled", "forbidden", "challenge"}

\* Answers to other requests with the same token, in any order.
OthersAnswer(t) ==
  /\ RecordFailure(t) \/ RecordSuccess(t)
  /\ UNCHANGED <<flow, client, usable>>

MCNext == Next \/ \E t \in Tokens : OthersAnswer(t)
=============================================================================
