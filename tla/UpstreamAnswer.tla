--------------------------- MODULE UpstreamAnswer ---------------------------
(* What the flows rely on when they read the channel of client.Chat: any     *)
(* number of events, at most one error, nothing after it but the end, and    *)
(* every event is received in its order and once.                            *)
EXTENDS Sequences

VARIABLES
    queue,  \* sent and not received
    ended   \* nothing more is sent

vars == <<queue, ended>>

Init == queue = << >> /\ ended = FALSE

Send == ~ended /\ queue' = Append(queue, "data") /\ UNCHANGED ended
End == ~ended /\ ended' = TRUE /\ UNCHANGED queue
Fail == ~ended /\ ended' = TRUE /\ queue' = Append(queue, "error")
Receive == queue # << >> /\ queue' = Tail(queue) /\ UNCHANGED ended

Spec == Init /\ [][Send \/ End \/ Fail \/ Receive]_vars
=============================================================================
