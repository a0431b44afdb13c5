---------------------------- MODULE ImagineStream ----------------------------
(* One image attempt on the websocket: the goroutine that reads messages and *)
(* sends events (streamImages), the timer that declares the image blocked    *)
(* when no final follows a medium in time, and the flow that ranges over the *)
(* events (generateSingle).  They share a mutex, the event channel and       *)
(* doneCh; doneCh and the events are closed by the deferred calls at the end *)
(* of the streamer, after the timer was stopped.                             *)
EXTENDS Integers, Sequences

CONSTANTS
    Cap,          \* capacity of the event channel, 16 in the code
    MaxMessages   \* bound: messages of the server

ASSUME StreamAssumption == Cap \in Nat \ {0} /\ MaxMessages \in Nat

VARIABLES
    streamer,    \* where streamImages stands
    event,       \* the event it is about to send
    last,        \* it returns after that send
    messages,    \* messages read so far
    eventCh,     \* events sent and not received
    closed,      \* what is closed: "doneCh", "eventCh"
    mu,          \* who holds the mutex across a step: "nobody", "timer"
    hasMedium, hasFinal,
    timer,       \* the grace timer and its callback
    reader,      \* the range of generateSingle, or what it returned
    image,       \* finalImage is set
    ended        \* the context of the request is done

streamVars == <<streamer, event, last, messages, eventCh, closed, mu, hasMedium, hasFinal,
                timer, reader, image, ended>>

StreamInit ==
    /\ streamer = "top" /\ event = "none" /\ last = FALSE /\ messages = 0
    /\ eventCh = << >> /\ closed = {} /\ mu = "nobody"
    /\ hasMedium = FALSE /\ hasFinal = FALSE /\ timer = "unset"
    /\ reader = "reading" /\ image = FALSE /\ ended = FALSE

Alive == timer # "panicked"

---------------------------------------------------------------------------
(* The streamer. *)
Sending(e, isLast) ==
    streamer' = "sending" /\ event' = e /\ last' = isLast

Top ==
    /\ streamer = "top"
    /\ IF ended THEN Sending("error", TRUE) ELSE streamer' = "read" /\ UNCHANGED <<event, last>>
    /\ UNCHANGED <<messages, eventCh, closed, mu, hasMedium, hasFinal, timer, reader, image, ended>>

(* A message within its deadline; what it was parsed to. *)
Message ==
    /\ streamer = "read" /\ messages < MaxMessages
    /\ messages' = messages + 1
    /\ UNCHANGED <<eventCh, closed, mu, reader, image, ended>>

ReadPreview ==
    /\ Message /\ Sending("preview", FALSE)
    /\ UNCHANGED <<hasMedium, hasFinal, timer>>

ReadMalformed ==
    /\ Message /\ streamer' = "top"
    /\ UNCHANGED <<event, last, hasMedium, hasFinal, timer>>

ReadMedium ==
    /\ Message /\ mu = "nobody"
    /\ hasMedium' = TRUE
    /\ timer' = IF timer = "unset" THEN "armed" ELSE timer
    /\ Sending("medium", FALSE)
    /\ UNCHANGED hasFinal

StopTimer == timer' = IF timer = "armed" THEN "stopped" ELSE timer

ReadFinal ==
    /\ Message /\ mu = "nobody"
    /\ hasFinal' = TRUE /\ StopTimer
    /\ Sending("final", TRUE)
    /\ UNCHANGED hasMedium

ReadDone ==
    /\ Message /\ streamer' = "leaving"
    /\ UNCHANGED <<event, last, hasMedium, hasFinal, timer>>

ReadError ==
    /\ Message /\ Sending("error", TRUE)
    /\ UNCHANGED <<hasMedium, hasFinal, timer>>

(* The deadline passed or the connection broke: looks at hasFinal under the  *)
(* mutex; or the server closed it normally.                                  *)
ReadFails ==
    /\ streamer = "read"
    /\ \/ streamer' = "leaving" /\ UNCHANGED <<event, last>>
       \/ mu = "nobody" /\ ~hasFinal /\ Sending("error", TRUE)
    /\ UNCHANGED <<messages, eventCh, closed, mu, hasMedium, hasFinal, timer, reader, image, ended>>

(* safeSend does not look at the context. *)
Send ==
    /\ streamer = "sending" /\ Len(eventCh) < Cap
    /\ eventCh' = Append(eventCh, event)
    /\ event' = "none" /\ last' = FALSE
    /\ streamer' = IF last THEN "leaving" ELSE "top"
    /\ UNCHANGED <<messages, closed, mu, hasMedium, hasFinal, timer, reader, image, ended>>

(* The deferred calls: the timer, doneCh, the connection and the events. *)
LeaveStopsTimer ==
    /\ streamer = "leaving" /\ mu = "nobody"
    /\ streamer' = "stopped" /\ StopTimer
    /\ UNCHANGED <<event, last, messages, eventCh, closed, mu, hasMedium, hasFinal, reader,
                   image, ended>>

Closes(at, ch, next) ==
    /\ streamer = at
    /\ streamer' = next /\ closed' = closed \cup {ch}
    /\ UNCHANGED <<event, last, messages, eventCh, mu, hasMedium, hasFinal, timer, reader,
                   image, ended>>
LeaveClosesDone == Closes("stopped", "doneCh", "closing")
LeaveClosesEvents == Closes("closing", "eventCh", "gone")

---------------------------------------------------------------------------
(* The callback of the timer. *)
TimerFires ==
    /\ timer = "armed" /\ timer' = "fired"
    /\ UNCHANGED <<streamer, event, last, messages, eventCh, closed, mu, hasMedium, hasFinal,
                   reader, image, ended>>

(* Mutant of TimerLocks: the callback does not look whether a final came. *)
TimerLocksBlindly ==
    /\ timer = "fired" /\ mu = "nobody"
    /\ timer' = "sending" /\ mu' = "timer"
    /\ UNCHANGED <<streamer, event, last, messages, eventCh, closed, hasMedium, hasFinal,
                   reader, image, ended>>

TimerLocks ==
    /\ timer = "fired" /\ mu = "nobody"
    /\ IF hasMedium /\ ~hasFinal
       THEN timer' = "sending" /\ mu' = "timer"
       ELSE timer' = "over" /\ UNCHANGED mu
    /\ UNCHANGED <<streamer, event, last, messages, eventCh, closed, hasMedium, hasFinal,
                   reader, image, ended>>

(* Mutant of TimerSends: the mutex is not released. *)
TimerSendsLocked ==
    /\ timer = "sending" /\ timer' = "over"
    /\ "eventCh" \notin closed /\ Len(eventCh) < Cap /\ eventCh' = Append(eventCh, "blocked")
    /\ UNCHANGED <<streamer, event, last, messages, closed, mu, hasMedium, hasFinal, reader,
                   image, ended>>

(* select: doneCh, or the send, which panics on a closed channel; nothing    *)
(* recovers the callback's goroutine.                                        *)
TimerSends ==
    /\ timer = "sending"
    /\ \/ "doneCh" \in closed /\ timer' = "over" /\ UNCHANGED eventCh
       \/ /\ "eventCh" \notin closed /\ Len(eventCh) < Cap
          /\ timer' = "over" /\ eventCh' = Append(eventCh, "blocked")
       \/ "eventCh" \in closed /\ timer' = "panicked" /\ UNCHANGED eventCh
    /\ mu' = "nobody"
    /\ UNCHANGED <<streamer, event, last, messages, closed, hasMedium, hasFinal, reader,
                   image, ended>>

---------------------------------------------------------------------------
(* generateSingle: a blocked or an error returns and leaves the channel.  *)
Receive ==
    /\ reader = "reading" /\ eventCh # << >>
    /\ eventCh' = Tail(eventCh)
    /\ reader' = IF Head(eventCh) \in {"blocked", "error"} THEN Head(eventCh) ELSE reader
    /\ image' = (image \/ Head(eventCh) = "final")
    /\ UNCHANGED <<streamer, event, last, messages, closed, mu, hasMedium, hasFinal, timer, ended>>

RangeEnds ==
    /\ reader = "reading" /\ eventCh = << >> /\ "eventCh" \in closed
    /\ reader' = IF image THEN "image" ELSE "error"
    /\ UNCHANGED <<streamer, event, last, messages, eventCh, closed, mu, hasMedium, hasFinal,
                   timer, image, ended>>

(* imageGenerationTimeout, a client that left, or a winner of the recovery. *)
ContextEnds ==
    /\ ~ended /\ ended' = TRUE
    /\ UNCHANGED <<streamer, event, last, messages, eventCh, closed, mu, hasMedium, hasFinal,
                   timer, reader, image>>

StreamerStep ==
    \/ Top \/ Send \/ LeaveStopsTimer \/ LeaveClosesDone \/ LeaveClosesEvents
    \/ ReadPreview \/ ReadMalformed \/ ReadMedium \/ ReadFinal \/ ReadDone \/ ReadError \/ ReadFails
TimerStep == TimerLocks \/ TimerSends
ReaderStep == Receive \/ RangeEnds

StreamNext ==
    /\ Alive
    /\ StreamerStep \/ TimerFires \/ TimerStep \/ ReaderStep \/ ContextEnds

(* A read ends by its deadline; the context by its timeout. *)
StreamFairness ==
    /\ WF_streamVars(Alive /\ StreamerStep) /\ WF_streamVars(Alive /\ TimerStep)
    /\ WF_streamVars(Alive /\ ReaderStep)
    /\ WF_streamVars(Alive /\ ContextEnds)

StreamSpec == StreamInit /\ [][StreamNext]_streamVars /\ StreamFairness

---------------------------------------------------------------------------
StreamTypeOK ==
    /\ streamer \in {"top", "read", "sending", "leaving", "stopped", "closing", "gone"}
    /\ event \in {"none", "preview", "medium", "final", "error"} /\ last \in BOOLEAN
    /\ messages \in 0..MaxMessages
    /\ eventCh \in Seq({"preview", "medium", "final", "error", "blocked"}) /\ Len(eventCh) <= Cap
    /\ closed \subseteq {"doneCh", "eventCh"} /\ mu \in {"nobody", "timer"}
    /\ hasMedium \in BOOLEAN /\ hasFinal \in BOOLEAN
    /\ timer \in {"unset", "armed", "fired", "sending", "over", "stopped", "panicked"}
    /\ reader \in {"reading", "image", "blocked", "error"} /\ image \in BOOLEAN
    /\ ended \in BOOLEAN

(* A final image is not lost: one that arrived is returned, whatever the     *)
(* grace timer, the context or the connection do then, and once it was read  *)
(* no late callback of the timer brings the process down by a send on the    *)
(* closed channel (as it can in a stream that ended without its final).      *)
FinalWins ==
    /\ image => reader \in {"reading", "image"}
    /\ hasFinal => timer # "panicked"

(* The streamer ends too, unless the flow has left a full channel behind.    *)
StreamerEnds ==
    streamer \in {"read", "sending"} ~>
        \/ streamer = "gone" \/ ~Alive
        \/ streamer = "sending" /\ reader \in {"blocked", "error"} /\ Len(eventCh) = Cap
=============================================================================
