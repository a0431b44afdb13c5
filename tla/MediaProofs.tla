----------------------------- MODULE MediaProofs -----------------------------
(***************************************************************************)
(* Proofs about the flows that read from upstream: the websocket of an     *)
(* image (ImagineStream), the channel of a chat (UpstreamChat), the file   *)
(* of a video (VideoFlow) and a request for images (ImageFlow), for any    *)
(* capacities and bounds.                                                  *)
(***************************************************************************)
EXTENDS ImagineStream, UpstreamChat, ImageFlow, VideoFlow,
        SequenceTheorems, FiniteSetTheorems, TLAPS

-----------------------------------------------------------------------------
(***************************************************************************)
(* ImagineStream.  FinalWins is not inductive: once the final was read the *)
(* timer can neither hold the mutex nor send, and the final is the last    *)
(* event there is: about to be sent, the last of the channel, or received  *)
(* and the channel empty.                                                  *)
(***************************************************************************)
Leaving == {"leaving", "stopped", "closing", "gone"}
HasNoFinal == \A i \in 1..Len(eventCh) : eventCh[i] # "final"
FinalIsLast == /\ eventCh # << >> /\ eventCh[Len(eventCh)] = "final"
               /\ \A i \in 1..Len(eventCh) : i < Len(eventCh) => eventCh[i] # "final"

\* The streamer has an event in hand exactly while it sends, and the callback holds
\* the mutex while it does.
HandsInv ==
    /\ streamer = "sending" <=> event # "none"
    /\ timer = "sending" => mu = "timer"

FinalInv ==
    /\ hasFinal => timer \notin {"armed", "sending", "panicked"}
    /\ hasFinal => \/ streamer = "sending" /\ event = "final" /\ last
                   \/ streamer \in Leaving
    /\ event = "final" => hasFinal
    /\ ~hasFinal \/ event = "final" => ~image /\ HasNoFinal
    /\ hasFinal /\ event # "final" => (~image /\ FinalIsLast) \/ (image /\ eventCh = << >>)
    /\ image => reader \in {"reading", "image"}

StreamInv == StreamTypeOK /\ HandsInv /\ FinalInv

LEMMA StreamStarts == ASSUME StreamInit PROVE StreamInv
<1>1. StreamTypeOK
  <2>1. eventCh \in Seq({"preview", "medium", "final", "error", "blocked"}) /\ Len(eventCh) <= Cap
        /\ messages \in 0..MaxMessages
    BY StreamAssumption DEF StreamInit
  <2> QED
    BY <2>1 DEF StreamInit, StreamTypeOK
<1>2. HandsInv /\ HasNoFinal
  BY DEF StreamInit, HandsInv, HasNoFinal
<1>3. FinalInv
  BY <1>2 DEF StreamInit, FinalInv
<1> QED
  BY <1>1, <1>2, <1>3 DEF StreamInv

\* One more event at the end.
LEMMA SendsEvent ==
  ASSUME StreamTypeOK, NEW e \in {"preview", "medium", "final", "error", "blocked"},
         Len(eventCh) < Cap, eventCh' = Append(eventCh, e)
  PROVE  /\ eventCh' \in Seq({"preview", "medium", "final", "error", "blocked"})
         /\ Len(eventCh') <= Cap /\ eventCh' # << >>
         /\ HasNoFinal /\ e # "final" => HasNoFinal'
         /\ HasNoFinal /\ e = "final" => FinalIsLast'
<1>1. /\ eventCh \in Seq({"preview", "medium", "final", "error", "blocked"})
      /\ Cap \in Nat /\ Len(eventCh) \in Nat
  BY StreamAssumption DEF StreamTypeOK
<1>2. /\ eventCh' \in Seq({"preview", "medium", "final", "error", "blocked"})
      /\ Len(eventCh') = Len(eventCh) + 1 /\ eventCh'[Len(eventCh) + 1] = e
      /\ \A i \in 1..Len(eventCh) : eventCh'[i] = eventCh[i]
  BY <1>1
<1>3. Len(eventCh') <= Cap /\ eventCh' # << >>
  BY <1>1, <1>2
<1>4. HasNoFinal /\ e # "final" => HasNoFinal'
  BY <1>1, <1>2 DEF HasNoFinal
<1>5. HasNoFinal /\ e = "final" => FinalIsLast'
  BY <1>1, <1>2, <1>3 DEF HasNoFinal, FinalIsLast
<1> QED
  BY <1>2, <1>3, <1>4, <1>5

\* The first event is taken away.
LEMMA TakesEvent ==
  ASSUME StreamTypeOK, eventCh # << >>, eventCh' = Tail(eventCh)
  PROVE  /\ eventCh' \in Seq({"preview", "medium", "final", "error", "blocked"})
         /\ Len(eventCh') <= Cap
         /\ HasNoFinal => HasNoFinal' /\ Head(eventCh) # "final"
         /\ FinalIsLast => \/ Head(eventCh) = "final" /\ eventCh' = << >>
                           \/ Head(eventCh) # "final" /\ FinalIsLast'
<1>1. /\ eventCh' \in Seq({"preview", "medium", "final", "error", "blocked"})
      /\ Len(eventCh') = Len(eventCh) - 1 /\ Len(eventCh) \in Nat /\ Len(eventCh) > 0
      /\ Cap \in Nat /\ Len(eventCh) <= Cap
      /\ Head(eventCh) = eventCh[1]
      /\ \A i \in 1..Len(eventCh') : eventCh'[i] = eventCh[i + 1]
  BY StreamAssumption DEF StreamTypeOK
<1>2. ASSUME HasNoFinal PROVE HasNoFinal' /\ Head(eventCh) # "final"
  BY <1>1, <1>2 DEF HasNoFinal
<1>3. ASSUME FinalIsLast
      PROVE  \/ Head(eventCh) = "final" /\ eventCh' = << >>
             \/ Head(eventCh) # "final" /\ FinalIsLast'
  <2>1. CASE Len(eventCh) = 1
    BY <2>1, <1>1, <1>3 DEF FinalIsLast
  <2>2. CASE Len(eventCh) > 1
    <3>1. Head(eventCh) # "final" /\ eventCh' # << >>
      <4>1. 1 \in 1..Len(eventCh) /\ 1 < Len(eventCh)
        BY <2>2, <1>1
      <4>2. Head(eventCh) # "final"
        BY <4>1, <1>1, <1>3 DEF FinalIsLast
      <4>3. Len(eventCh') # 0
        <5>1. Len(eventCh') = Len(eventCh) - 1 /\ Len(eventCh) \in Nat
          BY <1>1
        <5> QED
          BY <2>2, <5>1
      <4>4. Len(<< >>) = 0
        OBVIOUS
      <4> QED
        BY <4>2, <4>3, <4>4
    <3>2. eventCh'[Len(eventCh')] = "final"
      BY <2>2, <1>1, <1>3 DEF FinalIsLast
    <3>3. ASSUME NEW i \in 1..Len(eventCh'), i < Len(eventCh') PROVE eventCh'[i] # "final"
      BY <2>2, <3>3, <1>1, <1>3 DEF FinalIsLast
    <3> QED
      BY <3>1, <3>2, <3>3 DEF FinalIsLast
  <2> QED
    BY <1>1, <2>1, <2>2
<1> QED
  BY <1>1, <1>2, <1>3

\* What the steps that leave the channel and the reader alone have to keep.
LEMMA ChannelKept ==
  ASSUME StreamInv, UNCHANGED <<eventCh, image, reader>>,
         hasFinal' => timer' \notin {"armed", "sending", "panicked"},
         hasFinal' => \/ streamer' = "sending" /\ event' = "final" /\ last'
                      \/ streamer' \in Leaving,
         event' = "final" => hasFinal' /\ (~hasFinal \/ event = "final"),
         hasFinal /\ event # "final" => event' # "final",
         hasFinal' /\ event' # "final" => hasFinal /\ event # "final",
         hasFinal => hasFinal'
  PROVE  FinalInv'
BY DEF StreamInv, FinalInv, HasNoFinal, FinalIsLast

\* A step of the streamer changes its place, its event and the channel only.
LEMMA StreamerTyped ==
  ASSUME StreamTypeOK,
         streamer' \in {"top", "read", "sending", "leaving", "stopped", "closing", "gone"},
         event' \in {"none", "preview", "medium", "final", "error"}, last' \in BOOLEAN,
         eventCh' \in Seq({"preview", "medium", "final", "error", "blocked"}), Len(eventCh') <= Cap,
         UNCHANGED <<messages, closed, mu, hasMedium, hasFinal, timer, reader, image, ended>>
  PROVE  StreamTypeOK'
<1>1. /\ hasMedium' \in BOOLEAN /\ hasFinal' \in BOOLEAN /\ image' \in BOOLEAN /\ ended' \in BOOLEAN
  BY Zenon DEF StreamTypeOK
<1>2. messages' \in 0..MaxMessages /\ closed' \subseteq {"doneCh", "eventCh"}
  BY DEF StreamTypeOK
<1>3. /\ mu' \in {"nobody", "timer"} /\ reader' \in {"reading", "image", "blocked", "error"}
      /\ timer' \in {"unset", "armed", "fired", "sending", "over", "stopped", "panicked"}
  BY DEF StreamTypeOK
<1> QED
  BY <1>1, <1>2, <1>3, Zenon DEF StreamTypeOK

LEMMA StreamerKeeps == ASSUME StreamInv, Alive, StreamerStep PROVE StreamInv'
<1> USE DEF StreamInv
<1>1. CASE Top
  <2>1. StreamTypeOK' /\ HandsInv'
    <3>1. streamer' \in {"read", "sending"} /\ event' \in {event, "error"} /\ last' \in {last, TRUE}
      BY <1>1 DEF Top, Sending
    <3>2. UNCHANGED <<messages, eventCh, closed, mu, hasMedium, hasFinal, timer, reader, image, ended>>
      BY <1>1 DEF Top
    <3>3. StreamTypeOK'
      <4>1. event \in {"none", "preview", "medium", "final", "error"} /\ last \in BOOLEAN
            /\ eventCh \in Seq({"preview", "medium", "final", "error", "blocked"}) /\ Len(eventCh) <= Cap
        BY DEF StreamTypeOK
      <4>2. event' \in {"none", "preview", "medium", "final", "error"}
        BY <3>1, <4>1
      <4>3. last' \in BOOLEAN
        BY <3>1, <4>1, Zenon
      <4> QED
        BY <3>1, <3>2, <4>1, <4>2, <4>3, StreamerTyped
    <3>4. HandsInv'
      BY <1>1 DEF Top, Sending, StreamTypeOK, HandsInv
    <3> QED
      BY <3>3, <3>4
  <2>2. ~hasFinal /\ event # "final" /\ event' # "final" /\ hasFinal' = hasFinal
        /\ UNCHANGED <<eventCh, image, reader>>
    BY <1>1 DEF Top, Sending, FinalInv, HandsInv, Leaving
  <2> QED
    BY <2>1, <2>2, ChannelKept
<1>2. CASE Send
  <2>1. /\ streamer = "sending" /\ event # "none" /\ Len(eventCh) < Cap
        /\ eventCh' = Append(eventCh, event) /\ event' = "none" /\ last' = FALSE
        /\ streamer' = (IF last THEN "leaving" ELSE "top")
        /\ event \in {"preview", "medium", "final", "error", "blocked"}
        /\ UNCHANGED <<messages, closed, mu, hasMedium, hasFinal, timer, reader, image, ended>>
    BY <1>2 DEF Send, HandsInv, StreamTypeOK
  <2>2. /\ eventCh' \in Seq({"preview", "medium", "final", "error", "blocked"})
        /\ Len(eventCh') <= Cap /\ eventCh' # << >>
        /\ HasNoFinal /\ event # "final" => HasNoFinal'
        /\ HasNoFinal /\ event = "final" => FinalIsLast'
    BY <2>1, SendsEvent
  <2>3. StreamTypeOK' /\ HandsInv'
    <3>1. StreamTypeOK'
      <4>1. streamer' \in {"top", "leaving"} /\ event' = "none" /\ last' = FALSE
        BY <2>1
      <4> QED
        BY <2>1, <2>2, <4>1, StreamerTyped
    <3>2. HandsInv'
      BY <2>1, <2>2 DEF HandsInv
    <3> QED
      BY <3>1, <3>2
  <2>4. FinalInv'
    BY <2>1, <2>2 DEF FinalInv, Leaving
  <2> QED
    BY <2>3, <2>4
<1>3. CASE LeaveStopsTimer \/ LeaveClosesDone \/ LeaveClosesEvents
  <2>1. StreamTypeOK' /\ HandsInv'
    <3>1. CASE LeaveStopsTimer
      BY <3>1 DEF LeaveStopsTimer, StopTimer, StreamTypeOK, HandsInv
    <3>2. CASE LeaveClosesDone
      BY <3>2 DEF LeaveClosesDone, Closes, StreamTypeOK, HandsInv
    <3>3. CASE LeaveClosesEvents
      BY <3>3 DEF LeaveClosesEvents, Closes, StreamTypeOK, HandsInv
    <3> QED
      BY <1>3, <3>1, <3>2, <3>3
  <2>2. streamer' \in Leaving /\ event' = event /\ hasFinal' = hasFinal
        /\ timer' \in {timer, "stopped"} /\ UNCHANGED <<eventCh, image, reader>>
    BY <1>3 DEF LeaveStopsTimer, LeaveClosesDone, LeaveClosesEvents, Closes, StopTimer, Leaving
  <2>3. FinalInv'
    BY <2>2, ChannelKept DEF FinalInv, HandsInv
  <2> QED
    BY <2>1, <2>3
<1>4. CASE ReadPreview \/ ReadMalformed \/ ReadMedium \/ ReadDone \/ ReadError \/ ReadFails
  <2>0. streamer = "read" /\ ~hasFinal /\ event = "none"
    BY <1>4 DEF ReadPreview, ReadMalformed, ReadMedium, ReadDone, ReadError, ReadFails, Message,
       FinalInv, HandsInv, Leaving
  <2>1. StreamTypeOK' /\ HandsInv'
    <3>1. /\ messages' \in 0..MaxMessages /\ UNCHANGED <<eventCh, closed, mu, reader, image, ended>>
          /\ hasFinal' = hasFinal
      <4>1. messages \in 0..MaxMessages /\ MaxMessages \in Nat
        BY StreamAssumption DEF StreamTypeOK
      <4>2. CASE ReadFails
        BY <4>1, <4>2 DEF ReadFails
      <4>3. CASE ReadPreview \/ ReadMalformed \/ ReadMedium \/ ReadDone \/ ReadError
        <5>1. Message /\ hasFinal' = hasFinal
          BY <4>3 DEF ReadPreview, ReadMalformed, ReadMedium, ReadDone, ReadError
        <5> QED
          BY <4>1, <5>1 DEF Message
      <4> QED
        BY <1>4, <4>2, <4>3
    <3>2. \/ streamer' = "sending" /\ event' \in {"preview", "medium", "error"} /\ last' \in BOOLEAN
          \/ streamer' \in {"top", "leaving"} /\ UNCHANGED <<event, last>>
      BY <1>4 DEF ReadPreview, ReadMalformed, ReadMedium, ReadDone, ReadError, ReadFails, Sending
    <3>3. \/ UNCHANGED <<hasMedium, timer>>
          \/ hasMedium' = TRUE /\ timer' = (IF timer = "unset" THEN "armed" ELSE timer)
      BY <1>4 DEF ReadPreview, ReadMalformed, ReadMedium, ReadDone, ReadError, ReadFails
    <3>4. HandsInv'
      BY <2>0, <3>1, <3>2, <3>3 DEF HandsInv
    <3>5. /\ streamer' \in {"top", "read", "sending", "leaving", "stopped", "closing", "gone"}
          /\ event' \in {"none", "preview", "medium", "final", "error"}
          /\ last' \in BOOLEAN /\ hasMedium' \in BOOLEAN
          /\ timer' \in {"unset", "armed", "fired", "sending", "over", "stopped", "panicked"}
      BY <2>0, <3>2, <3>3 DEF StreamTypeOK
    <3>6. StreamTypeOK'
      BY <3>1, <3>5 DEF StreamTypeOK
    <3> QED
      BY <3>4, <3>6
  <2>2. event' # "final" /\ ~hasFinal' /\ UNCHANGED <<eventCh, image, reader>>
    BY <1>4, <2>0 DEF ReadPreview, ReadMalformed, ReadMedium, ReadDone, ReadError, ReadFails,
       Message, Sending
  <2>3. FinalInv'
    BY <2>0, <2>2, ChannelKept
  <2> QED
    BY <2>1, <2>3
<1>5. CASE ReadFinal
  <2>0. /\ streamer = "read" /\ ~hasFinal /\ event = "none" /\ mu = "nobody"
        /\ timer \notin {"sending", "panicked"}
    BY <1>5 DEF ReadFinal, Message, FinalInv, HandsInv, Leaving, Alive
  <2>1. StreamTypeOK' /\ HandsInv'
    BY <1>5, <2>0, StreamAssumption DEF ReadFinal, Message, Sending, StopTimer, StreamTypeOK, HandsInv
  <2>2. /\ streamer' = "sending" /\ event' = "final" /\ last' /\ hasFinal'
        /\ timer' \notin {"armed", "sending", "panicked"} /\ UNCHANGED <<eventCh, image, reader>>
    BY <1>5, <2>0 DEF ReadFinal, Message, Sending, StopTimer
  <2>3. FinalInv'
    BY <2>0, <2>2, ChannelKept
  <2> QED
    BY <2>1, <2>3
<1> QED
  BY <1>1, <1>2, <1>3, <1>4, <1>5 DEF StreamerStep

LEMMA TimerKeeps == ASSUME StreamInv, TimerFires \/ TimerStep PROVE StreamInv'
<1> USE DEF StreamInv
<1>1. CASE TimerFires \/ TimerLocks
  <2>1. StreamTypeOK' /\ HandsInv'
    <3>1. /\ UNCHANGED <<streamer, event, last, messages, eventCh, closed, hasMedium, hasFinal,
                         reader, image, ended>>
          /\ timer' \in {"fired", "sending", "over"} /\ (timer' = "sending" => mu' = "timer")
          /\ mu' \in {"nobody", "timer"}
      BY <1>1 DEF TimerFires, TimerLocks, StreamTypeOK
    <3> QED
      BY <3>1 DEF StreamTypeOK, HandsInv
  <2>2. /\ hasFinal' => timer' \notin {"armed", "sending", "panicked"}
        /\ UNCHANGED <<streamer, event, last, hasFinal, eventCh, image, reader>>
    BY <1>1 DEF TimerFires, TimerLocks
  <2>3. FinalInv'
    BY <2>2, ChannelKept DEF FinalInv
  <2> QED
    BY <2>1, <2>3
<1>2. CASE TimerSends
  <2>1. /\ ~hasFinal /\ timer = "sending" /\ timer' \in {"over", "panicked"} /\ mu' = "nobody"
        /\ UNCHANGED <<streamer, event, last, messages, closed, hasMedium, hasFinal, reader,
                       image, ended>>
        /\ \/ UNCHANGED eventCh
           \/ Len(eventCh) < Cap /\ eventCh' = Append(eventCh, "blocked")
    BY <1>2 DEF TimerSends, FinalInv
  <2>2. HasNoFinal /\ ~image /\ event # "final"
    BY <2>1 DEF FinalInv
  <2>3. /\ eventCh' \in Seq({"preview", "medium", "final", "error", "blocked"})
        /\ Len(eventCh') <= Cap /\ HasNoFinal'
    BY <2>1, <2>2, SendsEvent DEF StreamTypeOK, HasNoFinal
  <2>4. StreamTypeOK' /\ HandsInv'
    BY <2>1, <2>3 DEF StreamTypeOK, HandsInv
  <2>5. FinalInv'
    BY <2>1, <2>2, <2>3 DEF FinalInv
  <2> QED
    BY <2>4, <2>5
<1> QED
  BY <1>1, <1>2 DEF TimerStep

LEMMA ReaderKeeps == ASSUME StreamInv, ReaderStep \/ ContextEnds PROVE StreamInv'
<1> USE DEF StreamInv
<1>1. CASE Receive
  <2>1. /\ reader = "reading" /\ eventCh # << >> /\ eventCh' = Tail(eventCh)
        /\ reader' = (IF Head(eventCh) \in {"blocked", "error"} THEN Head(eventCh) ELSE reader)
        /\ image' = (image \/ Head(eventCh) = "final")
        /\ UNCHANGED <<streamer, event, last, messages, closed, mu, hasMedium, hasFinal, timer, ended>>
    BY <1>1 DEF Receive
  <2>2. /\ eventCh' \in Seq({"preview", "medium", "final", "error", "blocked"})
        /\ Len(eventCh') <= Cap
        /\ HasNoFinal => HasNoFinal' /\ Head(eventCh) # "final"
        /\ FinalIsLast => \/ Head(eventCh) = "final" /\ eventCh' = << >>
                          \/ Head(eventCh) # "final" /\ FinalIsLast'
    BY <2>1, TakesEvent
  <2>3. StreamTypeOK' /\ HandsInv'
    BY <2>1, <2>2 DEF StreamTypeOK, HandsInv
  <2>4. ~image
    BY <2>1 DEF FinalInv
  <2>5. FinalInv'
    BY <2>1, <2>2, <2>4 DEF FinalInv
  <2> QED
    BY <2>3, <2>5
<1>2. CASE RangeEnds
  <2>1. /\ reader' = (IF image THEN "image" ELSE "error")
        /\ UNCHANGED <<streamer, event, last, messages, eventCh, closed, mu, hasMedium, hasFinal,
                       timer, image, ended>>
    BY <1>2 DEF RangeEnds
  <2>2. StreamTypeOK' /\ HandsInv'
    BY <2>1 DEF StreamTypeOK, HandsInv
  <2>3. FinalInv'
    BY <2>1 DEF FinalInv, HasNoFinal, FinalIsLast
  <2> QED
    BY <2>2, <2>3
<1>3. CASE ContextEnds
  <2>1. StreamTypeOK' /\ HandsInv'
    BY <1>3 DEF ContextEnds, StreamTypeOK, HandsInv
  <2>2. FinalInv'
    BY <1>3 DEF ContextEnds, FinalInv, HasNoFinal, FinalIsLast
  <2> QED
    BY <2>1, <2>2
<1> QED
  BY <1>1, <1>2, <1>3 DEF ReaderStep

LEMMA StreamInvNext == ASSUME StreamInv, [StreamNext]_streamVars PROVE StreamInv'
<1>1. CASE UNCHANGED streamVars
  BY <1>1 DEF streamVars, StreamInv, StreamTypeOK, HandsInv, FinalInv, HasNoFinal, FinalIsLast
<1>2. CASE StreamNext
  BY <1>2, StreamerKeeps, TimerKeeps, ReaderKeeps DEF StreamNext
<1> QED
  BY <1>1, <1>2

\* An image that arrived is returned, and a final that was read keeps the timer's late
\* callback from sending on the closed channel, for any capacity of the channel and any
\* number of messages (streamImages and generateSingle).
THEOREM FinalIsReturned == StreamSpec => [](StreamTypeOK /\ FinalWins)
<1>1. StreamInit => StreamInv
  BY StreamStarts
<1>2. StreamInv /\ [StreamNext]_streamVars => StreamInv'
  BY StreamInvNext
<1>3. StreamInv => StreamTypeOK /\ FinalWins
  BY DEF StreamInv, FinalInv, FinalWins
<1> QED
  BY <1>1, <1>2, <1>3, PTL DEF StreamSpec

-----------------------------------------------------------------------------
(***************************************************************************)
(* UpstreamChat implements UpstreamAnswer.                                 *)
(***************************************************************************)
\* One more event in a channel with room.
LEMMA ChannelGrows ==
  ASSUME UpstreamTypeOK, Len(chunks) < Buffer, NEW e \in {"data", "error"}
  PROVE  Append(chunks, e) \in Seq({"data", "error"}) /\ Len(Append(chunks, e)) <= Buffer
<1>1. /\ chunks \in Seq({"data", "error"}) /\ Buffer \in Nat /\ Len(chunks) \in Nat
      /\ Append(chunks, e) \in Seq({"data", "error"})
      /\ Len(Append(chunks, e)) = Len(chunks) + 1
  BY UpstreamAssumption DEF UpstreamTypeOK
<1>2. Len(chunks) + 1 <= Buffer
  BY <1>1
<1> QED
  BY <1>1, <1>2

LEMMA UpstreamStep == ASSUME UpstreamTypeOK, [UpstreamNext]_upstreamVars PROVE UpstreamTypeOK'
<1>0. /\ MaxRetry \in Nat /\ attempt \in 0..MaxRetry /\ MaxLines \in Nat /\ lines \in 0..MaxLines
      /\ Buffer \in Nat /\ Len(chunks) \in Nat /\ Len(chunks) <= Buffer
  BY UpstreamAssumption DEF UpstreamTypeOK
<1>1. CASE Answers \/ AskFails \/ BodyEnds \/ BodyBreaks \/ PauseEnds
  <2>1. /\ asker' \in {"asking", "forwarding", "pausing", "failing", "ended"}
        /\ UNCHANGED <<chunks, lines, taker, watches, expiry>>
    BY <1>1 DEF Answers, AskFails, FinalError, RetryableError, BodyEnds, BodyBreaks, PauseEnds,
       TakerStays
  <2>2. attempt' = attempt \/ (attempt < MaxRetry /\ attempt' = attempt + 1)
    BY <1>1 DEF Answers, AskFails, FinalError, RetryableError, BodyEnds, BodyBreaks, PauseEnds
  <2>3. attempt' \in 0..MaxRetry
    BY <1>0, <2>2
  <2> QED
    BY <2>1, <2>3 DEF UpstreamTypeOK
<1>2. CASE Forward
  <2>1. /\ Len(chunks) < Buffer /\ chunks' = Append(chunks, "data")
        /\ lines < MaxLines /\ lines' = lines + 1
        /\ UNCHANGED <<asker, attempt, taker, watches, expiry>>
    BY <1>2 DEF Forward, TakerStays
  <2>2. chunks' \in Seq({"data", "error"}) /\ Len(chunks') <= Buffer
    BY <2>1, ChannelGrows
  <2>3. lines' \in 0..MaxLines
    BY <1>0, <2>1
  <2> QED
    BY <2>1, <2>2, <2>3 DEF UpstreamTypeOK
<1>3. CASE ErrorSent
  <2>1. /\ Len(chunks) < Buffer /\ chunks' = Append(chunks, "error") /\ asker' = "ended"
        /\ UNCHANGED <<attempt, lines, taker, watches, expiry>>
    BY <1>3 DEF ErrorSent, TakerStays
  <2>2. chunks' \in Seq({"data", "error"}) /\ Len(chunks') <= Buffer
    BY <2>1, ChannelGrows
  <2> QED
    BY <2>1, <2>2 DEF UpstreamTypeOK
<1>4. CASE Take
  <2>1. /\ chunks # << >> /\ chunks' = Tail(chunks) /\ taker' \in {taker, "left"}
        /\ UNCHANGED <<asker, attempt, watches, expiry, lines>>
    BY <1>4 DEF Take
  <2>2. chunks' \in Seq({"data", "error"}) /\ Len(chunks') = Len(chunks) - 1
    BY <2>1 DEF UpstreamTypeOK
  <2>3. Len(chunks') <= Buffer
    BY <1>0, <2>2
  <2> QED
    BY <2>1, <2>2, <2>3 DEF UpstreamTypeOK
<1>5. CASE TakeClose \/ TakerLeaves \/ RequestExpires
  <2>1. /\ taker' \in {taker, "left", "done"} /\ expiry' \in {expiry, TRUE}
        /\ UNCHANGED <<asker, attempt, chunks, watches, lines>>
    BY <1>5 DEF TakeClose, TakerLeaves, RequestExpires
  <2> QED
    BY <2>1 DEF UpstreamTypeOK
<1>6. CASE UNCHANGED upstreamVars
  BY <1>6 DEF upstreamVars, UpstreamTypeOK
<1> QED
  BY <1>1, <1>2, <1>3, <1>4, <1>5, <1>6 DEF UpstreamNext

\* The channel of a chat stays within its capacity and the attempts within the retries.
THEOREM UpstreamTyped == UpstreamSpec => []UpstreamTypeOK
<1>1. UpstreamInit => UpstreamTypeOK
  <2> SUFFICES ASSUME UpstreamInit PROVE UpstreamTypeOK
    OBVIOUS
  <2>1. chunks \in Seq({"data", "error"}) /\ Len(chunks) <= Buffer
        /\ attempt \in 0..MaxRetry /\ lines \in 0..MaxLines
    BY UpstreamAssumption DEF UpstreamInit
  <2> QED
    BY <2>1 DEF UpstreamInit, UpstreamTypeOK
<1>2. UpstreamTypeOK /\ [UpstreamNext]_upstreamVars => UpstreamTypeOK'
  BY UpstreamStep
<1> QED
  BY <1>1, <1>2, PTL DEF UpstreamSpec

\* However often client.Chat asks upstream again, its reader sees one answer: any number
\* of events, at most one error, and nothing after it, for any number of retries and any
\* capacity of the channel.
THEOREM OneAnswer == UpstreamSpec => AnswerSpec
<1>1. UpstreamInit => Answered!Init
  BY DEF UpstreamInit, Answered!Init
<1>2. UpstreamNext \/ UNCHANGED upstreamVars =>
        [Answered!Send \/ Answered!End \/ Answered!Fail \/ Answered!Receive]_Answered!vars
  <2> SUFFICES ASSUME UpstreamNext \/ UNCHANGED upstreamVars
               PROVE  \/ Answered!Send \/ Answered!End \/ Answered!Fail \/ Answered!Receive
                      \/ UNCHANGED <<chunks, asker = "ended">>
    BY DEF Answered!vars
  <2>1. CASE Answers \/ AskFails \/ BodyBreaks \/ PauseEnds
    BY <2>1 DEF Answers, AskFails, FinalError, RetryableError, BodyBreaks, PauseEnds, TakerStays
  <2>2. CASE Forward
    BY <2>2 DEF Forward, TakerStays, Answered!Send
  <2>3. CASE BodyEnds
    BY <2>3 DEF BodyEnds, TakerStays, Answered!End
  <2>4. CASE ErrorSent
    BY <2>4 DEF ErrorSent, TakerStays, Answered!Fail
  <2>5. CASE Take
    BY <2>5 DEF Take, Answered!Receive
  <2>6. CASE TakeClose \/ TakerLeaves \/ RequestExpires \/ UNCHANGED upstreamVars
    BY <2>6 DEF TakeClose, TakerLeaves, RequestExpires, upstreamVars
  <2> QED
    BY <2>1, <2>2, <2>3, <2>4, <2>5, <2>6 DEF UpstreamNext
<1> QED
  BY <1>1, <1>2, PTL DEF UpstreamSpec, AnswerSpec, Answered!Spec

-----------------------------------------------------------------------------
(***************************************************************************)
(* VideoFlow: what a result of the download and of the save is worth.      *)
(***************************************************************************)
Whole == written = size

Early == {"pick", "seed", "chat", "upscale", "cache"}

CopyInv ==
    /\ video \in Early => download = "idle"
    /\ doneCh = "empty" <=> download \in {"idle", "reading", "writing"}
    /\ download = "idle" => written = 0
    /\ doneCh = "ok" => Whole
    /\ download \in {"reading", "writing"} => written <= Limit /\ written <= size
    /\ download = "writing" => written < Limit /\ written < size
    /\ saver \in {"copying", "saved"} => file # "absent"
    /\ url = "cached" => doneCh # "empty" /\ CachedWhole

VideoInv == VideoTypeOK /\ CopyInv

LEMMA VideoStarts == ASSUME VideoInit PROVE VideoInv
<1>1. 0 \in 0..MaxPolls /\ 0 \in 0..Limit /\ size \in 1..MaxSize
  BY VideoAssumption DEF VideoInit
<1>2. VideoTypeOK
  BY <1>1 DEF VideoInit, VideoTypeOK
<1>3. CopyInv
  BY DEF VideoInit, CopyInv, Early
<1> QED
  BY <1>2, <1>3 DEF VideoInv

\* The steps of the request.
LEMMA VideoStepKeeps == ASSUME VideoInv, VideoStep \/ Expire PROVE VideoInv'
<1> USE DEF VideoInv
<1>1. CASE CacheStarts
  <2>1. VideoTypeOK'
    BY <1>1 DEF CacheStarts, VideoTypeOK
  <2>2. 0 <= Limit /\ 0 <= size
    BY VideoAssumption DEF VideoTypeOK
  <2>3. download = "idle"
    BY <1>1 DEF CacheStarts, CopyInv, Early
  <2> QED
    BY <1>1, <2>1, <2>2, <2>3 DEF CacheStarts, CopyInv, CachedWhole, Whole, Early
<1>2. CASE SaveReturns
  BY <1>2 DEF SaveReturns, VideoTypeOK, CopyInv, CachedWhole, Whole, Early
<1>3. CASE Poll
  <2>1. polls' \in 0..MaxPolls
    BY <1>3, VideoAssumption DEF Poll, VideoTypeOK
  <2> QED
    BY <1>3, <2>1 DEF Poll, copyVars, VideoTypeOK, CopyInv, CachedWhole, Whole, Early
<1>4. CASE \E err \in {"transport", "limited", "other"} : SeedFails(err)
  <2>1. /\ video' = "failed" /\ penalty' \in {"none", "cooling", "failure"}
        /\ UNCHANGED <<upscales, polls, url, size, copyVars, file, expired>>
    BY <1>4 DEF SeedFails, Fails, Penalty
  <2> QED
    BY <2>1 DEF copyVars, VideoTypeOK, CopyInv, CachedWhole, Whole, Early
<1>5. CASE PickVideoToken \/ SeedPost \/ StreamEnds \/ PollsEnd \/ CacheOff \/ ChargeVideo \/ ChargeFails
  <2>1. /\ video' \in {"seed", "refused", "chat", "upscale", "cache", "charge", "answered"}
        /\ video' \in Early => video \in Early
        /\ url' \in {url, "original"}
        /\ UNCHANGED <<upscales, polls, size, copyVars, file, expired, penalty>>
    BY <1>5 DEF PickVideoToken, SeedPost, StreamEnds, PollsEnd, CacheOff, ChargeVideo, ChargeFails, Goes, Early
  <2> QED
    BY <2>1 DEF copyVars, VideoTypeOK, CopyInv, CachedWhole, Whole, Early
<1>6. CASE Expire
  BY <1>6 DEF Expire, copyVars, VideoTypeOK, CopyInv, CachedWhole, Whole, Early
<1> QED
  BY <1>1, <1>2, <1>3, <1>4, <1>5, <1>6 DEF VideoStep

\* The steps of the download, of the save and of an administrator.
LEMMA CopyKeeps == ASSUME VideoInv, DownloadStep \/ SaverStep \/ DiskFull \/ DeleteFile PROVE VideoInv'
<1> USE VideoAssumption DEF VideoInv, RequestStays
<1>1. CASE ReadBlock
  <2>1. written < Limit /\ written < size
    <3>1. written <= Limit /\ written <= size /\ written # (IF size < Limit THEN size ELSE Limit)
      BY <1>1 DEF ReadBlock, Downloaded, Min2, CopyInv
    <3>2. written \in Int /\ size \in Int /\ Limit \in Int
      BY DEF VideoTypeOK
    <3> QED
      BY <3>1, <3>2
  <2> QED
    BY <1>1, <2>1 DEF ReadBlock, VideoTypeOK, CopyInv, CachedWhole, Whole, Early
<1>2. CASE PipeWrite
  <2>1. written' \in 0..Limit /\ written' <= Limit /\ written' <= size
    BY <1>2 DEF PipeWrite, VideoTypeOK, CopyInv
  <2> QED
    BY <1>2, <2>1 DEF PipeWrite, VideoTypeOK, CopyInv, CachedWhole, Whole, Early
<1>3. CASE DownloadEnds
  <2>1. written < Limit => Whole
    BY <1>3 DEF DownloadEnds, Downloaded, Min2, Whole, VideoTypeOK
  <2> QED
    BY <1>3, <2>1 DEF DownloadEnds, Reports, VideoTypeOK, CopyInv, CachedWhole, Whole, Early
<1>4. CASE DownloadFails
  BY <1>4 DEF DownloadFails, Reports, VideoTypeOK, CopyInv, CachedWhole, Whole, Early
<1>5. CASE WriterCloses
  BY <1>5 DEF WriterCloses, VideoTypeOK, CopyInv, CachedWhole, Whole, Early
<1>6. CASE SaveOpens \/ SaveEnds \/ DiskFull
  BY <1>6 DEF SaveOpens, SaveEnds, DiskFull, VideoTypeOK, CopyInv, CachedWhole, Whole, Early
<1>7. CASE DeleteFile
  BY <1>7 DEF DeleteFile, copyVars, VideoTypeOK, CopyInv, CachedWhole, Whole, Early
<1> QED
  BY <1>1, <1>2, <1>3, <1>4, <1>5, <1>6, <1>7 DEF DownloadStep, SaverStep

\* A link into the cache is given only to a file that holds the whole video, for any
\* limit of the download and any size (downloadVideo and SaveStream).
THEOREM CachedIsWhole == VideoSpec => [](VideoTypeOK /\ CachedWhole)
<1>1. VideoInit => VideoInv
  BY VideoStarts
<1>2. VideoInv /\ [VideoNext]_videoVars => VideoInv'
  <2>1. CASE UNCHANGED videoVars
    BY <2>1 DEF videoVars, copyVars, VideoInv, VideoTypeOK, CopyInv, CachedWhole, Whole, Early
  <2> QED
    BY <2>1, VideoStepKeeps, CopyKeeps DEF VideoNext
<1>3. VideoInv => VideoTypeOK /\ CachedWhole
  BY DEF VideoInv, CopyInv, CachedWhole, VideoTypeOK
<1> QED
  BY <1>1, <1>2, <1>3, PTL DEF VideoSpec

-----------------------------------------------------------------------------
(***************************************************************************)
(* ImageFlow.  A request for images blames a token only for its own        *)
(* errors, and charges for every image once.  The first proof follows an   *)
(* error of a worker from where it is counted to where it is reported: in  *)
(* the worker, then as the one result of its token in the channel, then in *)
(* the report.  The second follows a charged image the same way: worker,   *)
(* channel, winner, request.  Outside the recovery of a blocked image      *)
(* nothing is on its way.                                                  *)
(***************************************************************************)
Results == [token : Tokens, outcome : Outcomes]

\* A token's error was counted and is not reported yet.
InChannel(t) == \E i \in DOMAIN resultCh : resultCh[i].token = t /\ resultCh[i].outcome = "fault"
Pending(t) == worker[t] = "fault" \/ InChannel(t)

\* What a stage has: a token, and room for another image and another call.
StageInv ==
    /\ stage \notin {"pick", "failed"} => tok \in Tokens
    /\ stage \in {"pick", "attempt", "recover", "collect", "charge", "upload", "call", "fetch"} =>
           images < N
    /\ stage \in {"pick", "upload", "call"} => calls < CallsNeeded
    /\ stage = "fetch" => urls > 0

\* A token has one result, and its worker is over; a round leaves nothing behind.
RoundInv ==
    /\ \A i \in DOMAIN resultCh : worker[resultCh[i].token] = "over"
    /\ \A i, j \in DOMAIN resultCh : resultCh[i].token = resultCh[j].token => i = j
    /\ stage # "collect" => resultCh = << >> /\ \A t \in Tokens : worker[t] \in {"none", "over"}

BlameInv ==
    \A t \in Tokens :
        blames[t] + (IF Pending(t) THEN 1 ELSE 0)
            <= faults[t] + (IF stage = "failed" /\ t = tok THEN 1 ELSE 0)

ImageInv == ImageTypeOK /\ StageInv /\ RoundInv /\ BlameInv

-----------------------------------------------------------------------------
LEMMA CallsArePositive == CallsNeeded \in Nat \ {0}
<1>1. ASSUME NEW n \in Nat \ {0}, NEW b \in Nat \ {0} PROVE (n + b - 1) \div b \in Nat \ {0}
  <2>1. (n + b - 1) \in Nat /\ n + b - 1 >= b
    OBVIOUS
  <2>2. ASSUME NEW a \in Nat, a >= b PROVE a \div b \in Nat /\ a \div b >= 1
    <3>1. a \div b \in Int /\ a % b \in 0..(b - 1) /\ a = b * (a \div b) + (a % b)
      OBVIOUS
    <3>2. ASSUME NEW q \in Int, q <= 0 PROVE b * q <= 0
      BY <3>2
    <3> QED
      BY <2>2, <3>1, <3>2
  <2> QED
    BY <2>1, <2>2
<1> QED
  BY <1>1, ImageAssumption DEF CallsNeeded

LEMMA EmptyDomain == DOMAIN << >> = {} /\ << >> \in Seq(Results)
OBVIOUS

LEMMA Ledgers ==
  ASSUME ImageTypeOK
  PROVE  charged \in Nat /\ faults \in [Tokens -> Nat] /\ blames \in [Tokens -> Nat]
BY DEF ImageTypeOK

LEMMA OneMore ==
  ASSUME NEW f \in [Tokens -> Nat], NEW t \in Tokens
  PROVE  /\ [f EXCEPT ![t] = @ + 1] \in [Tokens -> Nat]
         /\ \A u \in Tokens : [f EXCEPT ![t] = @ + 1][u] = IF u = t THEN f[u] + 1 ELSE f[u]
OBVIOUS

LEMMA ConsumeTypes ==
  ASSUME ImageTypeOK, NEW t \in Tokens, quota[t] > 0,
         quota' = [quota EXCEPT ![t] = @ - 1],
         usable' = IF quota[t] = 1 THEN usable \ {t} ELSE usable
  PROVE  quota' \in [Tokens -> 0..MaxQuota] /\ usable' \subseteq Tokens
<1>1. quota[t] - 1 \in 0..MaxQuota
  BY ImageAssumption DEF ImageTypeOK
<1> QED
  BY <1>1 DEF ImageTypeOK

LEMMA PaidTypes ==
  ASSUME ImageTypeOK, NEW t \in Tokens, Consume(t)
  PROVE  /\ quota' \in [Tokens -> 0..MaxQuota] /\ usable' \subseteq Tokens
         /\ charged' \in Nat /\ charged' = charged + 1
<1>1. charged \in Nat /\ charged' = charged + 1
  BY DEF Consume, ImageTypeOK
<1>2. quota' \in [Tokens -> 0..MaxQuota] /\ usable' \subseteq Tokens
  BY ConsumeTypes DEF Consume
<1> QED
  BY <1>1, <1>2

\* What a report and an end in error leave.
LEMMA FailTypes ==
  ASSUME ImageTypeOK, tok \in Tokens, NEW err, FailWith(err)
  PROVE  /\ stage' = "failed" /\ usable' \subseteq Tokens /\ blames' \in [Tokens -> Nat]
         /\ \A t \in Tokens : blames'[t] <= blames[t] + (IF t = tok THEN 1 ELSE 0)
<1>1. blames \in [Tokens -> Nat] /\ usable \subseteq Tokens
  BY Ledgers DEF ImageTypeOK
<1>2. CASE err = "transport"
  BY <1>1, <1>2 DEF FailWith
<1>3. CASE err # "transport"
  <2>1. stage' = "failed" /\ blames' = [blames EXCEPT ![tok] = @ + 1] /\ usable' \in {usable, usable \ {tok}}
    BY <1>3 DEF FailWith, ReportError
  <2> QED
    BY <1>1, <2>1, OneMore
<1> QED
  BY <1>2, <1>3

LEMMA FaultTypes ==
  ASSUME ImageTypeOK, NEW t \in Tokens, NEW o, Fault(t, o)
  PROVE  /\ faults' \in [Tokens -> Nat]
         /\ \A u \in Tokens : faults[u] <= faults'[u]
         /\ o = "fault" => faults'[t] = faults[t] + 1
<1>1. faults \in [Tokens -> Nat]
  BY Ledgers
<1> QED
  BY <1>1, OneMore DEF Fault

-----------------------------------------------------------------------------
(* Three kinds of steps: nothing is counted or reported, a step of the      *)
(* recovery, and the end of a request in an error.                          *)

LEMMA BlameStill ==
  ASSUME ImageTypeOK, BlameInv, UNCHANGED <<worker, resultCh, faults, blames>>,
         stage = "failed" => stage' = "failed" /\ tok' = tok
  PROVE  BlameInv'
<1> SUFFICES ASSUME NEW t \in Tokens
             PROVE  blames'[t] + (IF Pending(t)' THEN 1 ELSE 0)
                      <= faults'[t] + (IF stage' = "failed" /\ t = tok' THEN 1 ELSE 0)
  BY DEF BlameInv
<1>1. Pending(t)' <=> Pending(t)
  BY DEF Pending, InChannel
<1>2. blames'[t] = blames[t] /\ faults'[t] = faults[t] /\ blames[t] \in Nat /\ faults[t] \in Nat
  BY Ledgers
<1>3. blames[t] + (IF Pending(t) THEN 1 ELSE 0) <= faults[t] + (IF stage = "failed" /\ t = tok THEN 1 ELSE 0)
  BY DEF BlameInv
<1> QED
  BY <1>1, <1>2, <1>3

\* Outside a round nothing is pending, so that one report more is the request's own.
LEMMA BlameFails ==
  ASSUME ImageInv, stage # "failed", \A t \in Tokens : ~Pending(t),
         UNCHANGED <<worker, resultCh, tok>>, stage' = "failed",
         \A t \in Tokens : blames'[t] <= blames[t] + (IF t = tok THEN 1 ELSE 0),
         \A t \in Tokens : faults[t] <= faults'[t],
         blames' \in [Tokens -> Nat], faults' \in [Tokens -> Nat]
  PROVE  BlameInv'
<1> SUFFICES ASSUME NEW t \in Tokens
             PROVE  blames'[t] + (IF Pending(t)' THEN 1 ELSE 0)
                      <= faults'[t] + (IF stage' = "failed" /\ t = tok' THEN 1 ELSE 0)
  BY DEF BlameInv
<1>1. ~Pending(t)' /\ ~Pending(t)
  BY DEF Pending, InChannel
<1>2. blames[t] <= faults[t]
  BY <1>1, Ledgers DEF BlameInv, ImageInv
<1>3. blames[t] \in Nat /\ faults[t] \in Nat /\ blames'[t] \in Nat /\ faults'[t] \in Nat
  BY Ledgers DEF ImageInv
<1>4. /\ blames'[t] <= blames[t] + (IF t = tok THEN 1 ELSE 0)
      /\ faults[t] <= faults'[t]
  OBVIOUS
<1> QED
  BY <1>1, <1>2, <1>3, <1>4

LEMMA NothingPending ==
  ASSUME RoundInv, stage # "collect" PROVE \A t \in Tokens : ~Pending(t)
BY EmptyDomain DEF RoundInv, Pending, InChannel

\* A step that leaves the round as it is, outside of one.
LEMMA RoundStill ==
  ASSUME RoundInv, UNCHANGED <<worker, resultCh>>, stage # "collect" \/ stage' = "collect"
  PROVE  RoundInv'
BY DEF RoundInv

LEMMA ImageStarts == ASSUME ImageInit PROVE ImageInv
<1>1. CallsNeeded \in Nat /\ 0 < CallsNeeded /\ N \in Nat /\ 0 < N
  BY CallsArePositive, ImageAssumption
<1>2. NoneOf(0) \in [Tokens -> Nat] /\ NoneOf("none") \in [Tokens -> {"none"}]
  BY DEF NoneOf
<1>3. images \in 0..N /\ calls \in 0..CallsNeeded /\ urls \in 0..MaxUrls
  BY <1>1, ImageAssumption DEF ImageInit
<1>4. ImageTypeOK
  BY <1>2, <1>3, EmptyDomain DEF ImageInit, ImageTypeOK, Results
<1>5. StageInv
  BY <1>1 DEF ImageInit, StageInv
<1>6. RoundInv
  BY <1>2, EmptyDomain DEF ImageInit, RoundInv
<1>7. BlameInv
  <2>1. \A t \in Tokens : ~Pending(t)
    BY <1>6, NothingPending DEF ImageInit
  <2>2. \A t \in Tokens : blames[t] = 0 /\ faults[t] = 0
    BY DEF ImageInit, NoneOf
  <2> QED
    BY <2>1, <2>2 DEF BlameInv, ImageInit
<1> QED
  BY <1>4, <1>5, <1>6, <1>7 DEF ImageInv

-----------------------------------------------------------------------------
(* The steps that report nothing and the steps of an edit. *)

\* The types a step leaves alone.
Stays == UNCHANGED <<edit, round, left, lost>>

LEMMA TypesKept ==
  ASSUME ImageTypeOK, Stays,
         stage' \in {"pick", "attempt", "recover", "collect", "charge", "upload", "call", "fetch",
                     "empty", "answered", "failed"},
         tok' \in Tokens \cup {NoToken}, images' \in 0..N, calls' \in 0..CallsNeeded, urls' \in 0..MaxUrls,
         quota' \in [Tokens -> 0..MaxQuota], usable' \subseteq Tokens,
         charged' \in Nat, faults' \in [Tokens -> Nat], blames' \in [Tokens -> Nat]
  PROVE  ImageTypeOK'
BY DEF ImageTypeOK, Stays, round

LEMMA QuietKeeps ==
  ASSUME ImageInv, PickToken \/ Leave \/ Upload \/ (\E t \in Tokens : OthersConsume(t))
  PROVE  ImageInv'
<1> USE DEF ImageInv, Stays, ledger, pool, round
<1>1. CASE PickToken
  <2>1. tok' \in Tokens \cup {NoToken} /\ (stage' # "failed" => tok' \in Tokens)
    BY <1>1 DEF PickToken, Candidates, ImageTypeOK
  <2>2. ImageTypeOK'
    BY <1>1, <2>1 DEF PickToken, ImageTypeOK
  <2>3. StageInv'
    BY <1>1, <2>1 DEF PickToken, StageInv
  <2>4. RoundInv'
    BY <1>1, RoundStill DEF PickToken
  <2>5. BlameInv'
    BY <1>1, BlameStill DEF PickToken
  <2> QED
    BY <2>2, <2>3, <2>4, <2>5
<1>2. CASE Upload
  <2>1. ImageTypeOK' /\ StageInv'
    BY <1>2 DEF Upload, ImageTypeOK, StageInv
  <2>2. RoundInv' /\ BlameInv'
    BY <1>2, RoundStill, BlameStill DEF Upload
  <2> QED
    BY <2>1, <2>2
<1>3. CASE Leave
  <2>1. ImageTypeOK'
    BY <1>3 DEF Leave, ImageTypeOK
  <2>2. StageInv'
    BY <1>3 DEF Leave, StageInv
  <2>3. RoundInv' /\ BlameInv'
    BY <1>3, RoundStill, BlameStill DEF Leave
  <2> QED
    BY <2>1, <2>2, <2>3
<1>4. ASSUME NEW t \in Tokens, OthersConsume(t) PROVE ImageInv'
  <2>1. quota' \in [Tokens -> 0..MaxQuota] /\ usable' \subseteq Tokens
    BY <1>4, ConsumeTypes DEF OthersConsume
  <2>2. ImageTypeOK'
    BY <1>4, <2>1 DEF OthersConsume, ImageTypeOK
  <2>3. StageInv'
    BY <1>4 DEF OthersConsume, StageInv
  <2>4. RoundInv' /\ BlameInv'
    BY <1>4, RoundStill, BlameStill DEF OthersConsume
  <2> QED
    BY <2>2, <2>3, <2>4
<1> QED
  BY <1>1, <1>2, <1>3, <1>4

\* The image that a token is charged for is the request's next one.
LEMMA ChargeKeeps == ASSUME ImageInv, Charge PROVE ImageInv'
<1> USE DEF ImageInv
<1>1. /\ stage = "charge" /\ tok \in Tokens /\ images < N
      /\ UNCHANGED <<edit, tok, calls, urls, worker, resultCh, winner, firstErr, left, faults, blames, lost>>
  BY DEF Charge, StageInv, round
<1>2. /\ N \in Nat /\ images \in Nat /\ charged \in Nat /\ faults \in [Tokens -> Nat]
      /\ blames \in [Tokens -> Nat]
  BY ImageAssumption, Ledgers DEF ImageTypeOK
<1>3. CASE quota[tok] > 0
  <2>1. /\ quota' \in [Tokens -> 0..MaxQuota] /\ usable' \subseteq Tokens /\ charged' \in Nat
        /\ images' = images + 1 /\ stage' = (IF images' < N THEN "attempt" ELSE "answered")
    BY <1>1, <1>2, <1>3, ConsumeTypes, OneMore DEF Charge, Consume, NextImage
  <2>2. images' \in 0..N
    BY <1>1, <1>2, <2>1
  <2>3. ImageTypeOK'
    BY <1>1, <1>2, <2>1, <2>2 DEF ImageTypeOK
  <2>4. StageInv'
    BY <1>1, <2>1 DEF StageInv
  <2>5. RoundInv' /\ BlameInv'
    BY <1>1, <2>1, RoundStill, BlameStill
  <2> QED
    BY <2>3, <2>4, <2>5
<1>4. CASE ~(quota[tok] > 0)
  <2>1. stage' = "failed" /\ UNCHANGED <<quota, usable, charged, images>>
    BY <1>4 DEF Charge, pool
  <2>2. ImageTypeOK'
    BY <1>1, <2>1 DEF ImageTypeOK
  <2>3. StageInv'
    BY <2>1 DEF StageInv
  <2>4. RoundInv' /\ BlameInv'
    BY <1>1, <2>1, RoundStill, BlameStill
  <2> QED
    BY <2>2, <2>3, <2>4
<1> QED
  BY <1>3, <1>4

\* A request that fails outside a round.
LEMMA FailingKeeps ==
  ASSUME ImageInv, NEW err, NEW o, tok \in Tokens, stage # "failed", FailWith(err),
         Fault(tok, o) \/ UNCHANGED faults, \A t \in Tokens : ~Pending(t),
         resultCh = << >>, \A t \in Tokens : worker[t] \in {"none", "over"},
         UNCHANGED <<edit, tok, images, calls, urls, quota, worker, resultCh, winner, firstErr, left,
                     charged, lost>>
         \/ (UNCHANGED <<edit, tok, images, urls, quota, worker, resultCh, winner, firstErr, left,
                         charged, lost>> /\ calls' \in 0..CallsNeeded)
  PROVE  ImageInv'
<1> USE DEF ImageInv
<1>1. /\ stage' = "failed" /\ usable' \subseteq Tokens /\ blames' \in [Tokens -> Nat]
      /\ \A t \in Tokens : blames'[t] <= blames[t] + (IF t = tok THEN 1 ELSE 0)
  BY FailTypes
<1>2. faults' \in [Tokens -> Nat] /\ \A t \in Tokens : faults[t] <= faults'[t]
  <2>1. CASE Fault(tok, o)
    BY <2>1, FaultTypes
  <2>2. CASE UNCHANGED faults
    <3>1. faults \in [Tokens -> Nat]
      BY Ledgers
    <3> QED
      BY <2>2, <3>1
  <2> QED
    BY <2>1, <2>2
<1>3. UNCHANGED <<worker, resultCh, tok, edit, images, urls, quota, winner, firstErr, left, charged, lost>>
  OBVIOUS
<1>4. charged' \in Nat /\ calls' \in 0..CallsNeeded
  BY <1>3, Ledgers DEF ImageTypeOK
<1>5. ImageTypeOK'
  BY <1>1, <1>2, <1>3, <1>4 DEF ImageTypeOK
<1>6. StageInv'
  BY <1>1 DEF StageInv
<1>7. RoundInv'
  BY <1>1, <1>3, EmptyDomain DEF RoundInv
<1>8. BlameInv'
  BY <1>1, <1>2, <1>3, BlameFails
<1> QED
  BY <1>5, <1>6, <1>7, <1>8

\* An upload, a call or a download that fails, or an edit without an image.
LEMMA EditFailsKeeps ==
  ASSUME ImageInv, (\E o \in Outcomes : EditFails(o)) \/ EditEmpty PROVE ImageInv'
<1> USE DEF ImageInv
<1>1. ASSUME stage \notin {"pick", "failed", "collect"}
      PROVE  /\ tok \in Tokens /\ resultCh = << >> /\ \A t \in Tokens : worker[t] \in {"none", "over"}
             /\ \A t \in Tokens : ~Pending(t)
  BY <1>1, NothingPending DEF StageInv, RoundInv
<1>2. ASSUME NEW o \in Outcomes, EditFails(o) PROVE ImageInv'
  BY <1>1, <1>2, FailingKeeps DEF EditFails, round
<1>3. CASE EditEmpty
  BY <1>1, <1>3, FailingKeeps DEF EditEmpty, round
<1> QED
  BY <1>2, <1>3

LEMMA LoopStages ==
  ASSUME NEW made, NEW have, EditLoop(made, have)
  PROVE  \/ stage' = "call" /\ made < CallsNeeded /\ have < N
         \/ stage' \in {"answered", "empty"}
BY DEF EditLoop

\* A call is charged at most once, and only for images.
LEMMA CallKeeps ==
  ASSUME ImageInv, NEW k \in 0..MaxUrls, NEW fresh \in 0..MaxUrls, Call(k, fresh) PROVE ImageInv'
<1> USE DEF ImageInv
<1>1. /\ stage = "call" /\ tok \in Tokens /\ images < N /\ calls < CallsNeeded /\ calls' = calls + 1
      /\ UNCHANGED <<edit, tok, images, worker, resultCh, winner, firstErr, left, lost>>
  BY DEF Call, StageInv, round
<1>2. /\ charged \in Nat /\ faults \in [Tokens -> Nat] /\ blames \in [Tokens -> Nat]
      /\ CallsNeeded \in Nat /\ calls' \in 0..CallsNeeded
  <2>1. CallsNeeded \in Nat
    BY CallsArePositive
  <2>2. calls \in 0..CallsNeeded
    BY DEF ImageTypeOK
  <2>3. calls' \in 0..CallsNeeded
    BY <1>1, <2>1, <2>2
  <2> QED
    BY <2>1, <2>3, Ledgers
<1>3. CASE k = 0
  <2>1. /\ EditLoop(calls', images) /\ UNCHANGED <<urls, quota, usable, charged, faults, blames>>
    BY <1>1, <1>3 DEF Call, pool
  <2>2. stage' \in {"call", "answered", "empty"} /\ (stage' = "call" => calls' < CallsNeeded)
    BY <2>1, LoopStages
  <2>3. ImageTypeOK'
    BY <1>1, <1>2, <2>1, <2>2 DEF ImageTypeOK
  <2>4. StageInv'
    BY <1>1, <2>2 DEF StageInv
  <2>5. RoundInv' /\ BlameInv'
    BY <1>1, <2>1, RoundStill, BlameStill
  <2> QED
    BY <2>3, <2>4, <2>5
<1>4. CASE k # 0 /\ quota[tok] > 0
  <2>1. /\ Consume(tok) /\ urls' = fresh /\ UNCHANGED <<faults, blames>>
        /\ IF fresh > 0 THEN stage' = "fetch" ELSE EditLoop(calls', images)
    BY <1>1, <1>4 DEF Call
  <2>2. quota' \in [Tokens -> 0..MaxQuota] /\ usable' \subseteq Tokens /\ charged' \in Nat
    BY <1>1, <2>1, PaidTypes
  <2>3. /\ stage' \in {"fetch", "call", "answered", "empty"}
        /\ stage' = "call" => calls' < CallsNeeded
        /\ stage' = "fetch" => urls' > 0
    BY <2>1, LoopStages
  <2>4. ImageTypeOK'
    BY <1>1, <1>2, <2>1, <2>2, <2>3 DEF ImageTypeOK
  <2>5. StageInv'
    BY <1>1, <2>3 DEF StageInv
  <2>6. RoundInv' /\ BlameInv'
    BY <1>1, <2>1, RoundStill, BlameStill
  <2> QED
    BY <2>4, <2>5, <2>6
<1>5. CASE k # 0 /\ ~(quota[tok] > 0)
  <2>1. FailWith("fault") /\ Fault(tok, "fault") /\ UNCHANGED <<urls, quota, charged>>
    BY <1>5 DEF Call
  <2>2. /\ resultCh = << >> /\ \A t \in Tokens : worker[t] \in {"none", "over"}
        /\ \A t \in Tokens : ~Pending(t)
    BY <1>1, NothingPending DEF RoundInv
  <2> QED
    BY <1>1, <1>2, <2>1, <2>2, FailingKeeps
<1> QED
  BY <1>3, <1>4, <1>5

LEMMA FetchKeeps == ASSUME ImageInv, Fetch PROVE ImageInv'
<1> USE DEF ImageInv
<1>1. /\ stage = "fetch" /\ tok \in Tokens /\ images < N /\ urls > 0
      /\ UNCHANGED <<edit, tok, calls, quota, usable, worker, resultCh, winner, firstErr, left,
                     charged, faults, blames, lost>>
      /\ images' = images + 1 /\ urls' = (IF images + 1 >= N THEN 0 ELSE urls - 1)
      /\ IF urls' > 0 THEN stage' = stage ELSE EditLoop(calls, images')
  BY DEF Fetch, StageInv, round, pool, ledger
<1>2. N \in Nat /\ MaxUrls \in Nat /\ images \in Nat /\ urls \in 0..MaxUrls
  BY ImageAssumption DEF ImageTypeOK
<1>3. images' \in 0..N /\ urls' \in 0..MaxUrls /\ (urls' > 0 => images' < N)
  BY <1>1, <1>2
<1>4. /\ stage' \in {"fetch", "call", "answered", "empty"}
      /\ stage' = "call" => calls' < CallsNeeded /\ images' < N
      /\ stage' = "fetch" => urls' > 0
  BY <1>1, LoopStages
<1>5. ImageTypeOK'
  BY <1>1, <1>3, <1>4 DEF ImageTypeOK
<1>6. StageInv'
  BY <1>1, <1>3, <1>4 DEF StageInv
<1>7. RoundInv' /\ BlameInv'
  BY <1>1, <1>4, RoundStill, BlameStill
<1> QED
  BY <1>5, <1>6, <1>7

-----------------------------------------------------------------------------
(* The steps of a generation. *)

LEMMA AttemptKeeps == ASSUME ImageInv, NEW o \in Outcomes, Attempt(o) PROVE ImageInv'
<1> USE DEF ImageInv
<1>1. /\ stage = "attempt" /\ tok \in Tokens /\ Fault(tok, o)
      /\ UNCHANGED <<edit, tok, images, calls, urls, quota, worker, resultCh, winner, firstErr,
                     left, charged, lost>>
  BY DEF Attempt, StageInv, round
<1>2. CASE stage' \in {"charge", "recover"} /\ o # "fault" /\ UNCHANGED <<blames, usable>>
  <2>1. UNCHANGED faults
    BY <1>1, <1>2 DEF Fault
  <2>2. ImageTypeOK'
    BY <1>1, <1>2, <2>1 DEF ImageTypeOK
  <2>3. StageInv'
    BY <1>1, <1>2 DEF StageInv
  <2>4. RoundInv' /\ BlameInv'
    BY <1>1, <1>2, <2>1, RoundStill, BlameStill
  <2> QED
    BY <2>2, <2>3, <2>4
<1>3. CASE FailWith(o)
  <2>1. /\ resultCh = << >> /\ \A t \in Tokens : worker[t] \in {"none", "over"}
        /\ \A t \in Tokens : ~Pending(t)
    BY <1>1, NothingPending DEF RoundInv
  <2> QED
    BY <1>1, <1>3, <2>1, FailingKeeps
<1> QED
  BY <1>2, <1>3 DEF Attempt

\* Every worker of a round starts with nothing counted.
LEMMA RecoverKeeps == ASSUME ImageInv, Recover PROVE ImageInv'
<1> USE DEF ImageInv
<1>1. /\ stage = "recover" /\ tok \in Tokens
      /\ resultCh = << >> /\ \A t \in Tokens : worker[t] \in {"none", "over"} /\ ~Pending(t)
      /\ UNCHANGED <<edit, tok, images, calls, urls, quota, left, charged, faults, lost>>
  BY NothingPending DEF Recover, StageInv, RoundInv
<1>2. CASE Candidates({tok}) = {}
  <2>1. FailWith("blocked") /\ UNCHANGED <<worker, resultCh, winner, firstErr>>
    BY <1>2 DEF Recover, round
  <2> QED
    BY <1>1, <2>1, FailingKeeps
<1>3. CASE Candidates({tok}) # {}
  <2>1. /\ worker' \in [Tokens -> {"running", "none"}]
        /\ stage' = "collect" /\ winner' = NoToken /\ firstErr' = "none"
        /\ UNCHANGED <<resultCh, blames, usable>>
    BY <1>3 DEF Recover
  <2>2. ImageTypeOK'
    BY <1>1, <2>1 DEF ImageTypeOK
  <2>3. StageInv'
    BY <1>1, <2>1 DEF StageInv
  <2>4. RoundInv'
    BY <1>1, <2>1, EmptyDomain DEF RoundInv
  <2>5. \A t \in Tokens : ~Pending(t)'
    BY <1>1, <2>1, EmptyDomain DEF Pending, InChannel
  <2>6. BlameInv'
    <3>1. ASSUME NEW t \in Tokens PROVE blames'[t] + 0 <= faults'[t] + 0
      BY <1>1, <2>1, Ledgers DEF BlameInv
    <3> QED
      BY <2>1, <2>5, <3>1 DEF BlameInv
  <2> QED
    BY <2>2, <2>3, <2>4, <2>6
<1> QED
  BY <1>2, <1>3

LEMMA RoundOverQuiet ==
  ASSUME ImageInv, RoundOver
  PROVE  /\ stage = "collect" /\ tok \in Tokens /\ images < N
         /\ resultCh = << >> /\ \A t \in Tokens : worker[t] \in {"none", "over"} /\ ~Pending(t)
BY EmptyDomain DEF ImageInv, StageInv, RoundOver, Pending, InChannel

LEMMA RoundWonKeeps == ASSUME ImageInv, RoundWon PROVE ImageInv'
<1> USE DEF ImageInv
<1>1. /\ stage = "collect" /\ tok \in Tokens /\ images < N
      /\ resultCh = << >> /\ \A t \in Tokens : worker[t] \in {"none", "over"} /\ ~Pending(t)
      /\ winner # NoToken /\ tok' = winner /\ images' = images + 1
      /\ stage' = (IF images' < N THEN "attempt" ELSE "answered")
      /\ winner' = NoToken /\ worker' = NoneOf("none")
      /\ UNCHANGED <<edit, calls, urls, quota, usable, resultCh, firstErr, left, charged, faults,
                     blames, lost>>
  BY RoundOverQuiet DEF RoundWon, NextImage, pool, ledger
<1>2. images' \in 0..N /\ tok' \in Tokens /\ worker' \in [Tokens -> {"none"}]
  BY <1>1, ImageAssumption DEF ImageTypeOK, NoneOf
<1>3. ImageTypeOK'
  BY <1>1, <1>2 DEF ImageTypeOK
<1>4. StageInv'
  BY <1>1, <1>2 DEF StageInv
<1>5. RoundInv'
  BY <1>1, <1>2, EmptyDomain DEF RoundInv
<1>6. \A t \in Tokens : ~Pending(t)'
  BY <1>1, <1>2, EmptyDomain DEF Pending, InChannel
<1>7. BlameInv'
  <2>1. ASSUME NEW t \in Tokens PROVE blames'[t] + 0 <= faults'[t] + 0
    BY <1>1, Ledgers DEF BlameInv
  <2> QED
    BY <1>1, <1>6, <2>1 DEF BlameInv
<1> QED
  BY <1>3, <1>4, <1>5, <1>7

LEMMA RoundLostKeeps == ASSUME ImageInv, RoundLost PROVE ImageInv'
<1>1. /\ stage = "collect" /\ tok \in Tokens
      /\ resultCh = << >> /\ \A t \in Tokens : worker[t] \in {"none", "over"} /\ ~Pending(t)
  BY RoundOverQuiet DEF RoundLost
<1>2. /\ FailWith(IF firstErr = "none" THEN "blocked" ELSE firstErr)
      /\ UNCHANGED <<edit, tok, images, calls, urls, quota, worker, resultCh, winner, firstErr,
                     left, charged, faults, lost>>
  BY DEF RoundLost, round
<1> QED
  BY <1>1, <1>2, FailingKeeps

-----------------------------------------------------------------------------
(* The steps of a round. *)

LEMMA ResultsTyped ==
  ASSUME ImageTypeOK
  PROVE  resultCh \in Seq(Results) /\ \A i \in DOMAIN resultCh : resultCh[i].token \in Tokens
<1>1. resultCh \in Seq(Results)
  BY DEF ImageTypeOK, Results
<1>2. \A i \in DOMAIN resultCh : resultCh[i] \in Results
  BY <1>1
<1> QED
  BY <1>1, <1>2 DEF Results

\* A worker's error is counted when it becomes pending.
LEMMA WorkerEndsKeeps ==
  ASSUME ImageInv, NEW t \in Tokens, NEW o \in Outcomes, WorkerEnds(t, o) PROVE ImageInv'
<1> USE DEF ImageInv
<1>1. /\ worker[t] = "running" /\ stage = "collect" /\ worker \in [Tokens -> Outcomes \cup {"none", "running", "over"}]
      /\ UNCHANGED <<edit, stage, tok, images, calls, urls, resultCh, winner, firstErr, left, blames, lost>>
  BY DEF WorkerEnds, RoundInv, ImageTypeOK
<1>2. \A i \in DOMAIN resultCh : resultCh[i].token # t
  BY <1>1 DEF RoundInv
<1>3. charged \in Nat /\ faults \in [Tokens -> Nat] /\ blames \in [Tokens -> Nat]
  BY Ledgers
<1>4. PICK e \in Outcomes :
        /\ worker' = [worker EXCEPT ![t] = e] /\ Fault(t, e)
        /\ quota' \in [Tokens -> 0..MaxQuota] /\ usable' \subseteq Tokens /\ charged' \in Nat
  <2>1. CASE o = "ok" /\ quota[t] > 0
    <3>1. worker' = [worker EXCEPT ![t] = "ok"] /\ Consume(t) /\ UNCHANGED faults
      BY <2>1 DEF WorkerEnds
    <3>2. quota' \in [Tokens -> 0..MaxQuota] /\ usable' \subseteq Tokens /\ charged' \in Nat
      BY <3>1, PaidTypes
    <3> QED
      BY <3>1, <3>2 DEF Fault, Outcomes
  <2>2. CASE ~(o = "ok" /\ quota[t] > 0)
    <3> DEFINE err == IF o = "ok" THEN "fault" ELSE o
    <3>1. worker' = [worker EXCEPT ![t] = err] /\ Fault(t, err) /\ UNCHANGED <<pool, charged>>
      BY <2>2 DEF WorkerEnds
    <3>2. err \in Outcomes
      BY DEF Outcomes
    <3>3. quota' \in [Tokens -> 0..MaxQuota] /\ usable' \subseteq Tokens /\ charged' \in Nat
      BY <1>3, <3>1 DEF pool, ImageTypeOK
    <3> QED
      BY <3>1, <3>2, <3>3
  <2> QED
    BY <2>1, <2>2
<1>5. /\ worker' \in [Tokens -> Outcomes \cup {"none", "running", "over"}] /\ worker'[t] = e
      /\ \A u \in Tokens \ {t} : worker'[u] = worker[u]
  BY <1>1, <1>4
<1>6. /\ faults' \in [Tokens -> Nat] /\ \A u \in Tokens : faults[u] <= faults'[u]
      /\ e = "fault" => faults'[t] = faults[t] + 1
  BY <1>4, FaultTypes
<1>7. ImageTypeOK'
  BY <1>1, <1>3, <1>4, <1>5, <1>6 DEF ImageTypeOK
<1>8. StageInv'
  BY <1>1 DEF StageInv
<1>9. RoundInv'
  <2>1. \A i \in DOMAIN resultCh : resultCh[i].token \in Tokens \ {t}
    BY <1>2, ResultsTyped
  <2>2. \A i \in DOMAIN resultCh : worker'[resultCh[i].token] = "over"
    BY <1>5, <2>1 DEF RoundInv
  <2> QED
    BY <1>1, <2>2 DEF RoundInv
<1>10. BlameInv'
  <2> SUFFICES ASSUME NEW u \in Tokens
               PROVE  blames'[u] + (IF Pending(u)' THEN 1 ELSE 0) <= faults'[u] + 0
    BY <1>1 DEF BlameInv
  <2>1. blames[u] + (IF Pending(u) THEN 1 ELSE 0) <= faults[u] + 0 /\ blames'[u] = blames[u]
    BY <1>1 DEF BlameInv
  <2>2. /\ blames[u] \in Nat /\ faults[u] \in Nat /\ faults'[u] \in Nat /\ faults[u] <= faults'[u]
    BY <1>3, <1>6
  <2>3. CASE u # t
    <3>1. Pending(u)' <=> Pending(u)
      BY <1>1, <1>5, <2>3 DEF Pending, InChannel
    <3> QED
      BY <2>1, <2>2, <3>1
  <2>4. CASE u = t
    <3>1. Pending(u)' => e = "fault"
      BY <1>1, <1>2, <1>5, <2>4 DEF Pending, InChannel
    <3>2. Pending(u)' => faults'[u] = faults[u] + 1
      BY <1>6, <2>4, <3>1
    <3> QED
      BY <2>1, <2>2, <3>2
  <2> QED
    BY <2>3, <2>4
<1> QED
  BY <1>7, <1>8, <1>9, <1>10

\* A result takes its worker's place; a dropped one needs none.
LEMMA WorkerSendsKeeps ==
  ASSUME ImageInv, NEW t \in Tokens, WorkerSends(t) PROVE ImageInv'
<1> USE DEF ImageInv
<1> DEFINE r == [token |-> t, outcome |-> worker[t]]
<1>1. /\ worker[t] \in Outcomes /\ stage = "collect"
      /\ worker \in [Tokens -> Outcomes \cup {"none", "running", "over"}]
      /\ resultCh \in Seq(Results) /\ r \in Results
      /\ worker' = [worker EXCEPT ![t] = "over"]
      /\ UNCHANGED <<edit, stage, tok, images, calls, urls, quota, usable, winner, firstErr, left,
                     charged, faults, blames>>
  BY DEF WorkerSends, RoundInv, ImageTypeOK, pool, Outcomes, Results
<1>2. \A i \in DOMAIN resultCh : resultCh[i].token # t /\ resultCh[i].token \in Tokens
  <2>1. worker[t] # "over"
    BY <1>1 DEF Outcomes
  <2> QED
    BY <2>1, ResultsTyped DEF RoundInv
<1>3. /\ worker' \in [Tokens -> Outcomes \cup {"none", "running", "over"}] /\ worker'[t] = "over"
      /\ \A u \in Tokens \ {t} : worker'[u] = worker[u]
  BY <1>1
<1>4. resultCh' \in {resultCh, Append(resultCh, r)} /\ lost' \in {lost, lost + 1}
  BY DEF WorkerSends
<1>5. resultCh' \in Seq(Results) /\ lost' \in Nat
  <2>1. lost \in Nat
    BY DEF ImageTypeOK
  <2>2. Append(resultCh, r) \in Seq(Results)
    BY <1>1, AppendProperties
  <2> HIDE DEF r
  <2>3. lost' \in Nat
    BY <1>4, <2>1
  <2>4. resultCh' \in Seq(Results)
    BY <1>1, <1>4, <2>2
  <2> QED
    BY <2>3, <2>4
<1>6. \/ resultCh' = resultCh
      \/ /\ DOMAIN resultCh' = DOMAIN resultCh \cup {Len(resultCh) + 1}
         /\ Len(resultCh) + 1 \notin DOMAIN resultCh
         /\ \A i \in DOMAIN resultCh : resultCh'[i] = resultCh[i]
         /\ resultCh'[Len(resultCh) + 1] = r
  <2> HIDE DEF r
  <2>1. CASE resultCh' = Append(resultCh, r)
    <3>1. DOMAIN resultCh = 1..Len(resultCh) /\ Len(resultCh) \in Nat
      BY <1>1, LenProperties
    <3>2. /\ Len(resultCh') = Len(resultCh) + 1
          /\ \A i \in 1..Len(resultCh) : resultCh'[i] = resultCh[i]
          /\ resultCh'[Len(resultCh) + 1] = r
      BY <1>1, <2>1, AppendProperties
    <3>3. DOMAIN resultCh' = 1..Len(resultCh) + 1
      BY <1>5, <3>2, LenProperties
    <3> QED
      BY <3>1, <3>2, <3>3
  <2> QED
    BY <1>4, <2>1
<1>7. r.token = t /\ r.outcome = worker[t]
  OBVIOUS
<1> HIDE DEF r
<1>8. ImageTypeOK'
  BY <1>1, <1>3, <1>5 DEF ImageTypeOK, Results
<1>9. StageInv'
  BY <1>1 DEF StageInv
<1>10. RoundInv'
  <2>1. \A i \in DOMAIN resultCh' : worker'[resultCh'[i].token] = "over"
    BY <1>2, <1>3, <1>6, <1>7 DEF RoundInv
  <2>2. \A i, j \in DOMAIN resultCh' : resultCh'[i].token = resultCh'[j].token => i = j
    BY <1>2, <1>6, <1>7 DEF RoundInv
  <2> QED
    BY <1>1, <2>1, <2>2 DEF RoundInv
<1>11. ASSUME NEW u \in Tokens, Pending(u)' PROVE Pending(u)
  BY <1>2, <1>3, <1>6, <1>7, <1>11 DEF Pending, InChannel
<1>12. BlameInv'
  <2> SUFFICES ASSUME NEW u \in Tokens
               PROVE  blames'[u] + (IF Pending(u)' THEN 1 ELSE 0) <= faults'[u] + 0
    BY <1>1 DEF BlameInv
  <2>1. /\ blames[u] + (IF Pending(u) THEN 1 ELSE 0) <= faults[u] + 0
        /\ blames'[u] = blames[u] /\ faults'[u] = faults[u]
    BY <1>1 DEF BlameInv
  <2>2. blames[u] \in Nat /\ faults[u] \in Nat
    BY Ledgers
  <2> QED
    BY <1>11, <2>1, <2>2
<1> QED
  BY <1>8, <1>9, <1>10, <1>12

\* A report follows a pending error of the same token, which is then none any more.
LEMMA CollectKeeps == ASSUME ImageInv, Collect PROVE ImageInv'
<1> USE DEF ImageInv
<1>1. /\ stage = "collect" /\ resultCh # << >> /\ resultCh' = Tail(resultCh)
      /\ UNCHANGED <<edit, stage, tok, images, calls, urls, quota, worker, left, charged, faults>>
      /\ resultCh \in Seq(Results)
  BY ResultsTyped DEF Collect, Collected
<1>0. PICK r \in Results : r = Head(resultCh)
  BY <1>1
<1>2. /\ 1 \in DOMAIN resultCh /\ r = resultCh[1] /\ r \in Results /\ resultCh' \in Seq(Results)
      /\ \A i \in DOMAIN resultCh' : i + 1 \in DOMAIN resultCh /\ i + 1 # 1 /\ resultCh'[i] = resultCh[i + 1]
      /\ DOMAIN resultCh' \subseteq Nat
  BY <1>0, <1>1
<1>3. /\ lost' \in {lost, lost + 1} /\ winner' \in {winner, r.token} /\ firstErr' \in {firstErr, r.outcome}
      /\ firstErr' \notin {"ok", "blocked"}
      /\ \/ UNCHANGED <<blames, usable>>
         \/ r.outcome = "fault" /\ ReportError(r.token)
  BY <1>0 DEF Collect, FirstError, ImageTypeOK
<1>4. r.token \in Tokens /\ r.outcome \in Outcomes /\ blames \in [Tokens -> Nat] /\ faults \in [Tokens -> Nat]
      /\ charged \in Nat
  BY <1>2, Ledgers DEF Results
<1>5. /\ blames' \in [Tokens -> Nat] /\ usable' \subseteq Tokens
      /\ \A u \in Tokens : blames'[u] = blames[u]
                           \/ (u = r.token /\ r.outcome = "fault" /\ blames'[u] = blames[u] + 1)
  <2>1. CASE UNCHANGED <<blames, usable>>
    BY <1>4, <2>1 DEF ImageTypeOK
  <2>2. CASE r.outcome = "fault" /\ ReportError(r.token)
    <3>1. blames' = [blames EXCEPT ![r.token] = @ + 1] /\ usable' \subseteq Tokens
      BY <2>2 DEF ReportError, ImageTypeOK
    <3> QED
      BY <1>4, <2>2, <3>1, OneMore
  <2> QED
    BY <1>3, <2>1, <2>2
<1>6. ImageTypeOK'
  <2>1. lost' \in Nat /\ winner' \in Tokens \cup {NoToken} /\ firstErr' \in {"none", "transport", "fault"}
    BY <1>3, <1>4 DEF ImageTypeOK, Outcomes
  <2> QED
    BY <1>1, <1>2, <1>4, <1>5, <2>1 DEF ImageTypeOK, Results
<1>7. StageInv'
  BY <1>1 DEF StageInv
<1>8. RoundInv'
  <2>1. \A i \in DOMAIN resultCh' : worker'[resultCh'[i].token] = "over"
    BY <1>1, <1>2 DEF RoundInv
  <2>2. ASSUME NEW i \in DOMAIN resultCh', NEW j \in DOMAIN resultCh',
               resultCh'[i].token = resultCh'[j].token
        PROVE  i = j
    <3>1. i + 1 = j + 1
      BY <1>2, <2>2 DEF RoundInv
    <3> QED
      BY <1>2, <3>1
  <2> QED
    BY <1>1, <2>1, <2>2 DEF RoundInv
<1>9. ASSUME NEW u \in Tokens, Pending(u)' PROVE Pending(u)
  BY <1>1, <1>2, <1>9 DEF Pending, InChannel
<1>10. ~Pending(r.token)'
  <2>1. worker'[r.token] = "over"
    BY <1>1, <1>2 DEF RoundInv
  <2>2. \A i \in DOMAIN resultCh' : resultCh'[i].token # r.token
    BY <1>2 DEF RoundInv
  <2>3. worker'[r.token] # "fault"
    BY <2>1
  <2>4. ~InChannel(r.token)'
    BY <1>1, <1>2, <2>2 DEF InChannel
  <2> QED
    BY <2>3, <2>4 DEF Pending
<1>11. r.outcome = "fault" => Pending(r.token)
  BY <1>2 DEF Pending, InChannel
<1>12. BlameInv'
  <2> SUFFICES ASSUME NEW u \in Tokens
               PROVE  blames'[u] + (IF Pending(u)' THEN 1 ELSE 0) <= faults'[u] + 0
    BY <1>1 DEF BlameInv
  <2>1. blames[u] + (IF Pending(u) THEN 1 ELSE 0) <= faults[u] + 0 /\ faults'[u] = faults[u]
    BY <1>1 DEF BlameInv
  <2>2. blames[u] \in Nat /\ faults[u] \in Nat
    BY <1>4
  <2>3. CASE blames'[u] = blames[u]
    BY <1>9, <2>1, <2>2, <2>3
  <2>4. CASE u = r.token /\ r.outcome = "fault" /\ blames'[u] = blames[u] + 1
    <3>1. Pending(u) /\ ~Pending(u)'
      BY <1>10, <1>11, <2>4
    <3> QED
      BY <2>1, <2>2, <2>4, <3>1
  <2> QED
    BY <1>5, <2>3, <2>4
<1> QED
  BY <1>6, <1>7, <1>8, <1>12

-----------------------------------------------------------------------------
LEMMA ImageKeeps == ImageInv /\ [ImageNext]_imageVars => ImageInv'
<1> SUFFICES ASSUME ImageInv, [ImageNext]_imageVars PROVE ImageInv'
  OBVIOUS
<1>1. CASE EditStep
  BY <1>1, QuietKeeps, FetchKeeps, EditFailsKeeps, CallKeeps DEF EditStep
<1>2. CASE RequestStep
  BY <1>1, <1>2, QuietKeeps, RecoverKeeps, CollectKeeps, RoundWonKeeps, RoundLostKeeps,
     ChargeKeeps, AttemptKeeps DEF RequestStep
<1>3. ASSUME NEW t \in Tokens, WorkerStep(t) PROVE ImageInv'
  BY <1>3, WorkerSendsKeeps, WorkerEndsKeeps DEF WorkerStep
<1>4. CASE Leave \/ \E t \in Tokens : OthersConsume(t)
  BY <1>4, QuietKeeps
<1>5. CASE UNCHANGED imageVars
  <2>1. UNCHANGED <<edit, stage, tok, images, calls, urls, quota, usable, worker, resultCh, winner,
                    firstErr, left, charged, faults, blames, lost>>
    BY <1>5 DEF imageVars, pool, round, ledger
  <2>2. ImageTypeOK' /\ StageInv'
    BY <2>1 DEF ImageInv, ImageTypeOK, StageInv
  <2> QED
    BY <2>1, <2>2, RoundStill, BlameStill DEF ImageInv
<1> QED
  BY <1>2, <1>3, <1>4, <1>5 DEF ImageNext

\* Every token is blamed for no more errors than it made, except for the one the request
\* ends with, and a generation or an edit never has more images or calls than it asked
\* for: for any number of tokens, images and parallel attempts.
THEOREM OnlyOwnErrors == ImageSpec => [](ImageTypeOK /\ InnocentSpared)
<1>1. ImageInit => ImageInv
  BY ImageStarts
<1>2. ImageInv /\ [ImageNext]_imageVars => ImageInv'
  BY ImageKeeps
<1>3. ImageInv => ImageTypeOK /\ InnocentSpared
  <2> SUFFICES ASSUME ImageInv, NEW t \in Tokens
               PROVE  blames[t] <= faults[t] + (IF stage = "failed" /\ t = tok THEN 1 ELSE 0)
    BY DEF ImageInv, InnocentSpared
  <2>1. blames[t] \in Nat /\ faults[t] \in Nat
    BY Ledgers DEF ImageInv
  <2> QED
    BY <2>1 DEF ImageInv, BlameInv
<1> QED
  BY <1>1, <1>2, <1>3, PTL DEF ImageSpec

-----------------------------------------------------------------------------
(* What was charged.  An edit charges a call at most once and a generation   *)
(* an image; of a round the charged images are in the workers that have not  *)
(* sent, in the channel and with the winner, so that every step moves an     *)
(* image from one of these places to the next.                               *)

PaidInv ==
    /\ edit => /\ stage \notin {"attempt", "recover", "collect", "charge"}
               /\ charged <= calls
               /\ images > 0 \/ urls > 0 => charged > 0
    /\ ~edit => /\ stage \notin {"upload", "call", "fetch", "empty"}
                /\ stage # "collect" => winner = NoToken
                /\ charged = images + Unclaimed + lost

LEMMA CountsTyped ==
  ASSUME ImageTypeOK
  PROVE  /\ IsFiniteSet(Delivered) /\ Cardinality(Delivered) \in Nat
         /\ IsFiniteSet(Offered) /\ Cardinality(Offered) \in Nat
         /\ Unclaimed \in Nat
<1>1. IsFiniteSet(Delivered)
  BY ImageAssumption, FS_Subset DEF Delivered
<1>2. IsFiniteSet(Offered)
  <2>1. resultCh \in Seq(Results)
    BY ResultsTyped
  <2>2. DOMAIN resultCh = 1..Len(resultCh) /\ Len(resultCh) \in Nat
    BY <2>1, LenProperties
  <2>3. IsFiniteSet(DOMAIN resultCh)
    BY <2>2, FS_Interval
  <2> QED
    BY <2>3, FS_Subset DEF Offered
<1>3. Cardinality(Delivered) \in Nat /\ Cardinality(Offered) \in Nat
  BY <1>1, <1>2, FS_CardinalityType
<1> QED
  BY <1>1, <1>2, <1>3 DEF Unclaimed

\* Between rounds no image is on its way.
LEMMA NothingUnclaimed ==
  ASSUME resultCh = << >>, \A t \in Tokens : worker[t] \in {"none", "over", "running"}
  PROVE  Unclaimed = IF winner = NoToken THEN 0 ELSE 1
<1>1. Delivered = {}
  BY DEF Delivered
<1>2. Offered = {}
  BY EmptyDomain DEF Offered
<1> QED
  BY <1>1, <1>2, FS_EmptySet DEF Unclaimed

LEMMA QuietRound ==
  ASSUME RoundInv, stage # "collect"
  PROVE  resultCh = << >> /\ \A t \in Tokens : worker[t] \in {"none", "over", "running"}
BY DEF RoundInv

\* A step that charges nothing and moves no image.
LEMMA PaidStill ==
  ASSUME ImageInv, PaidInv, ImageInv',
         UNCHANGED <<edit, images, urls, worker, resultCh, winner, charged, lost>>,
         calls' >= calls,
         edit => stage' \notin {"attempt", "recover", "collect", "charge"},
         ~edit => stage' \notin {"upload", "call", "fetch", "empty"},
         stage = "collect" /\ stage' # "collect" => winner = NoToken
  PROVE  PaidInv'
<1>1. Unclaimed' = Unclaimed
  BY DEF Unclaimed, Delivered, Offered
<1>2. CASE edit
  <2>1. charged \in Nat /\ calls \in Int /\ calls' \in Int
    BY CallsArePositive DEF ImageInv, ImageTypeOK
  <2> QED
    BY <1>2, <2>1 DEF PaidInv
<1>3. CASE ~edit
  BY <1>1, <1>3 DEF PaidInv
<1> QED
  BY <1>2, <1>3

LEMMA PaidStarts == ASSUME ImageInit PROVE PaidInv
<1>1. Unclaimed = 0
  BY NothingUnclaimed DEF ImageInit, NoneOf
<1> QED
  BY <1>1 DEF ImageInit, PaidInv

\* The steps that only move the request.
LEMMA QuietPaid ==
  ASSUME ImageInv, PaidInv, ImageInv',
         \/ PickToken \/ Leave \/ Upload \/ EditEmpty \/ RoundLost
         \/ \E t \in Tokens : OthersConsume(t)
         \/ \E o \in Outcomes : EditFails(o) \/ Attempt(o)
  PROVE  PaidInv'
<1> USE DEF round, ledger
<1>1. UNCHANGED <<edit, images, calls, urls, worker, resultCh, winner, charged, lost>>
  BY DEF PickToken, Leave, Upload, EditEmpty, RoundLost, OthersConsume, EditFails, Attempt
<1>2. calls \in Int
  BY CallsArePositive DEF ImageInv, ImageTypeOK
<1>3. stage = "collect" /\ stage' # "collect" => winner = NoToken
  BY DEF PickToken, Leave, Upload, EditEmpty, RoundLost, OthersConsume, EditFails, Attempt, RoundOver
<1>4. edit => stage' \notin {"attempt", "recover", "collect", "charge"}
  BY <1>1 DEF PaidInv, PickToken, Leave, Upload, EditEmpty, RoundLost, OthersConsume, EditFails,
              Attempt, FailWith, RoundOver
<1>5. ~edit => stage' \notin {"upload", "call", "fetch", "empty"}
  BY <1>1 DEF PaidInv, PickToken, Leave, Upload, EditEmpty, RoundLost, OthersConsume, EditFails,
              Attempt, FailWith, RoundOver
<1> QED
  BY <1>1, <1>2, <1>3, <1>4, <1>5, PaidStill

LEMMA ChargePaid == ASSUME ImageInv, PaidInv, ImageInv', Charge PROVE PaidInv'
<1>1. /\ stage = "charge" /\ tok \in Tokens /\ ~edit /\ winner = NoToken
      /\ UNCHANGED <<edit, calls, urls, worker, resultCh, winner, lost>>
  BY DEF Charge, ImageInv, StageInv, PaidInv, round
<1>2. CASE quota[tok] > 0
  <2>1. /\ charged' = charged + 1 /\ images' = images + 1 /\ stage' \in {"attempt", "answered"}
    BY <1>2 DEF Charge, Consume, NextImage
  <2>2. Unclaimed' = Unclaimed
    BY <1>1 DEF Unclaimed, Delivered, Offered
  <2>3. Unclaimed \in Nat /\ images \in Nat /\ lost \in Nat
    BY CountsTyped, ImageAssumption DEF ImageInv, ImageTypeOK
  <2>4. charged' = images' + Unclaimed' + lost'
    BY <1>1, <2>1, <2>2, <2>3 DEF PaidInv
  <2> QED
    BY <1>1, <2>1, <2>4 DEF PaidInv
<1>3. CASE ~(quota[tok] > 0)
  <2>1. stage' = "failed" /\ UNCHANGED <<charged, images>>
    BY <1>3 DEF Charge
  <2>2. calls \in Int
    BY CallsArePositive DEF ImageInv, ImageTypeOK
  <2> QED
    BY <1>1, <2>1, <2>2, PaidStill
<1> QED
  BY <1>2, <1>3

\* The images a call shows are charged before one of them is fetched.
LEMMA CallPaid ==
  ASSUME ImageInv, PaidInv, ImageInv', NEW k \in 0..MaxUrls, NEW fresh \in 0..MaxUrls, Call(k, fresh)
  PROVE  PaidInv'
<1>1. /\ stage = "call" /\ tok \in Tokens /\ edit /\ calls' = calls + 1
      /\ UNCHANGED <<edit, images, worker, resultCh, winner, lost>>
  BY DEF Call, ImageInv, StageInv, PaidInv, round
<1>2. charged \in Nat /\ calls \in Nat /\ images \in Nat /\ charged <= calls
  BY <1>1, CallsArePositive, ImageAssumption DEF ImageInv, ImageTypeOK, PaidInv
<1>3. CASE k # 0 /\ quota[tok] > 0
  <2>1. charged' = charged + 1
    BY <1>3 DEF Call, Consume
  <2>2. stage' \notin {"attempt", "recover", "collect", "charge"}
    BY <1>3 DEF Call, EditLoop
  <2> QED
    BY <1>1, <1>2, <2>1, <2>2 DEF PaidInv
<1>4. CASE ~(k # 0 /\ quota[tok] > 0)
  <2>1. /\ UNCHANGED <<urls, charged>>
        /\ stage' \notin {"attempt", "recover", "collect", "charge"}
    BY <1>4 DEF Call, EditLoop, FailWith
  <2>2. calls' >= calls
    BY <1>1, <1>2
  <2> QED
    BY <1>1, <2>1, <2>2, PaidStill
<1> QED
  BY <1>3, <1>4

LEMMA FetchPaid == ASSUME ImageInv, PaidInv, ImageInv', Fetch PROVE PaidInv'
<1>1. /\ stage = "fetch" /\ edit /\ urls > 0
      /\ UNCHANGED <<edit, calls, charged>>
  BY DEF Fetch, ImageInv, StageInv, PaidInv, ledger
<1>2. stage' \notin {"attempt", "recover", "collect", "charge"}
  BY <1>1 DEF Fetch, EditLoop
<1> QED
  BY <1>1, <1>2 DEF PaidInv

\* A round starts with nothing unclaimed, and a lost one ends so.
LEMMA RecoverPaid == ASSUME ImageInv, PaidInv, ImageInv', Recover PROVE PaidInv'
<1>1. /\ stage = "recover" /\ ~edit /\ winner = NoToken
      /\ resultCh = << >> /\ \A t \in Tokens : worker[t] \in {"none", "over", "running"}
      /\ UNCHANGED <<edit, images, calls, urls, charged, lost>>
  BY QuietRound DEF Recover, ImageInv, PaidInv
<1>2. winner' = NoToken /\ resultCh' = << >> /\ stage' \in {"collect", "failed"}
      /\ \A t \in Tokens : worker'[t] \in {"none", "over", "running"}
  BY <1>1 DEF Recover, FailWith, round
<1>3. Unclaimed = 0
  BY <1>1, NothingUnclaimed
<1>4. Unclaimed' = 0
  <2>1. Delivered' = {}
    BY <1>2 DEF Delivered
  <2>2. Offered' = {}
    BY <1>2, EmptyDomain DEF Offered
  <2> QED
    BY <1>2, <2>1, <2>2, FS_EmptySet DEF Unclaimed
<1>5. charged' = images' + Unclaimed' + lost'
  BY <1>1, <1>3, <1>4 DEF PaidInv
<1> QED
  BY <1>1, <1>2, <1>5 DEF PaidInv

\* The winner's image is the only one left, and the request takes it.
LEMMA RoundWonPaid == ASSUME ImageInv, PaidInv, ImageInv', RoundWon PROVE PaidInv'
<1>1. /\ stage = "collect" /\ ~edit /\ winner # NoToken
      /\ resultCh = << >> /\ \A t \in Tokens : worker[t] \in {"none", "over", "running"}
      /\ images' = images + 1 /\ winner' = NoToken /\ stage' \in {"attempt", "answered"}
      /\ resultCh' = << >> /\ \A t \in Tokens : worker'[t] = "none"
      /\ UNCHANGED <<edit, charged, lost>>
  BY DEF RoundWon, RoundOver, NextImage, NoneOf, ledger, PaidInv
<1>2. Unclaimed = 1
  BY <1>1, NothingUnclaimed
<1>3. Unclaimed' = 0
  <2>1. Delivered' = {}
    BY <1>1 DEF Delivered
  <2>2. Offered' = {}
    BY <1>1, EmptyDomain DEF Offered
  <2> QED
    BY <1>1, <2>1, <2>2, FS_EmptySet DEF Unclaimed
<1>4. images \in Nat /\ lost \in Nat
  BY ImageAssumption DEF ImageInv, ImageTypeOK
<1>5. charged' = images' + Unclaimed' + lost'
  BY <1>1, <1>2, <1>3, <1>4 DEF PaidInv
<1> QED
  BY <1>1, <1>5 DEF PaidInv

\* A step of a round keeps the kind of the request and its images.
LEMMA RoundPaid ==
  ASSUME ImageInv, PaidInv, stage = "collect",
         UNCHANGED <<edit, stage, images>>,
         charged' = images + Unclaimed' + lost'
  PROVE  PaidInv'
BY DEF PaidInv

\* A worker that charges its token has one image more to offer.
LEMMA WorkerEndsPaid ==
  ASSUME ImageInv, PaidInv, NEW t \in Tokens, NEW o \in Outcomes, WorkerEnds(t, o)
  PROVE  PaidInv'
<1>1. /\ worker[t] = "running" /\ stage = "collect" /\ ~edit
      /\ worker \in [Tokens -> Outcomes \cup {"none", "running", "over"}]
      /\ UNCHANGED <<edit, stage, images, resultCh, winner, lost>>
  BY DEF WorkerEnds, ImageInv, RoundInv, ImageTypeOK, PaidInv
<1>2. /\ IsFiniteSet(Delivered) /\ Cardinality(Delivered) \in Nat /\ Cardinality(Offered) \in Nat
      /\ t \notin Delivered /\ Offered' = Offered
  BY <1>1, CountsTyped DEF Delivered, Offered, ImageInv
<1>3. /\ charged \in Nat /\ images \in Nat /\ lost \in Nat
      /\ charged = images + Unclaimed + lost
  BY <1>1, ImageAssumption DEF ImageInv, ImageTypeOK, PaidInv
<1>4. CASE o = "ok" /\ quota[t] > 0
  <2>1. worker' = [worker EXCEPT ![t] = "ok"] /\ charged' = charged + 1
    BY <1>4 DEF WorkerEnds, Consume
  <2>2. Delivered' = Delivered \cup {t}
    BY <1>1, <2>1 DEF Delivered
  <2>3. Cardinality(Delivered') = Cardinality(Delivered) + 1
    BY <1>2, <2>2, FS_AddElement
  <2>4. charged' = images + Unclaimed' + lost'
    BY <1>1, <1>2, <1>3, <2>1, <2>3 DEF Unclaimed
  <2> QED
    BY <1>1, <2>4, RoundPaid
<1>5. CASE ~(o = "ok" /\ quota[t] > 0)
  <2> DEFINE err == IF o = "ok" THEN "fault" ELSE o
  <2>1. worker' = [worker EXCEPT ![t] = err] /\ UNCHANGED charged /\ err # "ok"
    BY <1>5 DEF WorkerEnds
  <2>2. Delivered' = Delivered
    BY <1>1, <2>1 DEF Delivered
  <2>3. charged' = images + Unclaimed' + lost'
    BY <1>1, <1>2, <1>3, <2>1, <2>2 DEF Unclaimed
  <2> QED
    BY <1>1, <2>3, RoundPaid
<1> QED
  BY <1>4, <1>5

\* An image goes from its worker into the channel, or is lost.
LEMMA WorkerSendsPaid ==
  ASSUME ImageInv, PaidInv, NEW t \in Tokens, WorkerSends(t) PROVE PaidInv'
<1> DEFINE r == [token |-> t, outcome |-> worker[t]]
<1>1. /\ worker[t] \in Outcomes /\ stage = "collect" /\ ~edit
      /\ worker \in [Tokens -> Outcomes \cup {"none", "running", "over"}]
      /\ resultCh \in Seq(Results) /\ r \in Results /\ r.outcome = worker[t]
      /\ worker' = [worker EXCEPT ![t] = "over"]
      /\ UNCHANGED <<edit, stage, images, winner, charged>>
  BY DEF WorkerSends, ImageInv, RoundInv, ImageTypeOK, Outcomes, Results, PaidInv
<1>2. /\ IsFiniteSet(Delivered) /\ Cardinality(Delivered) \in Nat
      /\ IsFiniteSet(Offered) /\ Cardinality(Offered) \in Nat
  BY CountsTyped DEF ImageInv
<1>3. /\ charged \in Nat /\ images \in Nat /\ lost \in Nat
      /\ charged = images + Unclaimed + lost
  BY <1>1, ImageAssumption DEF ImageInv, ImageTypeOK, PaidInv
<1>4. Delivered' = Delivered \ {t} /\ (t \in Delivered <=> worker[t] = "ok")
  BY <1>1 DEF Delivered
<1>5. Cardinality(Delivered') = IF worker[t] = "ok" THEN Cardinality(Delivered) - 1
                                ELSE Cardinality(Delivered)
  BY <1>2, <1>4, FS_RemoveElement
<1>6. CASE resultCh' = Append(resultCh, r) /\ UNCHANGED lost
  <2> HIDE DEF r
  <2> DEFINE place == Len(resultCh) + 1
  <2>1. /\ DOMAIN resultCh = 1..Len(resultCh) /\ Len(resultCh) \in Nat
        /\ DOMAIN resultCh' = 1..place /\ resultCh'[place] = r
        /\ \A i \in 1..Len(resultCh) : resultCh'[i] = resultCh[i]
    <3>1. Append(resultCh, r) \in Seq(Results)
      BY <1>1, AppendProperties
    <3> QED
      BY <1>1, <1>6, <3>1, AppendProperties, LenProperties
  <2>2. place \notin Offered
    BY <2>1 DEF Offered
  <2>3. DOMAIN resultCh' = DOMAIN resultCh \cup {place} /\ place \notin DOMAIN resultCh
    BY <2>1
  <2> HIDE DEF place
  <2>4. Offered' = IF worker[t] = "ok" THEN Offered \cup {place} ELSE Offered
    BY <1>1, <2>1, <2>3 DEF Offered
  <2>5. Cardinality(Offered') = IF worker[t] = "ok" THEN Cardinality(Offered) + 1
                                ELSE Cardinality(Offered)
    BY <1>2, <2>2, <2>4, FS_AddElement
  <2>6. charged' = images + Unclaimed' + lost'
    BY <1>1, <1>2, <1>3, <1>5, <1>6, <2>5 DEF Unclaimed
  <2> QED
    BY <1>1, <2>6, RoundPaid
<1>7. CASE UNCHANGED resultCh /\ lost' = IF worker[t] = "ok" THEN lost + 1 ELSE lost
  <2>1. Offered' = Offered
    BY <1>7 DEF Offered
  <2>2. Unclaimed' = IF worker[t] = "ok" THEN Unclaimed - 1 ELSE Unclaimed
    BY <1>1, <1>2, <1>5, <2>1 DEF Unclaimed
  <2>3. Unclaimed \in Nat
    BY CountsTyped DEF ImageInv
  <2>4. charged' = images + Unclaimed' + lost'
    BY <1>1, <1>3, <1>7, <2>2, <2>3
  <2> QED
    BY <1>1, <2>4, RoundPaid
<1> QED
  BY <1>6, <1>7 DEF WorkerSends

\* What the channel still offers when its first result is taken.
LEMMA OfferedTail ==
  ASSUME ImageTypeOK, resultCh # << >>, resultCh' = Tail(resultCh)
  PROVE  Cardinality(Offered') = IF resultCh[1].outcome = "ok" THEN Cardinality(Offered) - 1
                                 ELSE Cardinality(Offered)
<1>1. resultCh \in Seq(Results)
  BY ResultsTyped
<1>2. /\ DOMAIN resultCh = 1..Len(resultCh) /\ Len(resultCh) \in Nat /\ Len(resultCh) >= 1
      /\ DOMAIN resultCh' = 1..(Len(resultCh) - 1)
      /\ \A i \in 1..(Len(resultCh) - 1) : resultCh'[i] = resultCh[i + 1]
  BY <1>1
<1> DEFINE up == [i \in Offered' |-> i + 1]
<1>3. IsFiniteSet(Offered) /\ IsFiniteSet(Offered \ {1})
  BY CountsTyped, FS_RemoveElement
<1>4. ASSUME NEW j \in Offered \ {1} PROVE j - 1 \in Offered' /\ up[j - 1] = j
  <2>1. j \in 1..Len(resultCh) /\ j # 1 /\ resultCh[j].outcome = "ok"
    BY <1>2 DEF Offered
  <2>2. j - 1 \in 1..(Len(resultCh) - 1) /\ (j - 1) + 1 = j
    BY <1>2, <2>1
  <2>3. j - 1 \in Offered'
    BY <1>2, <2>1, <2>2 DEF Offered
  <2> QED
    BY <2>2, <2>3
<1>5. ASSUME NEW i \in Offered' PROVE i \in Int /\ i + 1 \in Offered \ {1}
  <2>1. i \in 1..(Len(resultCh) - 1) /\ resultCh'[i].outcome = "ok"
    BY <1>2 DEF Offered
  <2>2. i + 1 \in 1..Len(resultCh) /\ i + 1 # 1
    BY <1>2, <2>1
  <2> QED
    BY <1>2, <2>1, <2>2 DEF Offered
<1>6. up \in Injection(Offered', Offered \ {1})
  <2>1. up \in [Offered' -> Offered \ {1}]
    BY <1>5
  <2>2. ASSUME NEW i \in Offered', NEW j \in Offered', up[i] = up[j] PROVE i = j
    <3>1. i \in Int /\ j \in Int /\ i + 1 = j + 1
      BY <1>5, <2>2
    <3> QED
      BY <3>1
  <2> QED
    BY <2>1, <2>2 DEF Injection, IsInjective
<1>7. up \in Surjection(Offered', Offered \ {1})
  <2>1. up \in [Offered' -> Offered \ {1}]
    BY <1>5
  <2> QED
    BY <1>4, <2>1 DEF Surjection
<1>8. Cardinality(Offered') = Cardinality(Offered \ {1})
  BY <1>3, <1>6, <1>7, FS_Injection
<1>9. 1 \in Offered <=> resultCh[1].outcome = "ok"
  BY <1>2 DEF Offered
<1> QED
  BY <1>3, <1>8, <1>9, FS_RemoveElement

\* An image goes from the channel to the winner, or is lost.
LEMMA CollectPaid == ASSUME ImageInv, PaidInv, Collect PROVE PaidInv'
<1>1. /\ stage = "collect" /\ ~edit /\ resultCh # << >> /\ resultCh' = Tail(resultCh)
      /\ resultCh \in Seq(Results)
      /\ UNCHANGED <<edit, stage, images, worker, charged>>
  BY ResultsTyped DEF Collect, Collected, PaidInv, ImageInv
<1>2. PICK r \in Results : r = Head(resultCh) /\ r = resultCh[1]
  BY <1>1
<1>3. Delivered' = Delivered
  BY <1>1 DEF Delivered
<1>4. Cardinality(Offered') = IF r.outcome = "ok" THEN Cardinality(Offered) - 1
                              ELSE Cardinality(Offered)
  BY <1>1, <1>2, OfferedTail DEF ImageInv
<1>5. Cardinality(Delivered) \in Nat /\ Cardinality(Offered) \in Nat
  BY CountsTyped DEF ImageInv
<1>6. /\ charged \in Nat /\ images \in Nat /\ lost \in Nat
      /\ charged = images + Unclaimed + lost
  BY <1>1, ImageAssumption DEF ImageInv, ImageTypeOK, PaidInv
<1>7. r.token \in Tokens /\ r.token # NoToken
  BY ImageAssumption DEF Results
<1>8. \/ r.outcome = "ok" /\ winner = NoToken /\ winner' = r.token /\ lost' = lost
      \/ r.outcome = "ok" /\ winner # NoToken /\ winner' = winner /\ lost' = lost + 1
      \/ r.outcome # "ok" /\ winner' = winner /\ lost' = lost
  BY <1>2 DEF Collect
<1>9. CASE r.outcome = "ok" /\ winner # NoToken
  <2>1. Unclaimed' = Unclaimed - 1 /\ lost' = lost + 1
    BY <1>3, <1>4, <1>5, <1>8, <1>9 DEF Unclaimed
  <2>2. Unclaimed \in Nat
    BY CountsTyped DEF ImageInv
  <2>3. charged' = images + Unclaimed' + lost'
    BY <1>1, <1>6, <2>1, <2>2
  <2> QED
    BY <1>1, <2>3, RoundPaid
<1>10. CASE ~(r.outcome = "ok" /\ winner # NoToken)
  <2>1. Unclaimed' = Unclaimed /\ lost' = lost
    BY <1>3, <1>4, <1>5, <1>7, <1>8, <1>10 DEF Unclaimed
  <2>2. charged' = images + Unclaimed' + lost'
    BY <1>1, <1>6, <2>1
  <2> QED
    BY <1>1, <2>2, RoundPaid
<1> QED
  BY <1>9, <1>10

\* Every image a generation answers with was charged exactly once, and the other charges
\* are those of parallel attempts that came second or too late; an edit is charged at most
\* once for a call, and never gives an image for nothing.
THEOREM ImagesArePaid == ImageSpec => []Paid
<1>1. ImageInit => ImageInv /\ PaidInv
  BY ImageStarts, PaidStarts
<1>2. (ImageInv /\ PaidInv) /\ [ImageNext]_imageVars => (ImageInv /\ PaidInv)'
  <2> SUFFICES ASSUME ImageInv, PaidInv, [ImageNext]_imageVars PROVE ImageInv' /\ PaidInv'
    OBVIOUS
  <2>1. ImageInv'
    BY ImageKeeps
  <2>2. CASE EditStep
    BY <2>1, <2>2, QuietPaid, FetchPaid, CallPaid DEF EditStep
  <2>3. CASE RequestStep
    BY <2>1, <2>2, <2>3, QuietPaid, RecoverPaid, CollectPaid, RoundWonPaid, ChargePaid DEF RequestStep
  <2>4. ASSUME NEW t \in Tokens, WorkerStep(t) PROVE PaidInv'
    BY <2>4, WorkerSendsPaid, WorkerEndsPaid DEF WorkerStep
  <2>5. CASE Leave \/ \E t \in Tokens : OthersConsume(t)
    BY <2>1, <2>5, QuietPaid
  <2>6. CASE UNCHANGED imageVars
    <3>1. UNCHANGED <<edit, stage, images, calls, urls, worker, resultCh, winner, charged, lost>>
      BY <2>6 DEF imageVars, round, ledger
    <3>2. calls' >= calls
      BY <3>1, CallsArePositive DEF ImageInv, ImageTypeOK
    <3>3. stage' = stage
      BY <2>6 DEF imageVars
    <3> QED
      BY <2>1, <3>1, <3>2, <3>3, PaidStill DEF PaidInv
  <2> QED
    BY <2>1, <2>3, <2>4, <2>5, <2>6 DEF ImageNext
<1>3. ImageInv /\ PaidInv => Paid
  <2> SUFFICES ASSUME ImageInv, PaidInv PROVE Paid
    OBVIOUS
  <2>1. calls \in 0..CallsNeeded /\ CallsNeeded \in Nat /\ charged \in Nat
    BY CallsArePositive DEF ImageInv, ImageTypeOK
  <2> QED
    BY <2>1 DEF Paid, PaidInv
<1> QED
  BY <1>1, <1>2, <1>3, PTL DEF ImageSpec
=============================================================================
