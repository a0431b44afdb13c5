---------------------------- MODULE UsageBuffer ----------------------------
(***************************************************************************)
(* The usage buffer: requests append a record each, the flush loop takes   *)
(* them all and inserts them in one transaction, puts them back at the     *)
(* front when the insert fails, and is stopped by the shutdown after one   *)
(* last flush.  Records are numbered in the order they are appended.       *)
(***************************************************************************)
EXTENDS Integers, Sequences, Functions

CONSTANTS MaxSize,     \* maxUsageBufferSize
          MaxRecords   \* bound on the records of a behaviour

ASSUME UsageAssumption == MaxSize \in Nat \ {0} /\ MaxRecords \in Nat

VARIABLES
  buf,       \* b.buf
  batch,     \* the records a flush has taken and not yet inserted
  loop,      \* the flush loop: "waiting" in its select, "inserting", "done"
  stopping,  \* b.stopCh is closed
  final,     \* the flush under way is the last one
  stored,    \* the usage log table
  n,         \* history: how many records were appended
  before,    \* history: how many of them before the last flush
  failed     \* history: the last insert failed

vars == <<buf, batch, loop, stopping, final, stored, n, before, failed>>

Records == 1..MaxRecords

TypeOK ==
  /\ buf \in Seq(Records) /\ Len(buf) <= MaxSize
  /\ batch \in Seq(Records) /\ Len(batch) <= MaxSize
  /\ batch # <<>> <=> loop = "inserting"
  /\ loop \in {"waiting", "inserting", "done"}
  /\ stopping \in BOOLEAN /\ final \in BOOLEAN /\ (final => stopping)
  /\ stored \in Seq(Records)
  /\ n \in 0..MaxRecords /\ before \in 0..n
  /\ failed \in BOOLEAN

Init == /\ buf = <<>> /\ batch = <<>> /\ stored = <<>>
        /\ loop = "waiting" /\ stopping = FALSE /\ final = FALSE
        /\ n = 0 /\ before = 0 /\ failed = FALSE
-----------------------------------------------------------------------------
\* Mutant of Record: a full buffer refuses the record.
RecordRefused ==
  /\ n < MaxRecords
  /\ n' = n + 1
  /\ buf' = IF Len(buf) >= MaxSize THEN buf ELSE Append(buf, n + 1)
  /\ UNCHANGED <<batch, loop, stopping, final, stored, before, failed>>

\* A request appends a record; a full buffer drops its oldest.
Record ==
  /\ n < MaxRecords
  /\ n' = n + 1
  /\ buf' = Append(IF Len(buf) >= MaxSize THEN Tail(buf) ELSE buf, n + 1)
  /\ UNCHANGED <<batch, loop, stopping, final, stored, before, failed>>

\* flush takes the whole buffer.
Take == /\ loop = "waiting" /\ buf # <<>>
        /\ batch' = buf /\ buf' = <<>>
        /\ loop' = "inserting"

\* Mutant of TickerFires: only a full buffer is flushed.
FlushWhenFull == /\ Len(buf) = MaxSize /\ Take
                 /\ UNCHANGED <<stopping, final, stored, n, before, failed>>

TickerFires == Take /\ UNCHANGED <<stopping, final, stored, n, before, failed>>

Stop == /\ ~stopping
        /\ stopping' = TRUE
        /\ UNCHANGED <<buf, batch, loop, final, stored, n, before, failed>>

\* Mutants of LastFlush: the loop returns at once; an empty buffer is waited for.
LastFlushSkipped ==
  /\ loop = "waiting" /\ stopping
  /\ loop' = "done" /\ before' = n /\ failed' = FALSE
  /\ UNCHANGED <<buf, batch, final, stopping, stored, n>>
LastFlushWaits ==
  /\ stopping /\ Take
  /\ final' = TRUE /\ before' = n
  /\ UNCHANGED <<stopping, stored, n, failed>>

\* The select may prefer a tick, but not for ever.
LastFlush ==
  /\ loop = "waiting" /\ stopping
  /\ before' = n
  /\ IF buf = <<>>
       THEN loop' = "done" /\ failed' = FALSE /\ UNCHANGED <<buf, batch, final>>
       ELSE Take /\ final' = TRUE /\ UNCHANGED failed
  /\ UNCHANGED <<stopping, stored, n>>

Flushed == /\ batch' = <<>>
           /\ loop' = IF final THEN "done" ELSE "waiting"
           /\ UNCHANGED <<stopping, final, n, before>>

Insert == /\ loop = "inserting"
          /\ stored' = stored \o batch
          /\ failed' = FALSE
          /\ Flushed
          /\ UNCHANGED buf

\* Mutant of Requeue: the records go to the back.
RequeueAtBack(old, new) ==
  LET all == new \o old IN
  SubSeq(all, IF Len(all) > MaxSize THEN Len(all) - MaxSize + 1 ELSE 1, Len(all))

\* The records of a failed insert go before those that came meanwhile; the
\* oldest are dropped.
Requeue(old, new) ==
  LET all == old \o new IN
  SubSeq(all, IF Len(all) > MaxSize THEN Len(all) - MaxSize + 1 ELSE 1, Len(all))

\* The transaction is rolled back.
InsertFails == /\ loop = "inserting"
               /\ buf' = Requeue(batch, buf)
               /\ failed' = TRUE
               /\ Flushed
               /\ UNCHANGED stored

Next == Record \/ TickerFires \/ Stop \/ LastFlush \/ Insert \/ InsertFails

Spec == Init /\ [][Next]_vars

\* The ticker runs; a select of Go chooses among what is ready at random; an
\* insert returns; the database does not fail for ever.
FairSpec == /\ Spec
            /\ WF_vars(TickerFires) /\ SF_vars(LastFlush)
            /\ WF_vars(Insert \/ InsertFails) /\ SF_vars(Insert)
-----------------------------------------------------------------------------
Line == stored \o batch \o buf

\* The table, the batch and the buffer hold the records in the order of their
\* requests, and none twice, however often inserts fail.
InOrder == \A i, j \in DOMAIN Line : i < j => Line[i] < Line[j]

\* What is dropped is never one of the newest maxUsageBufferSize records, even
\* when a full batch comes back to a full buffer.
RecentKept == \A k \in 1..n : k > n - MaxSize => k \in Range(Line)

\* Stop returns after a flush of all that was recorded before it, unless that
\* insert failed; only what requests record later is left in the buffer.
StopDrains == loop = "done" /\ ~failed => \A k \in Range(buf) : k > before

\* Every record leaves the buffer, for the table or because newer ones need its
\* place, unless the loop ends first.
RecordsLeave == \A k \in Records :
  k \in Range(buf) \union Range(batch) ~>
    k \notin Range(buf) \union Range(batch) \/ loop = "done"

=============================================================================
