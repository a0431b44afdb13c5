-------------------------- MODULE BackgroundProofs --------------------------
(* Proofs about the usage buffer, the shutdown it is part of, and the        *)
(* refresh loop, for any sizes, requests, workers and callers.               *)
EXTENDS Shutdown, CFRefresh, FiniteSetTheorems, SequenceTheorems, TLAPS

---------------------------------------------------------------------------
(* The usage buffer.  What makes InOrder and RecentKept inductive is that    *)
(* the buffer holds the last records without a gap, and that records are     *)
(* missing between the batch and the buffer only while the buffer is full.   *)

Contiguous == \A i \in 1..Len(buf) : buf[i] = n - Len(buf) + i

BatchBefore ==
    \A i \in 1..Len(batch) :
        /\ batch[i] = batch[1] + i - 1
        /\ batch[i] <= n - Len(buf)

GapOnlyWhenFull ==
    batch # <<>> /\ Len(buf) < MaxSize => batch[Len(batch)] = n - Len(buf)

StoredBefore ==
    /\ \A i, j \in 1..Len(stored) : i < j => stored[i] < stored[j]
    /\ \A i \in 1..Len(stored) : stored[i] <= n - Len(buf)
    /\ batch # <<>> => \A i \in 1..Len(stored) : stored[i] < batch[1]

(* A record among the last MaxSize is in one of the three. *)
Held(k) ==
    \/ \E i \in 1..Len(stored) : stored[i] = k
    \/ \E i \in 1..Len(batch) : batch[i] = k
    \/ \E i \in 1..Len(buf) : buf[i] = k

RecentHeld == \A k \in 1..n : k > n - MaxSize => Held(k)

FinalFlush ==
    /\ final => loop # "waiting"
    /\ final /\ loop = "inserting" => \A i \in 1..Len(buf) : buf[i] > before
    /\ loop = "done" /\ ~failed => \A i \in 1..Len(buf) : buf[i] > before
    /\ loop = "done" => stopping

Buffer == Contiguous /\ BatchBefore /\ GapOnlyWhenFull /\ StoredBefore /\ RecentHeld /\ FinalFlush
UsageInv == TypeOK /\ Buffer

(* What the length and the entries of the sequences of records are.          *)
LEMMA Lengths ==
  ASSUME TypeOK
  PROVE  /\ n \in Int /\ before \in Int /\ MaxSize \in Nat /\ MaxSize > 0
         /\ Len(buf) \in Nat /\ Len(batch) \in Nat /\ Len(stored) \in Nat
         /\ Len(buf) <= MaxSize /\ Len(batch) <= MaxSize
         /\ \A i \in 1..Len(buf) : buf[i] \in Nat
         /\ \A i \in 1..Len(batch) : batch[i] \in Nat
         /\ \A i \in 1..Len(stored) : stored[i] \in Nat
<1>1. Records \subseteq Nat
  BY UsageAssumption DEF Records
<1>2. buf \in Seq(Records) /\ batch \in Seq(Records) /\ stored \in Seq(Records)
  BY DEF TypeOK
<1>3. Len(buf) \in Nat /\ Len(batch) \in Nat /\ Len(stored) \in Nat
  BY <1>2, LenProperties
<1>4. /\ \A i \in 1..Len(buf) : buf[i] \in Records
      /\ \A i \in 1..Len(batch) : batch[i] \in Records
      /\ \A i \in 1..Len(stored) : stored[i] \in Records
  BY <1>2, ElementOfSeq
<1>5. n \in Int /\ before \in Int /\ MaxSize \in Nat /\ MaxSize > 0
      /\ Len(buf) <= MaxSize /\ Len(batch) <= MaxSize
  BY UsageAssumption DEF TypeOK
<1> QED
  BY <1>1, <1>3, <1>4, <1>5

LEMMA UsageInit == Init => UsageInv
<1> SUFFICES ASSUME Init PROVE UsageInv
  OBVIOUS
<1>1. <<>> \in Seq(Records) /\ Len(<<>>) = 0
  BY EmptySeq
<1>2. TypeOK
  <2>1. buf \in Seq(Records) /\ batch \in Seq(Records) /\ stored \in Seq(Records)
        /\ Len(buf) = 0 /\ Len(batch) = 0 /\ batch = <<>>
    BY <1>1 DEF Init
  <2>2. loop = "waiting" /\ stopping = FALSE /\ final = FALSE /\ n = 0 /\ before = 0
        /\ failed = FALSE /\ MaxSize >= 0 /\ n \in 0..MaxRecords /\ before \in 0..n
    BY UsageAssumption DEF Init
  <2> QED
    BY <2>1, <2>2 DEF TypeOK
<1>3. Buffer
  <2>1. n = 0 /\ Len(buf) = 0 /\ Len(batch) = 0 /\ Len(stored) = 0 /\ batch = <<>>
    BY <1>1 DEF Init
  <2>2. Contiguous /\ BatchBefore /\ GapOnlyWhenFull /\ StoredBefore /\ RecentHeld
    BY <2>1 DEF Contiguous, BatchBefore, GapOnlyWhenFull, StoredBefore, RecentHeld
  <2>3. FinalFlush
    BY DEF Init, FinalFlush
  <2> QED
    BY <2>2, <2>3 DEF Buffer
<1> QED
  BY <1>2, <1>3 DEF UsageInv

(* What is left of a buffer that makes room for a record.                    *)
LEMMA Room ==
  ASSUME TypeOK,
         NEW kept, kept = IF Len(buf) >= MaxSize THEN Tail(buf) ELSE buf
  PROVE  /\ kept \in Seq(Records) /\ Len(kept) \in Nat
         /\ Len(kept) = IF Len(buf) >= MaxSize THEN Len(buf) - 1 ELSE Len(buf)
         /\ \A i \in 1..Len(kept) : kept[i] = buf[i + Len(buf) - Len(kept)]
<1>1. buf \in Seq(Records) /\ Len(buf) \in Nat
  BY LenProperties DEF TypeOK
<1>2. CASE Len(buf) >= MaxSize
  <2>1. buf # <<>>
    BY <1>2, EmptySeq, UsageAssumption
  <2>2. Tail(buf) \in Seq(Records) /\ Len(Tail(buf)) = Len(buf) - 1
        /\ \A i \in 1..Len(Tail(buf)) : Tail(buf)[i] = buf[i + 1]
    BY <2>1, <1>1, HeadTailProperties
  <2>3. Len(Tail(buf)) \in Nat
    BY <2>2, LenProperties
  <2> QED
    BY <2>2, <2>3, <1>1, <1>2
<1>3. CASE ~(Len(buf) >= MaxSize)
  BY <1>3, <1>1
<1> QED
  BY <1>2, <1>3

LEMMA RecordKeeps == UsageInv /\ Record => UsageInv'
<1> SUFFICES ASSUME UsageInv, Record PROVE UsageInv'
  OBVIOUS
<1> USE DEF UsageInv
<1> DEFINE kept == IF Len(buf) >= MaxSize THEN Tail(buf) ELSE buf
<1>0. /\ n \in Int /\ before \in Int /\ MaxSize \in Nat /\ MaxSize > 0
      /\ Len(buf) \in Nat /\ Len(batch) \in Nat /\ Len(stored) \in Nat
      /\ Len(buf) <= MaxSize /\ Len(batch) <= MaxSize
      /\ \A i \in 1..Len(buf) : buf[i] \in Nat
      /\ \A i \in 1..Len(batch) : batch[i] \in Nat
      /\ \A i \in 1..Len(stored) : stored[i] \in Nat
  BY Lengths
<1>1. /\ kept \in Seq(Records) /\ Len(kept) \in Nat
      /\ Len(kept) = IF Len(buf) >= MaxSize THEN Len(buf) - 1 ELSE Len(buf)
      /\ \A i \in 1..Len(kept) : kept[i] = buf[i + Len(buf) - Len(kept)]
  BY Room
<1>2. n' = n + 1 /\ n' \in Records /\ n' \in 0..MaxRecords
      /\ UNCHANGED <<batch, loop, stopping, final, stored, before, failed>>
  BY UsageAssumption DEF Record, TypeOK, Records
<1>3. buf' = Append(kept, n + 1) /\ buf' \in Seq(Records) /\ Len(buf') = Len(kept) + 1
      /\ \A i \in 1..Len(buf') : buf'[i] = IF i <= Len(kept) THEN kept[i] ELSE n + 1
  <2>1. buf' = Append(kept, n + 1)
    BY DEF Record
  <2> HIDE DEF kept
  <2> QED
    BY <2>1, <1>1, <1>2, AppendProperties
<1> HIDE DEF kept
<1>n. /\ n \in Int /\ n' = n + 1 /\ Len(buf) \in Int /\ Len(kept) \in Int
      /\ Len(buf') = Len(kept) + 1 /\ Len(buf) <= MaxSize /\ MaxSize \in Int
      /\ Len(kept) = IF Len(buf) >= MaxSize THEN Len(buf) - 1 ELSE Len(buf)
  BY <1>0, <1>1, <1>2, <1>3
<1>4. TypeOK'
  <2>1. Len(buf') <= MaxSize
    BY <1>0, <1>1, <1>3
  <2> QED
    BY <2>1, <1>2, <1>3 DEF TypeOK
<1>5. \A i \in 1..Len(buf) : buf[i] = n - Len(buf) + i
  BY DEF Buffer, Contiguous
<1>6. Contiguous'
  <2> SUFFICES ASSUME NEW i \in 1..Len(buf') PROVE buf'[i] = n' - Len(buf') + i
    BY DEF Contiguous
  <2>1. CASE i <= Len(kept)
    <3>1. i \in 1..Len(kept) /\ i + Len(buf) - Len(kept) \in 1..Len(buf)
      BY <2>1, <1>0, <1>1
    <3>2. kept[i] = n - Len(buf) + (i + Len(buf) - Len(kept))
      BY <3>1, <1>1, <1>5
    <3>3. buf'[i] = kept[i] /\ i \in Int
      BY <2>1, <1>3
    <3> QED
      BY <3>2, <3>3, <1>n
  <2>2. CASE i > Len(kept)
    BY <2>2, <1>0, <1>1, <1>2, <1>3
  <2> QED
    BY <2>1, <2>2, <1>1
<1>7. n' - Len(buf') \in Int /\ n - Len(buf) \in Int /\ n' - Len(buf') >= n - Len(buf)
      /\ (Len(buf') < MaxSize => n' - Len(buf') = n - Len(buf) /\ Len(buf) < MaxSize)
  <2>1. CASE Len(buf) >= MaxSize
    BY <2>1, <1>n
  <2>2. CASE ~(Len(buf) >= MaxSize)
    BY <2>2, <1>n
  <2> QED
    BY <2>1, <2>2
<1>8. BatchBefore'
  BY <1>0, <1>2, <1>7 DEF Buffer, BatchBefore
<1>9. StoredBefore'
  BY <1>0, <1>2, <1>7 DEF Buffer, StoredBefore
<1>10. GapOnlyWhenFull'
  BY <1>2, <1>7 DEF Buffer, GapOnlyWhenFull
<1>11. RecentHeld'
  <2> SUFFICES ASSUME NEW k \in 1..n', k > n' - MaxSize PROVE Held(k)'
    BY DEF RecentHeld
  <2>1. CASE k > n' - Len(buf')
    <3> DEFINE i == k - (n' - Len(buf'))
    <3>1. i \in 1..Len(buf') /\ n' - Len(buf') + i = k
      BY <2>1, <1>0, <1>1, <1>2, <1>3
    <3>2. buf'[i] = k
      BY <3>1, <1>6 DEF Contiguous
    <3> QED
      BY <3>1, <3>2 DEF Held
  <2>2. CASE k <= n' - Len(buf')
    <3>1. k \in 1..n /\ k > n - MaxSize /\ k <= n - Len(buf)
      BY <2>2, <1>0, <1>1, <1>2, <1>3
    <3>2. Held(k)
      BY <3>1 DEF Buffer, RecentHeld
    <3>3. ~ \E i \in 1..Len(buf) : buf[i] = k
      BY <3>1, <1>0, <1>5
    <3> QED
      BY <3>2, <3>3, <1>2 DEF Held
  <2> QED
    BY <2>1, <2>2, <1>0, <1>1, <1>2, <1>3
<1>12. FinalFlush'
  <2>1. ASSUME \A i \in 1..Len(buf) : buf[i] > before
        PROVE  \A i \in 1..Len(buf') : buf'[i] > before'
    <3> SUFFICES ASSUME NEW i \in 1..Len(buf') PROVE buf'[i] > before'
      OBVIOUS
    <3>1. CASE i <= Len(kept)
      <4>1. i \in 1..Len(kept) /\ i + Len(buf) - Len(kept) \in 1..Len(buf)
        BY <3>1, <1>0, <1>1
      <4> QED
        BY <4>1, <3>1, <2>1, <1>1, <1>2, <1>3
    <3>2. CASE i > Len(kept)
      <4>1. before <= n
        BY DEF TypeOK
      <4> QED
        BY <4>1, <3>2, <1>0, <1>1, <1>2, <1>3
    <3> QED
      BY <3>1, <3>2, <1>1
  <2>2. /\ final => loop # "waiting"
        /\ final /\ loop = "inserting" => \A i \in 1..Len(buf) : buf[i] > before
        /\ loop = "done" /\ ~failed => \A i \in 1..Len(buf) : buf[i] > before
        /\ loop = "done" => stopping
    BY DEF Buffer, FinalFlush
  <2> QED
    BY <2>1, <2>2, <1>2 DEF FinalFlush
<1> QED
  BY <1>4, <1>6, <1>8, <1>9, <1>10, <1>11, <1>12 DEF Buffer

(* Taking the buffer, by the ticker or for the last time.                    *)
LEMMA TakeKeeps ==
  ASSUME UsageInv, Take, UNCHANGED <<stopping, stored, n>>,
         \/ UNCHANGED <<final, before, failed>>
         \/ stopping /\ final' = TRUE /\ before' = n /\ UNCHANGED failed
  PROVE  UsageInv'
<1> USE DEF UsageInv
<1>0. /\ n \in Int /\ before \in Int /\ MaxSize \in Nat /\ MaxSize > 0
      /\ Len(buf) \in Nat /\ Len(batch) \in Nat /\ Len(stored) \in Nat
      /\ Len(buf) <= MaxSize /\ Len(batch) <= MaxSize
      /\ \A i \in 1..Len(buf) : buf[i] \in Nat
      /\ \A i \in 1..Len(batch) : batch[i] \in Nat
      /\ \A i \in 1..Len(stored) : stored[i] \in Nat
  BY Lengths
<1>1. batch' = buf /\ buf' = <<>> /\ buf # <<>> /\ Len(buf') = 0 /\ loop = "waiting"
      /\ loop' = "inserting" /\ Len(buf) > 0 /\ batch = <<>> /\ Len(batch) = 0
      /\ buf' \in Seq(Records) /\ batch' \in Seq(Records)
  <2>1. buf \in Seq(Records) /\ (loop = "waiting" => batch = <<>>)
    BY DEF TypeOK
  <2>2. <<>> \in Seq(Records) /\ Len(<<>>) = 0 /\ (buf # <<>> => Len(buf) > 0)
    BY <2>1, EmptySeq
  <2> QED
    BY <2>1, <2>2 DEF Take
<1>2. TypeOK'
  <2>1. Len(batch') <= MaxSize /\ Len(buf') <= MaxSize /\ before' \in 0..n
    BY <1>0, <1>1 DEF TypeOK
  <2>2. stored' \in Seq(Records) /\ n' \in 0..MaxRecords /\ n' = n
    BY DEF TypeOK
  <2>3. stopping' \in BOOLEAN /\ final' \in BOOLEAN /\ (final' => stopping')
        /\ failed' \in BOOLEAN
    <3>1. stopping' = stopping /\ failed' = failed /\ (final' = final \/ (final' = TRUE /\ stopping))
      BY SMT
    <3>2. stopping \in BOOLEAN /\ failed \in BOOLEAN /\ final \in BOOLEAN /\ (final => stopping)
      BY DEF TypeOK
    <3>3. CASE final' = final
      BY <3>1, <3>2, <3>3
    <3>4. CASE final' = TRUE /\ stopping
      <4>1. final' \in BOOLEAN /\ stopping' \in BOOLEAN /\ failed' \in BOOLEAN
        BY <3>1, <3>2, <3>4
      <4>2. stopping'
        BY <3>1, <3>4
      <4> QED
        BY <4>1, <4>2
    <3> QED
      BY <3>1, <3>3, <3>4
  <2> QED
    BY <2>1, <2>2, <2>3, <1>1 DEF TypeOK
<1>3. \A i \in 1..Len(buf) : buf[i] = n - Len(buf) + i
  BY DEF Buffer, Contiguous
<1>4. Contiguous' /\ BatchBefore' /\ GapOnlyWhenFull'
  <2>1. buf[1] = n - Len(buf) + 1 /\ buf[Len(buf)] = n
    BY <1>0, <1>1, <1>3
  <2>2. \A i \in 1..Len(buf) : buf[i] = buf[1] + i - 1 /\ buf[i] <= n
    BY <1>0, <1>3, <2>1
  <2> QED
    BY <1>0, <1>1, <2>1, <2>2 DEF Contiguous, BatchBefore, GapOnlyWhenFull
<1>5. StoredBefore'
  <2>1. buf[1] = n - Len(buf) + 1
    BY <1>0, <1>1, <1>3
  <2>2. \A i \in 1..Len(stored) : stored[i] <= n - Len(buf)
    BY DEF Buffer, StoredBefore
  <2>3. \A i \in 1..Len(stored) : stored[i] <= n /\ stored[i] < buf[1]
    BY <2>1, <2>2, <1>0
  <2>4. \A i, j \in 1..Len(stored) : i < j => stored[i] < stored[j]
    BY DEF Buffer, StoredBefore
  <2> QED
    BY <2>3, <2>4, <1>0, <1>1 DEF StoredBefore
<1>6. RecentHeld'
  BY <1>1 DEF Buffer, RecentHeld, Held
<1>7. FinalFlush'
  BY <1>1 DEF Buffer, FinalFlush
<1> QED
  BY <1>2, <1>4, <1>5, <1>6, <1>7 DEF Buffer

LEMMA InsertKeeps == UsageInv /\ Insert => UsageInv'
<1> SUFFICES ASSUME UsageInv, Insert PROVE UsageInv'
  OBVIOUS
<1> USE DEF UsageInv
<1>0. /\ n \in Int /\ before \in Int /\ MaxSize \in Nat /\ MaxSize > 0
      /\ Len(buf) \in Nat /\ Len(batch) \in Nat /\ Len(stored) \in Nat
      /\ Len(buf) <= MaxSize /\ Len(batch) <= MaxSize
      /\ \A i \in 1..Len(buf) : buf[i] \in Nat
      /\ \A i \in 1..Len(batch) : batch[i] \in Nat
      /\ \A i \in 1..Len(stored) : stored[i] \in Nat
  BY Lengths
<1>1. /\ loop = "inserting" /\ stored' = stored \o batch /\ failed' = FALSE /\ batch' = <<>>
      /\ loop' = (IF final THEN "done" ELSE "waiting")
      /\ UNCHANGED <<buf, stopping, final, n, before>>
  BY DEF Insert, Flushed
<1>2. /\ stored' \in Seq(Records) /\ Len(stored') = Len(stored) + Len(batch)
      /\ \A i \in 1..Len(stored') :
            stored'[i] = IF i <= Len(stored) THEN stored[i] ELSE batch[i - Len(stored)]
  <2>1. stored \in Seq(Records) /\ batch \in Seq(Records)
    BY DEF TypeOK
  <2> QED
    BY <2>1, <1>1, ConcatProperties
<1>3. <<>> \in Seq(Records) /\ Len(<<>>) = 0 /\ (batch # <<>> => Len(batch) > 0) /\ batch # <<>>
  <2>1. batch \in Seq(Records) /\ batch # <<>>
    BY <1>1 DEF TypeOK
  <2> QED
    BY <2>1, EmptySeq
<1>4. TypeOK'
  <2>1. /\ buf \in Seq(Records) /\ Len(buf) <= MaxSize
        /\ stopping \in BOOLEAN /\ final \in BOOLEAN /\ (final => stopping)
        /\ n \in 0..MaxRecords /\ before \in 0..n
    BY DEF TypeOK
  <2>2. /\ loop' \in {"waiting", "done"} /\ failed' \in BOOLEAN
        /\ UNCHANGED <<buf, stopping, final, n, before>>
    BY <2>1, <1>1
  <2>3. batch' = <<>> /\ batch' \in Seq(Records) /\ Len(batch') <= MaxSize
    BY <1>0, <1>1, <1>3
  <2> QED
    BY <2>1, <2>2, <2>3, <1>2 DEF TypeOK
<1>5. Contiguous' /\ BatchBefore' /\ GapOnlyWhenFull'
  BY <1>1, <1>3 DEF Buffer, Contiguous, BatchBefore, GapOnlyWhenFull
<1>6. StoredBefore'
  <2>1. \A i \in 1..Len(batch) : batch[i] = batch[1] + i - 1 /\ batch[i] <= n - Len(buf)
    BY DEF Buffer, BatchBefore
  <2>2. \A i \in 1..Len(stored) : stored[i] < batch[1] /\ stored[i] <= n - Len(buf)
    BY <1>3 DEF Buffer, StoredBefore
  <2>3. batch[1] \in Nat
    BY <1>0, <1>3
  <2>4. ASSUME NEW i \in 1..Len(stored'), NEW j \in 1..Len(stored'), i < j
        PROVE  stored'[i] < stored'[j]
    <3>1. CASE j <= Len(stored)
      <4>1. stored'[i] = stored[i] /\ stored'[j] = stored[j]
            /\ i \in 1..Len(stored) /\ j \in 1..Len(stored)
        BY <3>1, <2>4, <1>0, <1>2
      <4> QED
        BY <4>1, <2>4 DEF Buffer, StoredBefore
    <3>2. CASE i <= Len(stored) /\ j > Len(stored)
      <4>1. stored'[i] = stored[i] /\ i \in 1..Len(stored)
        BY <3>2, <1>0, <1>2
      <4>2. j - Len(stored) \in 1..Len(batch) /\ stored'[j] = batch[j - Len(stored)]
        BY <3>2, <1>0, <1>2
      <4>3. stored'[j] = batch[1] + (j - Len(stored)) - 1
        BY <4>2, <2>1
      <4>4. stored'[i] < batch[1] /\ stored'[i] \in Nat
        BY <4>1, <2>2, <1>0
      <4> QED
        BY <4>2, <4>3, <4>4, <2>3, <1>0
    <3>3. CASE i > Len(stored)
      <4>1. /\ i - Len(stored) \in 1..Len(batch) /\ j - Len(stored) \in 1..Len(batch)
            /\ stored'[i] = batch[i - Len(stored)] /\ stored'[j] = batch[j - Len(stored)]
        BY <3>3, <2>4, <1>0, <1>2
      <4>2. stored'[i] = batch[1] + (i - Len(stored)) - 1
            /\ stored'[j] = batch[1] + (j - Len(stored)) - 1
        BY <4>1, <2>1
      <4> QED
        BY <4>2, <2>4, <2>3, <1>0
    <3> QED
      BY <3>1, <3>2, <3>3, <1>0
  <2>5. ASSUME NEW i \in 1..Len(stored') PROVE stored'[i] <= n - Len(buf)
    <3>1. CASE i <= Len(stored)
      BY <3>1, <1>0, <1>2, <2>2
    <3>2. CASE i > Len(stored)
      <4>1. i - Len(stored) \in 1..Len(batch) /\ stored'[i] = batch[i - Len(stored)]
        BY <3>2, <1>0, <1>2
      <4> QED
        BY <4>1, <2>1
    <3> QED
      BY <3>1, <3>2, <1>0
  <2> QED
    BY <2>4, <2>5, <1>1 DEF StoredBefore
<1>7. RecentHeld'
  <2> SUFFICES ASSUME NEW k \in 1..n, Held(k) PROVE Held(k)'
    BY <1>1 DEF Buffer, RecentHeld
  <2>1. ASSUME NEW i \in 1..Len(stored), stored[i] = k PROVE Held(k)'
    <3>1. i \in 1..Len(stored') /\ stored'[i] = k
      BY <2>1, <1>0, <1>2
    <3> QED
      BY <3>1 DEF Held
  <2>2. ASSUME NEW i \in 1..Len(batch), batch[i] = k PROVE Held(k)'
    <3>1. i + Len(stored) \in 1..Len(stored') /\ stored'[i + Len(stored)] = k
      <4>1. i + Len(stored) \in 1..Len(stored') /\ ~(i + Len(stored) <= Len(stored))
            /\ (i + Len(stored)) - Len(stored) = i
        BY <1>0, <1>2
      <4>2. stored'[i + Len(stored)] = batch[(i + Len(stored)) - Len(stored)]
        BY <4>1, <1>2
      <4> QED
        BY <4>1, <4>2, <2>2
    <3> QED
      BY <3>1 DEF Held
  <2> QED
    BY <2>1, <2>2, <1>1 DEF Held
<1>8. FinalFlush'
  BY <1>1 DEF Buffer, FinalFlush, TypeOK
<1> QED
  BY <1>4, <1>5, <1>6, <1>7, <1>8 DEF Buffer

(* Entry i of two sequences one after the other.                             *)
Entry(old, new, i) == IF i <= Len(old) THEN old[i] ELSE new[i - Len(old)]

(* What Requeue makes of a batch that comes back: the last entries of both.  *)
LEMMA Requeued ==
  ASSUME NEW old \in Seq(Records), NEW new \in Seq(Records), MaxSize \in Nat, MaxSize > 0,
         NEW q, q = Requeue(old, new), NEW L, L = Len(old) + Len(new)
  PROVE  /\ L \in Nat /\ q \in Seq(Records)
         /\ Len(q) = IF L > MaxSize THEN MaxSize ELSE L
         /\ \A i \in 1..Len(q) :
               /\ i + L - Len(q) \in 1..L
               /\ q[i] = Entry(old, new, i + L - Len(q))
<1> DEFINE all == old \o new
<1>1. /\ all \in Seq(Records) /\ Len(all) = L
      /\ \A i \in 1..L : all[i] = Entry(old, new, i)
  BY ConcatProperties DEF Entry
<1>2. L \in Nat
  BY <1>1, LenProperties
<1> DEFINE first == IF L > MaxSize THEN L - MaxSize + 1 ELSE 1
<1>3. first \in Int /\ first >= 1 /\ L - first + 1 = IF L > MaxSize THEN MaxSize ELSE L
  <2>1. CASE L > MaxSize
    BY <2>1, <1>2
  <2>2. CASE ~(L > MaxSize)
    BY <2>2, <1>2
  <2> QED
    BY <2>1, <2>2
<1>4. q = SubSeq(all, first, L)
  BY <1>1 DEF Requeue
<1> HIDE DEF all
<1>5. \A i \in first..L : all[i] \in Records
  <2>1. \A i \in 1..L : all[i] \in Records
    BY <1>1, ElementOfSeq
  <2> HIDE DEF first
  <2>2. \A i \in first..L : i \in 1..L
    BY <1>2, <1>3
  <2> QED
    BY <2>1, <2>2
<1> HIDE DEF first
<1>6. /\ q \in Seq(Records)
      /\ Len(q) = IF first <= L THEN L - first + 1 ELSE 0
      /\ \A i \in 1..L - first + 1 : q[i] = all[first + i - 1]
  BY <1>2, <1>3, <1>4, <1>5, SubSeqProperties
<1>7. Len(q) = L - first + 1
  <2>1. L - first + 1 >= 0
    BY <1>2, <1>3
  <2> QED
    BY <2>1, <1>2, <1>3, <1>6
<1>8. ASSUME NEW i \in 1..Len(q)
      PROVE  i + L - Len(q) \in 1..L /\ q[i] = Entry(old, new, i + L - Len(q))
  <2>1. i \in 1..L - first + 1 /\ i + L - Len(q) = first + i - 1 /\ first + i - 1 \in 1..L
    BY <1>2, <1>3, <1>7
  <2> QED
    BY <2>1, <1>1, <1>6
<1> QED
  BY <1>1, <1>2, <1>3, <1>6, <1>7, <1>8

LEMMA InsertFailsKeeps == UsageInv /\ InsertFails => UsageInv'
<1> SUFFICES ASSUME UsageInv, InsertFails PROVE UsageInv'
  OBVIOUS
<1> USE DEF UsageInv
<1>0. /\ n \in Int /\ before \in Int /\ MaxSize \in Nat /\ MaxSize > 0
      /\ Len(buf) \in Nat /\ Len(batch) \in Nat /\ Len(stored) \in Nat
      /\ Len(buf) <= MaxSize /\ Len(batch) <= MaxSize
      /\ \A i \in 1..Len(buf) : buf[i] \in Nat
      /\ \A i \in 1..Len(batch) : batch[i] \in Nat
      /\ \A i \in 1..Len(stored) : stored[i] \in Nat
  BY Lengths
<1> DEFINE all(i) == Entry(batch, buf, i)
           L == Len(batch) + Len(buf)
<1>1. /\ loop = "inserting" /\ buf' = Requeue(batch, buf) /\ failed' = TRUE /\ batch' = <<>>
      /\ loop' = (IF final THEN "done" ELSE "waiting")
      /\ UNCHANGED <<stored, stopping, final, n, before>>
  BY DEF InsertFails, Flushed
<1>2. buf \in Seq(Records) /\ batch \in Seq(Records) /\ batch # <<>>
  BY <1>1 DEF TypeOK
<1>3. <<>> \in Seq(Records) /\ Len(<<>>) = 0 /\ Len(batch) > 0
  BY <1>2, EmptySeq
<1>l. L = Len(batch) + Len(buf)
  OBVIOUS
<1> HIDE DEF all, L
<1>4. /\ L \in Nat /\ buf' \in Seq(Records)
      /\ Len(buf') = IF L > MaxSize THEN MaxSize ELSE L
      /\ \A i \in 1..Len(buf') : i + L - Len(buf') \in 1..L /\ buf'[i] = all(i + L - Len(buf'))
      /\ \A i \in 1..L : all(i) = IF i <= Len(batch) THEN batch[i] ELSE buf[i - Len(batch)]
  <2>1. MaxSize \in Nat /\ MaxSize > 0 /\ buf' = Requeue(batch, buf)
    BY <1>0, <1>1
  <2>2. /\ L \in Nat /\ buf' \in Seq(Records)
        /\ Len(buf') = IF L > MaxSize THEN MaxSize ELSE L
        /\ \A i \in 1..Len(buf') :
              /\ i + L - Len(buf') \in 1..L
              /\ buf'[i] = Entry(batch, buf, i + L - Len(buf'))
    BY <2>1, <1>2, <1>l, Requeued
  <2> QED
    BY <2>2 DEF all, Entry
<1>5. TypeOK'
  <2>1. /\ stopping \in BOOLEAN /\ final \in BOOLEAN /\ (final => stopping)
        /\ n \in 0..MaxRecords /\ before \in 0..n /\ stored \in Seq(Records)
    BY DEF TypeOK
  <2>2. /\ loop' \in {"waiting", "done"} /\ failed' \in BOOLEAN
        /\ UNCHANGED <<stored, stopping, final, n, before>>
    BY <2>1, <1>1
  <2>3. batch' = <<>> /\ batch' \in Seq(Records) /\ Len(batch') <= MaxSize
        /\ buf' \in Seq(Records) /\ Len(buf') <= MaxSize
    BY <1>0, <1>1, <1>3, <1>4
  <2> QED
    BY <2>1, <2>2, <2>3 DEF TypeOK
<1>6. /\ \A i \in 1..Len(batch) : batch[i] = batch[1] + i - 1
      /\ \A i \in 1..Len(buf) : buf[i] = n - Len(buf) + i
      /\ Len(buf) < MaxSize => batch[1] = n - L + 1
  <2>1. /\ \A i \in 1..Len(batch) : batch[i] = batch[1] + i - 1
        /\ \A i \in 1..Len(buf) : buf[i] = n - Len(buf) + i
        /\ Len(buf) < MaxSize => batch[Len(batch)] = n - Len(buf)
    BY <1>2 DEF Buffer, BatchBefore, Contiguous, GapOnlyWhenFull
  <2>2. Len(batch) \in 1..Len(batch) /\ batch[1] \in Nat
    BY <1>0, <1>3
  <2>3. batch[Len(batch)] = batch[1] + Len(batch) - 1
    BY <2>1, <2>2
  <2> DEFINE b == batch[1]
             k == Len(batch)
             m == Len(buf)
  <2>4. b \in Int /\ k \in Int /\ m \in Int /\ n \in Int /\ L = k + m
    BY <2>2, <1>0, <1>l
  <2>5. m < MaxSize => b + k - 1 = n - m
    BY <2>1, <2>3
  <2> HIDE DEF b, k, m
  <2>6. m < MaxSize => b = n - L + 1
    BY <2>4, <2>5
  <2> QED
    BY <2>1, <2>6 DEF b, m
<1>n. L \in Int /\ Len(buf) \in Int /\ Len(batch) \in Int /\ MaxSize \in Int /\ n \in Int
      /\ Len(batch) > 0 /\ Len(buf) <= MaxSize /\ L = Len(batch) + Len(buf) /\ Len(buf') \in Int
      /\ (L > MaxSize => Len(buf') = MaxSize) /\ (L <= MaxSize => Len(buf') = L)
  BY <1>0, <1>3, <1>4, <1>l
<1>7. ASSUME Len(buf) < MaxSize, NEW i \in 1..L PROVE all(i) = n - L + i
  <2>1. CASE i <= Len(batch)
    <3>1. i \in 1..Len(batch) /\ all(i) = batch[i]
      BY <2>1, <1>n, <1>4
    <3>2. all(i) = (n - L + 1) + i - 1
      BY <3>1, <1>6, <1>7
    <3> QED
      BY <3>2, <1>n
  <2>2. CASE i > Len(batch)
    <3>1. i - Len(batch) \in 1..Len(buf) /\ all(i) = buf[i - Len(batch)]
      BY <2>2, <1>n, <1>4
    <3>2. all(i) = n - Len(buf) + (i - Len(batch))
      BY <3>1, <1>6
    <3> QED
      BY <3>2, <1>n
  <2> QED
    BY <2>1, <2>2, <1>n
<1>8. Contiguous'
  <2> SUFFICES ASSUME NEW i \in 1..Len(buf') PROVE buf'[i] = n' - Len(buf') + i
    BY DEF Contiguous
  <2>1. i + L - Len(buf') \in 1..L /\ buf'[i] = all(i + L - Len(buf')) /\ n' = n
    BY <1>1, <1>4
  <2>2. CASE Len(buf) < MaxSize
    <3>1. all(i + L - Len(buf')) = n - L + (i + L - Len(buf'))
      BY <2>1, <2>2, <1>7
    <3> QED
      BY <3>1, <2>1, <1>n
  <2>3. CASE Len(buf) = MaxSize
    <3>1. Len(buf') = MaxSize /\ i + L - Len(buf') = Len(batch) + i /\ i \in 1..Len(buf)
      BY <2>3, <1>n
    <3>2. Len(batch) + i \in 1..L /\ ~(Len(batch) + i <= Len(batch))
          /\ (Len(batch) + i) - Len(batch) = i
      BY <3>1, <1>n
    <3>3. buf'[i] = buf[i]
      BY <3>1, <3>2, <2>1, <1>4
    <3> QED
      BY <3>1, <3>3, <2>1, <2>3, <1>6
  <2> QED
    BY <2>2, <2>3, <1>n
<1>9. BatchBefore' /\ GapOnlyWhenFull'
  BY <1>1, <1>3 DEF BatchBefore, GapOnlyWhenFull
<1>10. /\ \A i \in 1..Len(stored) : stored[i] \in Nat /\ stored[i] < batch[1] /\ stored[i] <= n - Len(buf)
       /\ \A i, j \in 1..Len(stored) : i < j => stored[i] < stored[j]
  BY <1>0, <1>2 DEF Buffer, StoredBefore
<1>11. StoredBefore'
  <2>1. ASSUME NEW i \in 1..Len(stored) PROVE stored[i] <= n - Len(buf')
    <3>1. stored[i] \in Nat /\ stored[i] < batch[1] /\ stored[i] <= n - Len(buf)
      BY <1>10
    <3>2. CASE Len(buf) < MaxSize
      <4>1. stored[i] < n - L + 1
        BY <3>1, <3>2, <1>6
      <4> QED
        BY <4>1, <3>1, <1>n
    <3>3. CASE Len(buf) = MaxSize
      BY <3>1, <3>3, <1>n
    <3> QED
      BY <3>2, <3>3, <1>n
  <2> QED
    BY <2>1, <1>1, <1>10 DEF StoredBefore
<1>12. RecentHeld'
  <2> SUFFICES ASSUME NEW k \in 1..n, k > n - MaxSize PROVE Held(k)'
    BY <1>1 DEF RecentHeld
  <2>1. CASE k > n - Len(buf')
    <3> DEFINE i == k - (n - Len(buf'))
    <3>1. i \in 1..Len(buf') /\ n - Len(buf') + i = k
      <4>1. k <= n
        BY <1>n
      <4> QED
        BY <4>1, <2>1, <1>n
    <3>2. buf'[i] = k
      BY <3>1, <1>1, <1>8 DEF Contiguous
    <3> QED
      BY <3>1, <3>2 DEF Held
  <2>2. CASE k <= n - Len(buf')
    <3>1. L <= MaxSize /\ Len(buf') = L /\ Len(buf) < MaxSize /\ k <= n - L
      BY <2>2, <1>n
    <3>2. Held(k)
      BY DEF Buffer, RecentHeld
    <3>3. batch[1] = n - L + 1
      BY <3>1, <1>6
    <3>4. ASSUME NEW i \in 1..Len(batch) PROVE batch[i] # k
      <4>1. batch[i] = (n - L + 1) + i - 1
        BY <3>3, <1>6
      <4> QED
        BY <4>1, <3>1, <1>n
    <3>5. ASSUME NEW i \in 1..Len(buf) PROVE buf[i] # k
      <4>1. buf[i] = n - Len(buf) + i
        BY <1>6
      <4> QED
        BY <4>1, <3>1, <1>n
    <3> QED
      BY <3>2, <3>4, <3>5, <1>1 DEF Held
  <2> QED
    BY <2>1, <2>2, <1>n
<1>13. FinalFlush'
  <2>1. final => stopping
    BY DEF TypeOK
  <2> QED
    BY <2>1, <1>1 DEF FinalFlush
<1> QED
  BY <1>5, <1>8, <1>9, <1>11, <1>12, <1>13 DEF Buffer

LEMMA LastFlushKeeps == UsageInv /\ LastFlush => UsageInv'
<1> SUFFICES ASSUME UsageInv, LastFlush PROVE UsageInv'
  OBVIOUS
<1>1. CASE buf = <<>>
  <2>1. /\ stopping /\ before' = n /\ loop' = "done" /\ failed' = FALSE /\ loop = "waiting"
        /\ UNCHANGED <<buf, batch, final, stopping, stored, n>>
    BY <1>1 DEF LastFlush
  <2>2. TypeOK' /\ Len(buf) = 0
    <3>1. n \in 0..n
      BY UsageAssumption DEF UsageInv, TypeOK
    <3> QED
      BY <3>1, <2>1, <1>1, EmptySeq DEF UsageInv, TypeOK
  <2>3. Buffer'
    <3>1. Contiguous' /\ BatchBefore' /\ GapOnlyWhenFull' /\ StoredBefore' /\ RecentHeld'
      BY <2>1 DEF UsageInv, Buffer, Contiguous, BatchBefore, GapOnlyWhenFull, StoredBefore,
         RecentHeld, Held
    <3>2. FinalFlush'
      BY <2>1, <2>2 DEF UsageInv, Buffer, FinalFlush
    <3> QED
      BY <3>1, <3>2 DEF Buffer
  <2> QED
    BY <2>2, <2>3 DEF UsageInv
<1>2. CASE buf # <<>>
  <2>1. /\ Take /\ final' = TRUE /\ before' = n /\ stopping
        /\ UNCHANGED <<stopping, stored, n, failed>>
    BY <1>2 DEF LastFlush
  <2> QED
    BY <2>1, TakeKeeps
<1> QED
  BY <1>1, <1>2

LEMMA StopKeeps == UsageInv /\ Stop => UsageInv'
<1> SUFFICES ASSUME UsageInv, Stop PROVE UsageInv'
  OBVIOUS
<1>1. stopping' = TRUE /\ UNCHANGED <<buf, batch, loop, final, stored, n, before, failed>>
  BY DEF Stop
<1>2. TypeOK'
  BY <1>1 DEF UsageInv, TypeOK
<1>3. Buffer'
  BY <1>1 DEF UsageInv, Buffer, Contiguous, BatchBefore, GapOnlyWhenFull, StoredBefore,
     RecentHeld, Held, FinalFlush
<1> QED
  BY <1>2, <1>3 DEF UsageInv

LEMMA UsageNext == UsageInv /\ [Next]_vars => UsageInv'
<1> SUFFICES ASSUME UsageInv, [Next]_vars PROVE UsageInv'
  OBVIOUS
<1>1. CASE Record
  BY <1>1, RecordKeeps
<1>2. CASE TickerFires
  BY <1>2, TakeKeeps DEF TickerFires
<1>3. CASE Stop
  BY <1>3, StopKeeps
<1>4. CASE LastFlush
  BY <1>4, LastFlushKeeps
<1>5. CASE Insert
  BY <1>5, InsertKeeps
<1>6. CASE InsertFails
  BY <1>6, InsertFailsKeeps
<1>7. CASE UNCHANGED vars
  <2>1. UNCHANGED <<buf, batch, loop, stopping, final, stored, n, before, failed>>
    BY <1>7 DEF vars
  <2>2. TypeOK'
    BY <2>1 DEF UsageInv, TypeOK
  <2>3. Buffer'
    BY <2>1 DEF UsageInv, Buffer, Contiguous, BatchBefore, GapOnlyWhenFull, StoredBefore,
       RecentHeld, Held, FinalFlush
  <2> QED
    BY <2>2, <2>3 DEF UsageInv
<1> QED
  BY <1>1, <1>2, <1>3, <1>4, <1>5, <1>6, <1>7 DEF Next

(* The entries of the table, the batch and the buffer in one line.           *)
LEMMA LineEntries ==
  ASSUME TypeOK
  PROVE  /\ DOMAIN Line = 1..Len(stored) + Len(batch) + Len(buf)
         /\ \A i \in 1..Len(stored) : Line[i] = stored[i]
         /\ \A i \in 1..Len(batch) : Line[Len(stored) + i] = batch[i]
         /\ \A i \in 1..Len(buf) : Line[Len(stored) + Len(batch) + i] = buf[i]
<1>0. /\ n \in Int /\ before \in Int /\ MaxSize \in Nat /\ MaxSize > 0
      /\ Len(buf) \in Nat /\ Len(batch) \in Nat /\ Len(stored) \in Nat
      /\ Len(buf) <= MaxSize /\ Len(batch) <= MaxSize
      /\ \A i \in 1..Len(buf) : buf[i] \in Nat
      /\ \A i \in 1..Len(batch) : batch[i] \in Nat
      /\ \A i \in 1..Len(stored) : stored[i] \in Nat
  BY Lengths
<1> DEFINE front == stored \o batch
<1>1. stored \in Seq(Records) /\ batch \in Seq(Records) /\ buf \in Seq(Records)
  BY DEF TypeOK
<1>2. /\ front \in Seq(Records) /\ Len(front) = Len(stored) + Len(batch)
      /\ \A i \in 1..Len(stored) + Len(batch) :
            front[i] = IF i <= Len(stored) THEN stored[i] ELSE batch[i - Len(stored)]
  BY <1>1, ConcatProperties
<1>3. Line = front \o buf
  BY DEF Line
<1> HIDE DEF front
<1>4. /\ Line \in Seq(Records) /\ Len(Line) = Len(front) + Len(buf)
      /\ \A i \in 1..Len(front) + Len(buf) :
            Line[i] = IF i <= Len(front) THEN front[i] ELSE buf[i - Len(front)]
  <2>1. front \in Seq(Records) /\ buf \in Seq(Records)
    BY <1>1, <1>2
  <2>2. /\ front \o buf \in Seq(Records) /\ Len(front \o buf) = Len(front) + Len(buf)
        /\ \A i \in 1..Len(front) + Len(buf) :
              (front \o buf)[i] = IF i <= Len(front) THEN front[i] ELSE buf[i - Len(front)]
    BY <2>1, ConcatProperties
  <2> QED
    BY <2>2, <1>3, Zenon
<1>5. DOMAIN Line = 1..Len(stored) + Len(batch) + Len(buf)
  BY <1>2, <1>4, LenProperties
<1>6. ASSUME NEW i \in 1..Len(stored) PROVE Line[i] = stored[i]
  <2>1. i \in 1..Len(stored) + Len(batch) /\ i \in 1..Len(front) + Len(buf)
        /\ i <= Len(front) /\ i <= Len(stored)
    BY <1>0, <1>2
  <2> QED
    BY <2>1, <1>2, <1>4
<1>7. ASSUME NEW i \in 1..Len(batch) PROVE Line[Len(stored) + i] = batch[i]
  <2> DEFINE j == Len(stored) + i
  <2>1. j \in 1..Len(stored) + Len(batch) /\ j \in 1..Len(front) + Len(buf)
        /\ j <= Len(front) /\ ~(j <= Len(stored)) /\ j - Len(stored) = i
    BY <1>0, <1>2
  <2> HIDE DEF j
  <2>2. Line[j] = batch[i]
    BY <2>1, <1>2, <1>4
  <2> QED
    BY <2>2 DEF j
<1>8. ASSUME NEW i \in 1..Len(buf) PROVE Line[Len(stored) + Len(batch) + i] = buf[i]
  <2> DEFINE j == Len(stored) + Len(batch) + i
  <2>1. j \in 1..Len(front) + Len(buf) /\ ~(j <= Len(front)) /\ j - Len(front) = i
    BY <1>0, <1>2
  <2> HIDE DEF j
  <2>2. Line[j] = buf[i]
    BY <2>1, <1>4
  <2> QED
    BY <2>2 DEF j
<1> QED
  BY <1>5, <1>6, <1>7, <1>8

LEMMA UsageInOrder == UsageInv => InOrder
<1> SUFFICES ASSUME UsageInv, NEW i \in DOMAIN Line, NEW j \in DOMAIN Line, i < j
             PROVE  Line[i] < Line[j]
  BY DEF InOrder
<1> USE DEF UsageInv
<1>0. /\ n \in Int /\ before \in Int /\ MaxSize \in Nat /\ MaxSize > 0
      /\ Len(buf) \in Nat /\ Len(batch) \in Nat /\ Len(stored) \in Nat
      /\ Len(buf) <= MaxSize /\ Len(batch) <= MaxSize
      /\ \A k \in 1..Len(buf) : buf[k] \in Nat
      /\ \A k \in 1..Len(batch) : batch[k] \in Nat
      /\ \A k \in 1..Len(stored) : stored[k] \in Nat
  BY Lengths
<1> DEFINE s == Len(stored)
           b == Len(batch)
<1>1. /\ DOMAIN Line = 1..s + b + Len(buf)
      /\ \A k \in 1..s : Line[k] = stored[k]
      /\ \A k \in 1..b : Line[s + k] = batch[k]
      /\ \A k \in 1..Len(buf) : Line[s + b + k] = buf[k]
  BY LineEntries
<1>2. s \in Nat /\ b \in Nat /\ i \in Int /\ j \in Int /\ n \in Int /\ Len(buf) \in Nat
      /\ 1 <= i /\ i < j /\ j <= s + b + Len(buf)
  BY <1>0, <1>1
<1>3. /\ \A k, l \in 1..s : k < l => stored[k] < stored[l]
      /\ \A k \in 1..s : stored[k] <= n - Len(buf) /\ stored[k] \in Nat
      /\ b > 0 => \A k \in 1..s : stored[k] < batch[1]
  <2>1. b > 0 => batch # <<>>
    BY EmptySeq
  <2> QED
    BY <2>1, <1>0 DEF Buffer, StoredBefore
<1>4. /\ \A k \in 1..b : batch[k] = batch[1] + k - 1 /\ batch[k] <= n - Len(buf) /\ batch[k] \in Nat
      /\ b > 0 => batch[1] \in Nat
  BY <1>0 DEF Buffer, BatchBefore
<1>5. \A k \in 1..Len(buf) : buf[k] = n - Len(buf) + k
  BY DEF Buffer, Contiguous
<1> HIDE DEF s, b
<1>6. CASE j <= s
  <2>1. i \in 1..s /\ j \in 1..s
    BY <1>2, <1>6
  <2> QED
    BY <2>1, <1>1, <1>2, <1>3
<1>7. CASE s < j /\ j <= s + b
  <2>1. j - s \in 1..b /\ s + (j - s) = j /\ b > 0
    BY <1>2, <1>7
  <2>2. Line[j] = batch[1] + (j - s) - 1 /\ batch[1] \in Nat
    BY <2>1, <1>1, <1>4
  <2>3. CASE i <= s
    <3>1. i \in 1..s
      BY <2>3, <1>2
    <3>2. Line[i] < batch[1] /\ Line[i] \in Nat
      BY <3>1, <2>1, <1>1, <1>3
    <3>3. Line[j] >= batch[1] /\ Line[j] \in Int
      BY <2>1, <2>2
    <3> QED
      BY <2>2, <3>2, <3>3
  <2>4. CASE i > s
    <3>1. i - s \in 1..b /\ s + (i - s) = i
      BY <2>4, <1>2, <1>7
    <3>2. Line[i] = batch[1] + (i - s) - 1
      BY <3>1, <1>1, <1>4
    <3> QED
      BY <3>2, <2>2, <1>2
  <2> QED
    BY <2>3, <2>4, <1>2
<1>8. CASE j > s + b
  <2>1. j - (s + b) \in 1..Len(buf) /\ s + b + (j - (s + b)) = j
    BY <1>2, <1>8
  <2>2. Line[j] = n - Len(buf) + (j - (s + b))
    BY <2>1, <1>1, <1>5
  <2>3. CASE i <= s
    <3>1. i \in 1..s
      BY <2>3, <1>2
    <3>2. Line[i] <= n - Len(buf) /\ Line[i] \in Nat
      BY <3>1, <1>1, <1>3
    <3> QED
      BY <3>2, <2>1, <2>2, <1>2
  <2>4. CASE s < i /\ i <= s + b
    <3>1. i - s \in 1..b /\ s + (i - s) = i
      BY <2>4, <1>2
    <3>2. Line[i] <= n - Len(buf) /\ Line[i] \in Nat
      BY <3>1, <1>1, <1>4
    <3> QED
      BY <3>2, <2>1, <2>2, <1>2
  <2>5. CASE i > s + b
    <3>1. i - (s + b) \in 1..Len(buf) /\ s + b + (i - (s + b)) = i
      BY <2>5, <1>2
    <3>2. Line[i] = n - Len(buf) + (i - (s + b))
      BY <3>1, <1>1, <1>5
    <3> QED
      BY <3>2, <2>2, <1>2
  <2> QED
    BY <2>3, <2>4, <2>5, <1>2
<1> QED
  BY <1>6, <1>7, <1>8, <1>2

LEMMA UsageRecentKept == UsageInv => RecentKept
<1> SUFFICES ASSUME UsageInv, NEW k \in 1..n, k > n - MaxSize
             PROVE  \E i \in DOMAIN Line : Line[i] = k
  BY DEF RecentKept, Range
<1> USE DEF UsageInv
<1>0. /\ n \in Int /\ before \in Int /\ MaxSize \in Nat /\ MaxSize > 0
      /\ Len(buf) \in Nat /\ Len(batch) \in Nat /\ Len(stored) \in Nat
      /\ Len(buf) <= MaxSize /\ Len(batch) <= MaxSize
      /\ \A i \in 1..Len(buf) : buf[i] \in Nat
      /\ \A i \in 1..Len(batch) : batch[i] \in Nat
      /\ \A i \in 1..Len(stored) : stored[i] \in Nat
  BY Lengths
<1>1. /\ DOMAIN Line = 1..Len(stored) + Len(batch) + Len(buf)
      /\ \A i \in 1..Len(stored) : Line[i] = stored[i]
      /\ \A i \in 1..Len(batch) : Line[Len(stored) + i] = batch[i]
      /\ \A i \in 1..Len(buf) : Line[Len(stored) + Len(batch) + i] = buf[i]
  BY LineEntries
<1>2. Held(k)
  BY DEF Buffer, RecentHeld
<1>3. ASSUME NEW i \in 1..Len(stored), stored[i] = k PROVE i \in DOMAIN Line /\ Line[i] = k
  BY <1>0, <1>1, <1>3
<1>4. ASSUME NEW i \in 1..Len(batch), batch[i] = k
      PROVE  Len(stored) + i \in DOMAIN Line /\ Line[Len(stored) + i] = k
  BY <1>0, <1>1, <1>4
<1>5. ASSUME NEW i \in 1..Len(buf), buf[i] = k
      PROVE  Len(stored) + Len(batch) + i \in DOMAIN Line /\ Line[Len(stored) + Len(batch) + i] = k
  BY <1>0, <1>1, <1>5
<1> QED
  BY <1>2, <1>3, <1>4, <1>5 DEF Held

LEMMA UsageStopDrains == UsageInv => StopDrains
<1> SUFFICES ASSUME UsageInv, loop = "done" /\ ~failed, NEW k \in Range(buf) PROVE k > before
  BY DEF StopDrains
<1>1. buf \in Seq(Records)
  BY DEF UsageInv, TypeOK
<1>2. PICK i \in 1..Len(buf) : k = buf[i]
  BY <1>1, LenProperties DEF Range
<1> QED
  BY <1>2 DEF UsageInv, Buffer, FinalFlush

(* In every behaviour of the buffer, of any size: the table, the batch and   *)
(* the buffer hold the records in the order of their requests, none twice;   *)
(* the newest are never the dropped ones; and Stop comes after a flush of    *)
(* all that was recorded before it.                                          *)
THEOREM UsageIsSafe == Spec => [](TypeOK /\ InOrder /\ RecentKept /\ StopDrains)
<1>1. UsageInv => TypeOK /\ InOrder /\ RecentKept /\ StopDrains
  BY UsageInOrder, UsageRecentKept, UsageStopDrains DEF UsageInv
<1> QED
  BY <1>1, UsageInit, UsageNext, PTL DEF Spec

(* Records of a failed flush go back before newer ones and none goes twice.  *)
THEOREM UsageKeepsOrder == Spec => []InOrder
BY UsageIsSafe, PTL

(* A full buffer drops the oldest records first, also after failed flushes.  *)
THEOREM UsageKeepsRecent == Spec => []RecentKept
BY UsageIsSafe, PTL

(* Stop returns after a flush of all that was recorded before it.            *)
THEOREM UsageStopFlushes == Spec => []StopDrains
BY UsageIsSafe, PTL

---------------------------------------------------------------------------
(* The shutdown.  It is the buffer with more around it: a step of the        *)
(* process is one of the buffer, or leaves it alone.                         *)

MainType ==
    /\ main \in {"serving", "draining", "refresh", "scheduler", "usage", "persister", "flush", "exited"}
    /\ flow \in [Requests -> {"new", "busy", "reported", "ended"}]
    /\ sched \in {"waiting", "launching", "joining", "done"} /\ workers \subseteq Workers
    /\ early \in BOOLEAN

TokenType ==
    /\ tok \in [Tokens -> Nat] /\ row \in [Tokens -> Nat]
    /\ Taken \subseteq dirty /\ snap \in [Taken -> Nat]
    /\ flush \in {"nobody", "persister", "main"} /\ persist \in {"waiting", "last", "done"}
    /\ dirty \subseteq Tokens

Waited == {"refresh", "scheduler", "usage", "persister", "flush", "exited"}

(* A shutdown that waited for the flows finds none that will record more.    *)
UsageDrained ==
    /\ main \in Waited /\ ~early => \A r \in Requests : flow[r] \in {"new", "ended"}
    /\ stopping => main \in {"usage", "persister", "flush", "exited"}
    /\ main \in {"persister", "flush", "exited"} => loop = "done"
    /\ (final \/ loop = "done") /\ ~early => before = n

(* A flush carries the last change of a token it took, unless the change     *)
(* came under it; the row of a token without a mark has its last change,     *)
(* unless it came under a flush; and main's flush took every marked token.   *)
TokensFlushed ==
    /\ flush = "nobody" => Taken = {}
    /\ \A t \in Taken \ overlap : snap[t] = tok[t]
    /\ \A t \in Tokens \ (dirty \cup overlap) : row[t] = tok[t]
    /\ main \in {"flush", "exited"} => persist = "done"
    /\ flush = "persister" => persist # "done"
    /\ flush = "main" => main = "flush"
    /\ main = "flush" => dirty \subseteq Taken \cup overlap
    /\ main = "exited" => \A t \in Tokens \ (overlap \cup unsaved) : row[t] = tok[t]

LEMMA ShutdownImplementsUsage == [ShutdownNext]_shutdownVars => [Next]_vars
<1> SUFFICES ASSUME [ShutdownNext]_shutdownVars PROVE Next \/ UNCHANGED vars
  OBVIOUS
<1>1. CASE UNCHANGED shutdownVars
  BY <1>1 DEF shutdownVars
<1>2. CASE ShutdownNext
  <2>1. ASSUME NEW r \in Requests, Accept(r) \/ Report(r) \/ RecordUsage(r)
        PROVE  Next \/ UNCHANGED vars
    BY <2>1 DEF Accept, Report, RecordUsage, Next
  <2>2. CASE UsageStep
    BY <2>2 DEF UsageStep, Next
  <2>3. ASSUME SchedScans \/ SchedStep \/ \E w \in Workers : SchedLaunches(w)
        PROVE  UNCHANGED vars
    BY <2>3 DEF SchedScans, SchedStep, SchedLaunches, SchedGivesUp, SchedJoins, WorkerEnds
  <2>4. CASE TickerChecks \/ PersisterStep \/ Signal
    BY <2>4 DEF TickerChecks, PersisterStep, PersisterReads, PersisterWrites, Signal
  <2>5. CASE MainStep
    BY <2>5 DEF MainStep, Drained, RefreshStopped, SchedStopped, UsageStopped,
       PersisterStopped, MainExits, Next
  <2> QED
    BY <1>2, <2>1, <2>2, <2>3, <2>4, <2>5 DEF ShutdownNext
<1> QED
  BY <1>1, <1>2

LEMMA MainTyped ==
  ASSUME MainType, [ShutdownNext]_shutdownVars
  PROVE  MainType'
<1>1. CASE UNCHANGED shutdownVars
  BY <1>1 DEF MainType, shutdownVars, others
<1>2. CASE ShutdownNext
  <2>1. ASSUME NEW r \in Requests, Accept(r) \/ Report(r) \/ RecordUsage(r)
        PROVE  MainType'
    BY <2>1 DEF MainType, Accept, Report, RecordUsage, others
  <2>2. CASE UsageStep /\ UNCHANGED Rest
    BY <2>2 DEF MainType, Rest, others
  <2>3. CASE SchedScans \/ SchedStep \/ \E w \in Workers : SchedLaunches(w)
    <3>1. CASE SchedScans \/ \E w \in Workers : SchedLaunches(w)
      BY <3>1 DEF MainType, SchedScans, SchedLaunches
    <3>2. CASE SchedStep
      BY <3>2 DEF MainType, SchedStep, SchedGivesUp, SchedJoins, WorkerEnds
    <3> QED
      BY <2>3, <3>1, <3>2
  <2>4. CASE TickerChecks \/ PersisterStep \/ Signal
    BY <2>4 DEF MainType, TickerChecks, PersisterStep, PersisterReads, PersisterWrites, Signal, others
  <2>5. CASE MainStep
    BY <2>5 DEF MainType, MainStep, Drained, RefreshStopped, SchedStopped, UsageStopped,
       PersisterStopped, MainExits, others
  <2> QED
    BY <1>2, <2>1, <2>2, <2>3, <2>4, <2>5 DEF ShutdownNext
<1> QED
  BY <1>1, <1>2

(* A change of a token, by whoever makes it and whatever else happens.       *)
TokenInv == TokenType /\ TokensFlushed

LEMMA ChangeKeeps ==
  ASSUME TokenInv, NEW t \in Tokens, Change(t), main # "exited", UNCHANGED main
  PROVE  TokenInv'
<1>1. /\ tok' = [tok EXCEPT ![t] = @ + 1] /\ tok' \in [Tokens -> Nat] /\ dirty' = dirty \cup {t}
      /\ UNCHANGED <<main, row, flush, snap, persist, unsaved>> /\ Taken' = Taken
  BY DEF Change, TokenInv, TokenType, Taken
<1>2. CASE t \in Taken \/ main = "flush"
  <2>1. overlap' = overlap \cup {t}
    BY <1>2 DEF Change
  <2> QED
    BY <1>1, <2>1 DEF TokenInv, TokenType, TokensFlushed
<1>3. CASE ~(t \in Taken \/ main = "flush")
  <2>1. overlap' = overlap \ {t}
    BY <1>3 DEF Change
  <2> QED
    BY <1>1, <1>3, <2>1 DEF TokenInv, TokenType, TokensFlushed
<1> QED
  BY <1>2, <1>3

LEMMA FlushKeeps ==
  ASSUME TokenInv, NEW ok \in BOOLEAN, flush # "nobody", Flushes(ok),
         \/ flush = "persister" /\ UNCHANGED main /\ persist' \in {persist, "done"}
         \/ flush = "main" /\ main' = "exited" /\ UNCHANGED persist
  PROVE  TokenInv'
<1>1. /\ flush' = "nobody" /\ snap' = <<>> /\ Taken' = {} /\ UNCHANGED tok
      /\ persist' \in {"waiting", "last", "done"}
  BY DEF Flushes, Taken, TokenInv, TokenType
<1>2. snap' \in [Taken' -> Nat]
  BY <1>1
<1>3. /\ flush = "persister" => main' \notin {"flush", "exited"}
      /\ flush = "main" => main = "flush" /\ main' = "exited" /\ persist' = "done"
  BY DEF TokenInv, TokensFlushed
<1>4. CASE ok = TRUE
  <2>1. /\ row' = [t \in Tokens |-> IF t \in Taken THEN snap[t] ELSE row[t]]
        /\ dirty' = dirty \ Taken /\ overlap' = overlap /\ unsaved' = {}
    BY <1>4 DEF Flushes
  <2>2. row' \in [Tokens -> Nat]
    BY <2>1 DEF TokenInv, TokenType
  <2>3. \A t \in Tokens \ (dirty' \cup overlap') : row'[t] = tok'[t]
    BY <1>1, <2>1 DEF TokenInv, TokenType, TokensFlushed
  <2>4. main' = "exited" => \A t \in Tokens \ overlap' : row'[t] = tok'[t]
    BY <1>1, <1>3, <2>1, <2>3 DEF TokenInv, TokenType, TokensFlushed
  <2> QED
    BY <1>1, <1>2, <1>3, <2>1, <2>2, <2>3, <2>4 DEF TokenInv, TokenType, TokensFlushed
<1>5. CASE ok = FALSE
  <2>1. row' = [t \in Tokens |-> row[t]] /\ dirty' = dirty /\ overlap' = overlap \ Taken /\ unsaved' = Taken
    BY <1>5 DEF Flushes
  <2>2. row' = row
    BY <2>1 DEF TokenInv, TokenType
  <2>3. \A t \in Tokens \ (dirty' \cup overlap') : row'[t] = tok'[t]
    BY <1>1, <2>1, <2>2 DEF TokenInv, TokenType, TokensFlushed
  <2>4. main' = "exited" => \A t \in Tokens \ (overlap' \cup unsaved') : row'[t] = tok'[t]
    BY <1>1, <1>3, <2>1, <2>2 DEF TokenInv, TokenType, TokensFlushed
  <2> QED
    BY <1>1, <1>2, <1>3, <2>1, <2>2, <2>3, <2>4 DEF TokenInv, TokenType, TokensFlushed
<1> QED
  BY <1>4, <1>5

LEMMA MainMoves ==
  ASSUME TokenInv, UNCHANGED tokens, main \notin {"flush", "exited"}, main' \notin {"flush", "exited"}
  PROVE  TokenInv'
<1>1. UNCHANGED <<tok, dirty, row, flush, snap, persist, overlap, unsaved, Taken>>
  BY DEF tokens, Taken
<1>2. flush # "main"
  BY DEF TokenInv, TokensFlushed
<1> QED
  BY <1>1, <1>2 DEF TokenInv, TokenType, TokensFlushed

LEMMA TokensKept ==
  ASSUME TokenInv, MainType, [ShutdownNext]_shutdownVars
  PROVE  TokenInv'
<1>1. ASSUME UNCHANGED <<main, tokens>> PROVE TokenInv'
  BY <1>1 DEF tokens, TokenInv, TokenType, TokensFlushed, Taken
<1>2. CASE UNCHANGED shutdownVars
  BY <1>1, <1>2 DEF shutdownVars
<1>3. CASE ShutdownNext
  <2>0. main # "exited"
    BY <1>3 DEF ShutdownNext
  <2>1. ASSUME NEW r \in Requests, Accept(r) \/ Report(r) \/ RecordUsage(r)
        PROVE  TokenInv'
    BY <2>0, <2>1, <1>1, ChangeKeeps DEF Accept, Report, RecordUsage
  <2>2. CASE UsageStep /\ UNCHANGED Rest
    BY <2>2, <1>1 DEF Rest
  <2>3. CASE SchedScans \/ SchedStep \/ \E w \in Workers : SchedLaunches(w)
    <3>1. CASE SchedScans \/ \E w \in Workers : SchedLaunches(w)
      BY <3>1, <1>1 DEF SchedScans, SchedLaunches
    <3>2. CASE SchedGivesUp \/ SchedJoins
      BY <3>2, <1>1 DEF SchedGivesUp, SchedJoins
    <3>3. ASSUME NEW w \in Workers, WorkerEnds(w) PROVE TokenInv'
      BY <3>3, <2>0, <1>1, ChangeKeeps DEF WorkerEnds
    <3> QED
      BY <2>3, <3>1, <3>2, <3>3 DEF SchedStep
  <2>4. CASE TickerChecks
    BY <2>4, <2>0, ChangeKeeps DEF TickerChecks
  <2>5. CASE PersisterReads
    <3>1. /\ persist = "waiting" /\ flush = "nobody" /\ snap' = [t \in dirty |-> tok[t]]
          /\ UNCHANGED <<main, tok, dirty, row, overlap, unsaved>> /\ Taken' = dirty
          /\ \/ flush' = "persister" /\ persist' \in {"waiting", "last"}
             \/ persist' = "done" /\ flush' = "nobody" /\ dirty = {}
      BY <2>5 DEF PersisterReads, Takes, Taken
    <3>2. main \notin {"flush", "exited"}
      BY <3>1 DEF TokenInv, TokensFlushed
    <3>3. TokenType'
      BY <3>1 DEF TokenInv, TokenType
    <3> QED
      BY <3>1, <3>2, <3>3 DEF TokenInv, TokenType, TokensFlushed
  <2>6. ASSUME NEW ok \in BOOLEAN, PersisterWrites(ok) PROVE TokenInv'
    BY <2>6, FlushKeeps DEF PersisterWrites
  <2>7. CASE Signal \/ Drained \/ RefreshStopped \/ SchedStopped \/ UsageStopped
    BY <2>7, MainMoves DEF Signal, Drained, RefreshStopped, SchedStopped, UsageStopped
  <2>8. CASE PersisterStopped
    <3>1. /\ main = "persister" /\ persist = "done" /\ main' = "flush"
          /\ snap' = [t \in dirty |-> tok[t]] /\ Taken' = dirty
          /\ UNCHANGED <<tok, dirty, row, persist, overlap, unsaved>>
          /\ flush' = IF dirty # {} THEN "main" ELSE "nobody"
      BY <2>8 DEF PersisterStopped, Takes, Taken
    <3>2. TokenType' /\ flush' \in {"main", "nobody"}
      BY <3>1 DEF TokenInv, TokenType
    <3> QED
      BY <3>1, <3>2 DEF TokenInv, TokenType, TokensFlushed
  <2>9. ASSUME NEW ok \in BOOLEAN, MainExits(ok) PROVE TokenInv'
    <3>1. CASE flush = "main"
      BY <2>9, <3>1, FlushKeeps DEF MainExits
    <3>2. CASE flush # "main"
      <4>1. main = "flush" /\ main' = "exited" /\ UNCHANGED tokens
        BY <2>9, <3>2 DEF MainExits
      <4>2. UNCHANGED <<tok, dirty, row, flush, snap, persist, overlap, unsaved, Taken>>
        BY <4>1 DEF tokens, Taken
      <4>3. flush = "nobody" /\ persist = "done" /\ Taken = {} /\ dirty \subseteq overlap
        BY <3>2, <4>1 DEF TokenInv, TokenType, TokensFlushed
      <4> QED
        BY <4>1, <4>2, <4>3 DEF TokenInv, TokenType, TokensFlushed
    <3> QED
      BY <3>1, <3>2
  <2> QED
    BY <1>3, <2>1, <2>2, <2>3, <2>4, <2>5, <2>6, <2>7, <2>8, <2>9
       DEF ShutdownNext, PersisterStep, MainStep
<1> QED
  BY <1>2, <1>3

LEMMA DrainedKept ==
  ASSUME UsageInv, MainType, UsageDrained, [ShutdownNext]_shutdownVars
  PROVE  UsageDrained'
<1> USE DEF UsageDrained, Waited
<1>0. (final => stopping) /\ (loop = "done" => stopping) /\ (final => loop # "waiting")
  BY DEF UsageInv, TypeOK, Buffer, FinalFlush
<1>1. CASE UNCHANGED shutdownVars
  BY <1>1 DEF shutdownVars, vars
<1>2. CASE ShutdownNext
  <2>1. ASSUME NEW r \in Requests, Accept(r) \/ Report(r)
        PROVE  UsageDrained'
    <3>1. CASE Accept(r)
      BY <3>1, <1>0 DEF Accept, vars
    <3>3. CASE Report(r)
      BY <3>3 DEF Report, vars, MainType
    <3> QED
      BY <2>1, <3>1, <3>3
  <2>2. ASSUME NEW r \in Requests, RecordUsage(r) PROVE UsageDrained'
    <3>1. /\ flow[r] = "reported" /\ UNCHANGED <<main, early, stopping, loop, final, before>>
          /\ flow' = [flow EXCEPT ![r] = "ended"]
      BY <2>2 DEF RecordUsage, Record
    <3>2. early \/ main \notin Waited
      BY <3>1
    <3> QED
      BY <3>1, <3>2, <1>0 DEF MainType
  <2>3. CASE UsageStep /\ UNCHANGED Rest
    <3>1. CASE TickerFires
      BY <2>3, <3>1 DEF Rest, TickerFires, Take
    <3>2. CASE LastFlush
      <4>1. stopping /\ before' = n /\ UNCHANGED <<stopping, n, main, flow, early>> /\ loop # "done"
        BY <2>3, <3>2 DEF Rest, LastFlush
      <4> QED
        BY <4>1
    <3>3. CASE Insert
      BY <2>3, <3>3 DEF Rest, Insert, Flushed
    <3>4. CASE InsertFails
      BY <2>3, <3>4 DEF Rest, InsertFails, Flushed
    <3> QED
      BY <2>3, <3>1, <3>2, <3>3, <3>4 DEF UsageStep
  <2>4. ASSUME UNCHANGED <<vars, main, flow, early>> PROVE UsageDrained'
    BY <2>4 DEF vars
  <2>5. CASE SchedScans \/ SchedStep \/ \E w \in Workers : SchedLaunches(w)
    BY <2>4, <2>5 DEF SchedScans, SchedStep, SchedLaunches, SchedGivesUp, SchedJoins, WorkerEnds
  <2>6. CASE TickerChecks \/ PersisterStep
    BY <2>4, <2>6 DEF TickerChecks, PersisterStep, PersisterReads, PersisterWrites
  <2>7. CASE Signal
    BY <2>7, <1>0 DEF Signal, vars
  <2>8. CASE MainStep
    <3>1. CASE Drained
      <4>1. /\ main = "draining" /\ main' = "refresh" /\ UNCHANGED <<vars, flow>>
            /\ ~early' => \A r \in Requests : flow[r] \in {"new", "ended"}
        <5>1. early' = \E r \in Requests : flow[r] \in {"busy", "reported"}
          BY <3>1 DEF Drained
        <5>2. \A r \in Requests : flow[r] \in {"new", "busy", "reported", "ended"}
          BY DEF MainType
        <5>3. ~early' => \A r \in Requests : flow[r] \in {"new", "ended"}
          BY <5>1, <5>2
        <5> QED
          BY <5>3, <3>1 DEF Drained
      <4> QED
        BY <4>1, <1>0 DEF vars
    <3>2. CASE RefreshStopped
      BY <3>2, <1>0 DEF RefreshStopped, vars
    <3>3. CASE SchedStopped
      BY <3>3, <1>0 DEF SchedStopped, Stop
    <3>4. CASE UsageStopped
      BY <3>4 DEF UsageStopped, vars
    <3>5. CASE PersisterStopped
      BY <3>5 DEF PersisterStopped, vars
    <3>6. ASSUME NEW ok \in BOOLEAN, MainExits(ok) PROVE UsageDrained'
      BY <3>6 DEF MainExits, vars
    <3> QED
      BY <2>8, <3>1, <3>2, <3>3, <3>4, <3>5, <3>6 DEF MainStep
  <2> QED
    BY <1>2, <2>1, <2>2, <2>3, <2>5, <2>6, <2>7, <2>8 DEF ShutdownNext
<1> QED
  BY <1>1, <1>2

ShutdownInv == UsageInv /\ MainType /\ UsageDrained /\ TokenInv

LEMMA ShutdownStarts == ShutdownInit => ShutdownInv
<1> SUFFICES ASSUME ShutdownInit PROVE ShutdownInv
  OBVIOUS
<1>1. UsageInv
  BY UsageInit DEF ShutdownInit
<1>2. MainType /\ TokenType /\ TokensFlushed
  <2>1. MainType
    BY DEF ShutdownInit, MainType
  <2>2. Taken = {} /\ snap = [t \in {} |-> 0]
    BY DEF ShutdownInit, Taken
  <2>3. TokenType
    BY <2>2 DEF ShutdownInit, TokenType
  <2>4. TokensFlushed
    BY <2>2 DEF ShutdownInit, TokensFlushed
  <2> QED
    BY <2>1, <2>3, <2>4
<1>3. UsageDrained
  BY DEF ShutdownInit, Init, UsageDrained, Waited
<1> QED
  BY <1>1, <1>2, <1>3 DEF ShutdownInv, TokenInv

LEMMA ShutdownTyped == ShutdownInv => ShutdownTypeOK
BY DEF ShutdownInv, UsageInv, MainType, TokenInv, TokenType, ShutdownTypeOK, Stages

LEMMA SavedUsage == ShutdownInv => UsageSaved
<1> SUFFICES ASSUME ShutdownInv, main = "exited", ~early, ~failed PROVE buf = <<>>
  BY DEF UsageSaved
<1>1. loop = "done" /\ before = n
  BY DEF ShutdownInv, UsageDrained
<1>2. \A i \in 1..Len(buf) : buf[i] > n
  BY <1>1 DEF ShutdownInv, UsageInv, Buffer, FinalFlush
<1>3. n \in Int /\ Len(buf) \in Nat
  BY Lengths DEF ShutdownInv, UsageInv
<1>4. Len(buf) = 0
  <2>1. SUFFICES ASSUME Len(buf) > 0 PROVE FALSE
    BY <1>3
  <2>2. Len(buf) \in 1..Len(buf) /\ buf[Len(buf)] = n - Len(buf) + Len(buf)
    BY <1>3, <2>1 DEF ShutdownInv, UsageInv, Buffer, Contiguous
  <2> QED
    BY <2>2, <1>2, <1>3
<1> QED
  BY <1>4, EmptySeq DEF ShutdownInv, UsageInv, TypeOK

(* However many requests, workers, tokens and changes there are: a process   *)
(* that ends has the changes of every token in its row, unless the last one  *)
(* came under a flush that had taken the token or main's flush failed, and   *)
(* every usage record of flows the shutdown waited for.                      *)
THEOREM ShutdownSaves == ShutdownSpec => [](ShutdownTypeOK /\ TokensSaved /\ UsageSaved)
<1>1. ShutdownInv => ShutdownTypeOK /\ TokensSaved /\ UsageSaved
  BY ShutdownTyped, SavedUsage DEF ShutdownInv, TokenInv, TokensFlushed, TokensSaved
<1>2. ShutdownInv /\ [ShutdownNext]_shutdownVars => ShutdownInv'
  BY ShutdownImplementsUsage, UsageNext, MainTyped, DrainedKept, TokensKept DEF ShutdownInv
<1> QED
  BY <1>1, <1>2, ShutdownStarts, PTL DEF ShutdownSpec

(* A process that ends has the changes of every token in its row: what an    *)
(* overlapped flush lost is the token's last change, and it stays lost       *)
(* whatever later flushes write of other tokens.                             *)
THEOREM ShutdownSavesTokens == ShutdownSpec => []TokensSaved
BY ShutdownSaves, PTL

(* A process that ends has saved the usage of the flows it waited for.       *)
THEOREM ShutdownSavesUsage == ShutdownSpec => []UsageSaved
BY ShutdownSaves, PTL

(* What the buffer promises holds in the process it is part of.              *)
THEOREM ShutdownKeepsUsage == ShutdownSpec => Spec
<1>1. ShutdownInit => Init
  BY DEF ShutdownInit
<1> QED
  BY <1>1, ShutdownImplementsUsage, PTL DEF ShutdownSpec, Spec

---------------------------------------------------------------------------
(* The refresh loop.                                                         *)

Load == burst + Cardinality(passed) + (IF slot THEN 1 ELSE 0)

(* An attempt in this tick closes the debounce for the callers still to      *)
(* come, as long as the backoff is a gap; the timer, which starts anew with  *)
(* every wait, fires once.                                                   *)
BurstInv ==
    /\ RefreshTypeOK
    /\ burst > 0 => age = 0
    /\ cfloop = "starting" => burst = 0
    /\ ~gapless =>
         /\ ~NoGap(fails)
         /\ cfloop = "waiting" /\ timer >= Interval => Load <= 1 + Cardinality(Callers)
         /\ Load <= 2 + Cardinality(Callers)

LEMMA RefreshSizes ==
  /\ MaxFails \in Nat /\ MaxAge \in Nat /\ Interval \in Nat /\ Interval > 0
  /\ IsFiniteSet(Callers)
BY RefreshAssumption

LEMMA FirstGap == ~NoGap(0)
BY RefreshAssumption DEF NoGap, Backoff

LEMMA PassedCounted ==
  ASSUME NEW S \in SUBSET Callers
  PROVE  /\ IsFiniteSet(S) /\ Cardinality(S) \in Nat /\ Cardinality(Callers) \in Nat
         /\ Cardinality(S) <= Cardinality(Callers)
BY RefreshAssumption, FS_Subset, FS_CardinalityType

(* While nothing was attempted the load is small.                            *)
LEMMA QuietLoad ==
  ASSUME RefreshTypeOK, burst = 0
  PROVE  Load \in Int /\ Load <= 1 + Cardinality(Callers)
BY PassedCounted DEF RefreshTypeOK, Load

LEMMA RefreshStarts == RefreshInit => BurstInv
<1> SUFFICES ASSUME RefreshInit PROVE BurstInv
  OBVIOUS
<1>1. RefreshTypeOK
  <2>1. MaxAge \in 0..MaxAge /\ 0 \in 0..Interval /\ 0 \in 0..MaxFails
    BY RefreshSizes
  <2> QED
    BY <2>1 DEF RefreshInit, RefreshTypeOK
<1>2. burst = 0 /\ cfloop = "starting" /\ ~NoGap(fails)
  BY FirstGap DEF RefreshInit
<1>3. Load \in Int /\ Load <= 1 + Cardinality(Callers) /\ Cardinality(Callers) \in Nat
  BY <1>1, <1>2, QuietLoad, PassedCounted
<1> QED
  BY <1>1, <1>2, <1>3 DEF BurstInv

LEMMA RefreshTyped == RefreshTypeOK /\ [RefreshNext]_refreshVars => RefreshTypeOK'
<1> SUFFICES ASSUME RefreshTypeOK, [RefreshNext]_refreshVars PROVE RefreshTypeOK'
  OBVIOUS
<1> USE DEF RefreshTypeOK, flags
<1>1. ASSUME NEW c \in Callers, TriggerPasses(c) \/ TriggerSends(c) PROVE RefreshTypeOK'
  BY <1>1 DEF TriggerPasses, TriggerSends
<1>2. CASE LoopStarts \/ LoopTakesTrigger \/ LoopTimerFires
  <2>1. /\ cfloop' \in {"waiting", "solving"} /\ age' \in {0, age}
        /\ timer' \in {0, timer} /\ burst' \in {burst, burst + 1} /\ slot' \in {slot, FALSE}
        /\ UNCHANGED <<flags, fails, passed, gapless>>
    BY <1>2 DEF LoopStarts, LoopTakesTrigger, LoopTimerFires, AttemptIfEnabled, Attempt, Wait
  <2>2. slot' \in BOOLEAN
    BY <2>1
  <2>3. burst' \in Nat
    <3>1. burst \in Nat
      OBVIOUS
    <3> QED
      BY <2>1, <3>1
  <2>4. age' \in 0..MaxAge /\ timer' \in 0..Interval
    <3>1. 0 \in 0..MaxAge /\ 0 \in 0..Interval
      BY RefreshSizes
    <3> QED
      BY <2>1, <3>1
  <2> QED
    BY <2>1, <2>2, <2>3, <2>4
<1>3. CASE LoopStops \/ SolvesNothing
  BY <1>3 DEF LoopStops, SolvesNothing
<1>4. ASSUME NEW ok \in BOOLEAN, SolveEnds(ok) PROVE RefreshTypeOK'
  <2>1. fails' \in 0..MaxFails
    BY <1>4, RefreshSizes DEF SolveEnds
  <2>2. gapless' \in BOOLEAN
    BY <1>4 DEF SolveEnds
  <2> QED
    BY <1>4, <2>1, <2>2, RefreshSizes DEF SolveEnds, Wait
<1>5. CASE Toggle
  BY <1>5 DEF Toggle
<1>6. CASE Tick
  <2>1. gapless' \in BOOLEAN
    BY <1>6 DEF Tick, NoGap
  <2> QED
    BY <1>6, <2>1, RefreshSizes DEF Tick
<1>7. CASE StopRefresh
  BY <1>7 DEF StopRefresh
<1>8. CASE UNCHANGED refreshVars
  BY <1>8 DEF refreshVars
<1> QED
  BY <1>1, <1>2, <1>3, <1>4, <1>5, <1>6, <1>7, <1>8 DEF RefreshNext, LoopStep

LEMMA BurstKept == BurstInv /\ [RefreshNext]_refreshVars => BurstInv'
<1> SUFFICES ASSUME BurstInv, [RefreshNext]_refreshVars PROVE BurstInv'
  OBVIOUS
<1> DEFINE C == Cardinality(Callers)
           one(b) == IF b THEN 1 ELSE 0
<1>1. RefreshTypeOK /\ RefreshTypeOK'
  BY RefreshTyped DEF BurstInv
<1>2. /\ C \in Nat /\ Cardinality(passed) \in Nat /\ Cardinality(passed') \in Nat
      /\ Cardinality(passed) <= C /\ Cardinality(passed') <= C
      /\ burst \in Nat /\ burst' \in Nat /\ age \in Int /\ timer \in Int
      /\ Interval \in Int /\ Interval > 0
      /\ IsFiniteSet(passed)
  BY <1>1, PassedCounted, RefreshSizes DEF RefreshTypeOK
<1>3. /\ burst > 0 => age = 0
      /\ cfloop = "starting" => burst = 0
      /\ ~gapless => /\ ~NoGap(fails)
                     /\ cfloop = "waiting" /\ timer >= Interval => Load <= 1 + C
                     /\ Load <= 2 + C
      /\ Load = burst + Cardinality(passed) + one(slot)
      /\ Load' = burst' + Cardinality(passed') + one(slot')
      /\ one(slot) \in 0..1 /\ one(slot') \in 0..1
  BY DEF BurstInv, Load
<1> HIDE DEF C
<1>4. burst' = 0 => Load' <= 1 + C
  BY <1>2, <1>3
<1>5. ASSUME /\ burst' > 0 => age' = 0
             /\ cfloop' = "starting" => burst' = 0
             /\ ~gapless' => /\ ~NoGap(fails')
                             /\ cfloop' = "waiting" /\ timer' >= Interval => Load' <= 1 + C
                             /\ Load' <= 2 + C
      PROVE  BurstInv'
  <2>1. NoGap(fails)' <=> NoGap(fails')
    BY DEF NoGap, Backoff, Doubled
  <2> QED
    BY <1>1, <1>5, <2>1 DEF BurstInv, C
<1>6. ASSUME Load' <= Load, UNCHANGED <<burst, age, cfloop, timer, fails, gapless>> PROVE BurstInv'
  <2>1. ~gapless' => ~NoGap(fails')
    BY <1>3, <1>6
  <2> QED
    BY <1>2, <1>3, <1>5, <1>6, <2>1
<1>7. ASSUME NEW c \in Callers, TriggerPasses(c) PROVE BurstInv'
  <2>1. /\ age * Cooldown >= Backoff(fails)
        /\ UNCHANGED <<burst, age, cfloop, timer, fails, gapless>>
    BY <1>7 DEF TriggerPasses
  <2>2. ~gapless' => ~NoGap(fails')
    BY <2>1, <1>3
  <2>3. ASSUME ~gapless PROVE burst = 0
    <3>1. age # 0
      <4> SUFFICES ASSUME age = 0 PROVE FALSE
        OBVIOUS
      <4>1. age * Cooldown = 0
        BY RefreshAssumption
      <4> QED
        BY <4>1, <2>1, <2>3, <1>3 DEF NoGap
    <3> QED
      BY <3>1, <1>2, <1>3
  <2> QED
    BY <2>1, <2>2, <2>3, <1>2, <1>3, <1>4, <1>5
<1>8. ASSUME NEW c \in Callers, TriggerSends(c) PROVE BurstInv'
  <2>1. c \in passed /\ passed' = passed \ {c} /\ slot' = TRUE
        /\ UNCHANGED <<burst, age, cfloop, timer, fails, gapless>>
    BY <1>8 DEF TriggerSends
  <2>2. Cardinality(passed') = Cardinality(passed) - 1
    BY <2>1, <1>2, FS_RemoveElement
  <2>3. Load' <= Load
    BY <2>1, <2>2, <1>2, <1>3
  <2> QED
    BY <2>1, <2>3, <1>6
<1>9. CASE LoopStarts \/ LoopTimerFires \/ LoopTakesTrigger
  <2>1. /\ UNCHANGED <<passed, fails, gapless>>
        /\ \/ cfloop' = "solving" /\ age' = 0 /\ (burst' = burst + 1 \/ (gapless /\ burst' = burst))
           \/ cfloop' = "waiting" /\ timer' = 0 /\ age' = age /\ burst' = burst
    BY <1>9 DEF LoopStarts, LoopTimerFires, LoopTakesTrigger, AttemptIfEnabled, Attempt, Wait
  <2>0. ~gapless' => ~NoGap(fails')
    BY <2>1, <1>3
  <2>2. burst' = burst + 1 /\ ~gapless => Load' <= 2 + C
    <3>1. CASE LoopStarts
      BY <3>1, <1>2, <1>3 DEF LoopStarts
    <3>2. CASE LoopTimerFires
      <4>1. slot' = slot /\ (~gapless => Load <= 1 + C)
        BY <3>2, <1>3 DEF LoopTimerFires
      <4> QED
        BY <4>1, <2>1, <1>2, <1>3
    <3>3. CASE LoopTakesTrigger
      <4>1. one(slot) = 1 /\ one(slot') = 0
        BY <3>3 DEF LoopTakesTrigger
      <4> QED
        BY <4>1, <2>1, <1>2, <1>3
    <3> QED
      BY <1>9, <3>1, <3>2, <3>3
  <2>3. burst' = burst /\ ~gapless => Load' <= 2 + C
    <3>1. one(slot') <= one(slot)
      BY <1>9 DEF LoopStarts, LoopTimerFires, LoopTakesTrigger
    <3> QED
      BY <3>1, <2>1, <1>2, <1>3
  <2> QED
    BY <2>0, <2>1, <2>2, <2>3, <1>2, <1>3, <1>5
<1>10. CASE LoopStops \/ SolvesNothing
  <2>1. /\ UNCHANGED <<burst, age, timer, slot, passed, fails, gapless>>
        /\ cfloop' \in {"stopped", "dead"}
    BY <1>10 DEF LoopStops, SolvesNothing
  <2>2. ~gapless' => ~NoGap(fails')
    BY <2>1, <1>3
  <2> QED
    BY <2>1, <2>2, <1>2, <1>3, <1>5
<1>11. ASSUME NEW ok \in BOOLEAN, SolveEnds(ok) PROVE BurstInv'
  <2>1. /\ UNCHANGED <<burst, age, slot, passed>> /\ cfloop' = "waiting" /\ timer' = 0
        /\ ~gapless' => ~gapless /\ ~NoGap(fails')
    BY <1>11 DEF SolveEnds, Wait
  <2> QED
    BY <2>1, <1>2, <1>3, <1>5
<1>12. CASE Toggle \/ StopRefresh \/ UNCHANGED refreshVars
  <2>1. UNCHANGED <<burst, age, cfloop, timer, slot, passed, fails, gapless>>
    BY <1>12 DEF Toggle, StopRefresh, refreshVars
  <2> QED
    BY <2>1, <1>2, <1>3, <1>6
<1>13. CASE Tick
  <2>1. burst' = 0 /\ (~gapless' => ~NoGap(fails'))
    BY <1>13 DEF Tick
  <2> QED
    BY <2>1, <1>2, <1>3, <1>4, <1>5
<1> QED
  BY <1>7, <1>8, <1>9, <1>10, <1>11, <1>12, <1>13 DEF RefreshNext, LoopStep

(* For any callers, interval, width and number of failures: one cooldown     *)
(* sees an attempt of the timer, one of a trigger that waited, and one of    *)
(* each caller that had looked before, and no more, unless the overflow left *)
(* the backoff without a gap in it.                                          *)
THEOREM RefreshBurst == RefreshSpec => [](RefreshTypeOK /\ BurstBounded)
<1>1. BurstInv => RefreshTypeOK /\ BurstBounded
  BY DEF BurstInv, Load, BurstBounded
<1> QED
  BY <1>1, RefreshStarts, BurstKept, PTL DEF RefreshSpec
=============================================================================
