-------------------------- MODULE KeyLimitsProofs --------------------------
(***************************************************************************)
(* Proofs about KeyLimits and AdminLimit, for any number of requests,      *)
(* limits and windows.                                                     *)
(***************************************************************************)
EXTENDS KeyLimits, AdminLimit, FiniteSetTheorems, TLAPS

-----------------------------------------------------------------------------
(***************************************************************************)
(* Types.                                                                  *)
(***************************************************************************)
\* There are more entries than requests: one is free for a new window.
LEMMA EntryIsFree ==
  ASSUME LimitTypeOK, current = None
  PROVE  Free # {}
<1> SUFFICES ASSUME Free = {} PROVE FALSE
  OBVIOUS
<1> DEFINE holder == [e \in Entries |-> CHOOSE r \in Checkers : req[r].at = e]
<1>1. \A e \in Entries : \E r \in Checkers : req[r].at = e
  BY LimitsAssumption DEF Free
<1>2. holder \in [Entries -> Checkers] /\ \A e \in Entries : req[holder[e]].at = e
  BY <1>1
<1> HIDE DEF holder
<1>3. Cardinality(Checkers) < Cardinality(Entries)
  BY LimitsAssumption, FS_CardinalityType
<1>4. \E x, y \in Entries : x # y /\ holder[x] = holder[y]
  BY <1>2, <1>3, LimitsAssumption, FS_PigeonHole
<1> QED
  BY <1>2, <1>4

\* The numbers among the constants.
LEMMA Numbers == /\ DailyLimit \in Nat /\ DailyLimit > 0
                 /\ RateLimit \in Nat /\ RateLimit > 0
                 /\ Window \in Nat /\ MaxTime \in Nat /\ Window \in 0..MaxTime
                 /\ MaxDays \in Nat
BY LimitsAssumption

LEMMA InitTyped == LimitInit => LimitTypeOK
<1> SUFFICES ASSUME LimitInit PROVE LimitTypeOK
  OBVIOUS
<1>1. NewEntry \in Entry
  BY Numbers DEF NewEntry, Entry
<1>2. Idle \in Request /\ Idle.at = None /\ Idle.pc \notin Holding
  BY Numbers DEF Idle, Request, Holding
<1>3. /\ entry \in [Entries -> Entry]
      /\ req \in [Checkers -> Request]
      /\ \A r \in Checkers : req[r].at # None <=> req[r].pc \in Holding
  BY <1>1, <1>2 DEF LimitInit
<1>4. looked = FALSE /\ raised = FALSE
  BY DEF LimitInit
<1>5. /\ used \in Nat /\ patch \in Nat \union {None} /\ current \in Entries \union {None}
      /\ clock \in 0..MaxTime /\ day \in 0..MaxDays
  BY Numbers DEF LimitInit
<1> QED
  BY <1>3, <1>4, <1>5 DEF LimitTypeOK

\* What a collection leaves of entries is entries.
LEMMA CollectTyped ==
  ASSUME NEW en \in [Entries -> Entry], Reclaim(en)
  PROVE  entry' \in [Entries -> Entry]
BY Numbers DEF Reclaim, Entry, NewEntry

\* Counting keeps an entry's type.
LEMMA CountedTyped ==
  ASSUME NEW e \in Entries, entry \in [Entries -> Entry]
  PROVE  /\ Counted(e) \in Entry
         /\ [Counted(e) EXCEPT !.let = @ + 1] \in Entry
         /\ Counted(e).start = entry[e].start /\ Counted(e).let = entry[e].let
         /\ Counted(e).count = IF entry[e].count > RateLimit
                                 THEN entry[e].count ELSE entry[e].count + 1
<1> DEFINE en == entry[e]
           count == IF en.count > RateLimit THEN en.count ELSE en.count + 1
<1>1. en \in Entry
  OBVIOUS
<1>2. count \in 0..RateLimit + 1
  BY <1>1, Numbers DEF Entry
<1>3. Counted(e) = [en EXCEPT !.count = count]
  BY DEF Counted
<1> HIDE DEF en, count
<1>4. Counted(e) = [start |-> en.start, count |-> count, let |-> en.let]
  BY <1>1, <1>3 DEF Entry
<1>5. en.start \in 0..MaxTime /\ en.let \in Nat
  BY <1>1 DEF Entry
<1>6. /\ Counted(e) \in Entry /\ Counted(e).start = en.start /\ Counted(e).let = en.let
      /\ Counted(e).count = count
  BY <1>2, <1>4, <1>5 DEF Entry
<1>7. [Counted(e) EXCEPT !.let = @ + 1] = [start |-> en.start, count |-> count, let |-> en.let + 1]
  BY <1>4
<1>8. [Counted(e) EXCEPT !.let = @ + 1] \in Entry
  BY <1>2, <1>5, <1>7 DEF Entry
<1> QED
  BY <1>6, <1>8 DEF en, count

\* A request that is done holds nothing.
LEMMA DoneTyped ==
  ASSUME LimitTypeOK, NEW r \in Checkers, NEW pc \in {"idle", "serving"}, Done(r, pc)
  PROVE  /\ req' \in [Checkers -> Request]
         /\ \A q \in Checkers : req'[q].at # None <=> req'[q].pc \in Holding
         /\ req'[r].pc = pc /\ req'[r].at = None
         /\ \A q \in Checkers \ {r} : req'[q] = req[q]
<1> DEFINE over == [Idle EXCEPT !.pc = pc]
<1>1. over \in Request /\ over.pc = pc /\ over.at = None /\ pc \notin Holding
  BY Numbers DEF Idle, Request, Holding
<1>2. req' = [req EXCEPT ![r] = over]
  BY DEF Done
<1> HIDE DEF over
<1> QED
  BY <1>1, <1>2 DEF LimitTypeOK

\* A request that goes on to another place with the same entry keeps the types.
LEMMA StepTyped ==
  ASSUME LimitTypeOK, NEW r \in Checkers, NEW new \in Request,
         new.at # None <=> new.pc \in Holding, req' = [req EXCEPT ![r] = new]
  PROVE  /\ req' \in [Checkers -> Request]
         /\ \A q \in Checkers : req'[q].at # None <=> req'[q].pc \in Holding
         /\ req'[r] = new
         /\ \A q \in Checkers \ {r} : req'[q] = req[q]
BY DEF LimitTypeOK

\* A request that is let through leaves its entry typed and goes on to be served.
LEMMA LetThroughTyped ==
  ASSUME LimitTypeOK, NEW r \in Checkers, NEW e \in Entries, LetThrough(r, e)
  PROVE  /\ entry' \in [Entries -> Entry]
         /\ req' \in [Checkers -> Request]
         /\ \A q \in Checkers : req'[q].at # None <=> req'[q].pc \in Holding
<1> DEFINE en == [entry EXCEPT ![e] = [Counted(e) EXCEPT !.let = @ + 1]]
<1>1. en \in [Entries -> Entry]
  BY CountedTyped DEF LimitTypeOK
<1>2. Reclaim(en) /\ Done(r, "serving")
  BY DEF LetThrough
<1> HIDE DEF en
<1> QED
  BY <1>1, <1>2, CollectTyped, DoneTyped

\* Every step of a request's check keeps the types.
LEMMA CheckTyped ==
  ASSUME LimitTypeOK, NEW r \in Checkers, Check(r)
  PROVE  LimitTypeOK'
<1> DEFINE Good == /\ entry' \in [Entries -> Entry]
                   /\ req' \in [Checkers -> Request]
                   /\ \A q \in Checkers : req'[q].at # None <=> req'[q].pc \in Holding
                   /\ current' \in Entries \union {None}
                   /\ looked' = looked /\ (looked' => current' # None)
<1> DEFINE rec == req[r]
<1>0. /\ rec \in Request /\ rec.now \in 0..MaxTime /\ rec.at \in Entries \union {None}
      /\ rec.pc \in Holding <=> rec.at \in Entries
      /\ rec.pc \in Holding <=> rec.at # None
      /\ 0 \in 0..MaxTime /\ clock \in 0..MaxTime
  BY LimitsAssumption, Numbers DEF LimitTypeOK, Request
<1>1. UNCHANGED rowVars /\ UNCHANGED clock
  BY DEF Check, ReadClock, LoadOrStore, LoadWindow, Swap, ResetCount, CountFirst, Count
<1>2. ASSUME Good PROVE LimitTypeOK'
  <2>1. looked' \in BOOLEAN
    BY <1>2 DEF LimitTypeOK
  <2> QED
    BY <1>1, <1>2, <2>1 DEF LimitTypeOK, rowVars
<1>3. CASE ReadClock(r)
  <2> DEFINE new == [rec EXCEPT !.pc = "timed", !.now = clock]
  <2>1. /\ req' = [req EXCEPT ![r] = new] /\ UNCHANGED mapVars /\ rec.at = None
        /\ "timed" \in Checking /\ "timed" \notin Holding
    BY <1>0, <1>3 DEF ReadClock, Checking, Holding
  <2> HIDE DEF rec
  <2>2. new \in Request /\ new.pc = "timed" /\ new.at = rec.at
    BY <1>0, <2>1 DEF Request
  <2> HIDE DEF new
  <2> QED
    BY <1>2, <2>1, <2>2, StepTyped DEF LimitTypeOK, mapVars
<1>4. CASE LoadOrStore(r)
  <2> DEFINE e == IF current = None THEN CHOOSE x \in Free : TRUE ELSE current
             new == [rec EXCEPT !.pc = "load", !.at = e]
  <2>1. e \in Entries /\ e # None
    BY EntryIsFree, LimitsAssumption DEF Free, LimitTypeOK
  <2>2. /\ req' = [req EXCEPT ![r] = new] /\ current' = e /\ UNCHANGED <<entry, looked>>
        /\ "load" \in Checking /\ "load" \in Holding
    BY <1>4 DEF LoadOrStore, Checking, Holding
  <2> HIDE DEF e, rec
  <2>3. new \in Request /\ new.pc = "load" /\ new.at = e
    BY <1>0, <2>1, <2>2 DEF Request
  <2> HIDE DEF new
  <2> QED
    BY <1>2, <2>1, <2>2, <2>3, StepTyped DEF LimitTypeOK
<1>5. CASE LoadWindow(r)
  <2> DEFINE start == entry[rec.at].start
             over == [rec EXCEPT !.pc = "swap", !.seen = start]
             open == [rec EXCEPT !.pc = "count", !.now = 0]
             new == IF rec.now - start >= Window THEN over ELSE open
  <2>1. /\ req' = [req EXCEPT ![r] = new] /\ UNCHANGED mapVars /\ rec.at \in Entries
        /\ {"swap", "count"} \subseteq Checking /\ {"swap", "count"} \subseteq Holding
    BY <1>0, <1>5 DEF LoadWindow, Checking, Holding
  <2>2. start \in 0..MaxTime
    BY <2>1 DEF LimitTypeOK, Entry
  <2>5. rec.at # None
    BY <1>0, <2>1
  <2> HIDE DEF start, rec
  <2>3. /\ over \in Request /\ over.pc = "swap" /\ over.at = rec.at
        /\ open \in Request /\ open.pc = "count" /\ open.at = rec.at
    BY <1>0, <2>1, <2>2 DEF Request
  <2> HIDE DEF over, open
  <2>4. new \in Request /\ new.pc \in Holding /\ new.at = rec.at
    BY <2>1, <2>3
  <2> HIDE DEF new
  <2> QED
    BY <1>2, <2>1, <2>4, <2>5, StepTyped DEF LimitTypeOK, mapVars
<1>6. CASE Swap(r)
  <2> DEFINE e == rec.at
             won == [rec EXCEPT !.pc = "zero", !.now = 0, !.seen = 0]
             lost == [rec EXCEPT !.pc = "load", !.seen = 0]
  <2>1. /\ UNCHANGED <<current, looked>> /\ e \in Entries /\ e # None
        /\ {"zero", "load"} \subseteq Checking /\ {"zero", "load"} \subseteq Holding
    BY <1>0, <1>6 DEF Swap, Checking, Holding
  <2>3. \/ /\ req' = [req EXCEPT ![r] = won]
           /\ entry' = [entry EXCEPT ![e].start = rec.now, ![e].let = 0]
        \/ req' = [req EXCEPT ![r] = lost] /\ UNCHANGED entry
    BY <1>6 DEF Swap
  <2>4. entry' \in [Entries -> Entry]
    BY <1>0, <2>1, <2>3 DEF LimitTypeOK, Entry
  <2> HIDE DEF rec
  <2>2. /\ won \in Request /\ won.pc = "zero" /\ won.at = e
        /\ lost \in Request /\ lost.pc = "load" /\ lost.at = e
    BY <1>0, <2>1 DEF Request
  <2> HIDE DEF won, lost, e
  <2> QED
    BY <1>2, <2>1, <2>2, <2>3, <2>4, StepTyped DEF LimitTypeOK
<1>7. CASE ResetCount(r)
  <2> DEFINE new == [rec EXCEPT !.pc = "first"]
  <2>1. /\ req' = [req EXCEPT ![r] = new] /\ UNCHANGED <<current, looked>>
        /\ entry' = [entry EXCEPT ![rec.at].count = 0]
        /\ rec.at \in Entries /\ rec.at # None
        /\ "first" \in Checking /\ "first" \in Holding
    BY <1>0, <1>7 DEF ResetCount, Go, Checking, Holding
  <2> HIDE DEF rec
  <2>2. new \in Request /\ new.pc = "first" /\ new.at = rec.at
    BY <1>0, <2>1 DEF Request
  <2>3. entry' \in [Entries -> Entry]
    BY <2>1, Numbers DEF LimitTypeOK, Entry
  <2> HIDE DEF new
  <2> QED
    BY <1>2, <2>1, <2>2, <2>3, StepTyped DEF LimitTypeOK
<1>8. CASE CountFirst(r)
  <2>1. req[r].at \in Entries
    BY <1>8, <1>0 DEF CountFirst, Holding
  <2>2. LetThrough(r, req[r].at) /\ UNCHANGED <<current, looked>>
    BY <1>8 DEF CountFirst
  <2> QED
    BY <1>2, <2>1, <2>2, LetThroughTyped DEF LimitTypeOK
<1>9. CASE Count(r)
  <2> DEFINE e == req[r].at
             en == [entry EXCEPT ![e] = Counted(e)]
  <2>1. e \in Entries
    BY <1>9, <1>0 DEF Count, Holding
  <2>2. UNCHANGED <<current, looked>>
    BY <1>9 DEF Count
  <2>3. CASE Over(Counted(e).count)
    <3>1. Done(r, "idle") /\ Reclaim(en)
      BY <1>9, <2>3 DEF Count
    <3>2. en \in [Entries -> Entry]
      BY <2>1, CountedTyped DEF LimitTypeOK
    <3> HIDE DEF en
    <3> QED
      BY <1>2, <2>2, <3>1, <3>2, CollectTyped, DoneTyped DEF LimitTypeOK
  <2>4. CASE ~Over(Counted(e).count)
    <3>1. LetThrough(r, e)
      BY <1>9, <2>4 DEF Count
    <3> QED
      BY <1>2, <2>1, <2>2, <3>1, LetThroughTyped DEF LimitTypeOK
  <2> QED
    BY <2>3, <2>4
<1> QED
  BY <1>3, <1>4, <1>5, <1>6, <1>7, <1>8, <1>9 DEF Check

LEMMA TypeStep == LimitTypeOK /\ [LimitNext]_limitVars => LimitTypeOK'
<1> SUFFICES ASSUME LimitTypeOK, [LimitNext]_limitVars PROVE LimitTypeOK'
  OBVIOUS
<1>1. CASE UNCHANGED limitVars
  BY <1>1 DEF LimitTypeOK, limitVars
<1>2. ASSUME NEW r \in Checkers, Lookup(r) PROVE LimitTypeOK'
  <2> DEFINE rec == req[r]
             new == [rec EXCEPT !.pc = "allowed"]
  <2>1. /\ req' = [req EXCEPT ![r] = new] /\ UNCHANGED <<rowVars, mapVars, clock>>
        /\ rec \in Request /\ rec.at = None
        /\ "allowed" \in Checking /\ "allowed" \notin Holding
    BY <1>2 DEF Lookup, Go, LimitTypeOK, Checking, Holding
  <2> HIDE DEF rec
  <2>2. new \in Request /\ new.pc = "allowed" /\ new.at = None
    BY <2>1 DEF Request
  <2> HIDE DEF new
  <2> QED
    BY <2>1, <2>2, StepTyped DEF LimitTypeOK, rowVars, mapVars
<1>3. ASSUME NEW r \in Checkers, Succeed(r) \/ Fail(r) PROVE LimitTypeOK'
  <2>1. /\ Done(r, "idle") /\ UNCHANGED <<mapVars, clock, patch, day, raised>>
        /\ used' \in Nat
    BY <1>3 DEF Succeed, Fail, rowVars, LimitTypeOK
  <2> QED
    BY <2>1, DoneTyped DEF LimitTypeOK, mapVars
<1>4. CASE ResetDailyUsage
  <2>1. raised' \in BOOLEAN
    BY <1>4 DEF ResetDailyUsage
  <2>2. used' \in Nat /\ day' \in 0..MaxDays
    BY <1>4, Numbers DEF ResetDailyUsage, LimitTypeOK
  <2> QED
    BY <1>4, <2>1, <2>2 DEF ResetDailyUsage, LimitTypeOK, mapVars
<1>5. CASE PatchGet
  BY <1>5 DEF PatchGet, LimitTypeOK, mapVars
<1>6. CASE PatchSave
  <2>1. raised' \in BOOLEAN
    BY <1>6 DEF PatchSave, LimitTypeOK
  <2> QED
    BY <1>6, <2>1 DEF PatchSave, LimitTypeOK, mapVars
<1>7. CASE PatchFails
  BY <1>7 DEF PatchFails, LimitTypeOK, mapVars
<1>8. CASE CleanupLooks
  BY <1>8 DEF CleanupLooks, LimitTypeOK, rowVars
<1>9. CASE CleanupDeletes
  <2>1. entry' \in [Entries -> Entry]
    BY <1>9, CollectTyped DEF CleanupDeletes, LimitTypeOK
  <2> QED
    BY <1>9, <2>1 DEF CleanupDeletes, LimitTypeOK, rowVars
<1>10. CASE Tick
  BY <1>10, Numbers DEF Tick, LimitTypeOK, rowVars, mapVars
<1> QED
  BY <1>1, <1>2, <1>3, <1>4, <1>5, <1>6, <1>7, <1>8, <1>9, <1>10, CheckTyped DEF LimitNext

\* The row, the entries, the cleanup and the requests in flight have their types; in
\* particular a new window always finds an entry.
THEOREM LimitsTyped == LimitSpec => []LimitTypeOK
BY InitTyped, TypeStep, PTL DEF LimitSpec

-----------------------------------------------------------------------------
(***************************************************************************)
(* The daily limit: what is used and what is in flight are bounded         *)
(* together, since a request only starts below the limit.                  *)
(***************************************************************************)
InFlight == {r \in Checkers : req[r].pc # "idle"}

DailyInv == raised \/ used + Cardinality(InFlight) <= DailyLimit + Cardinality(Checkers) - 1

LEMMA SomeRequests ==
  ASSUME NEW S \in SUBSET Checkers
  PROVE  /\ IsFiniteSet(S) /\ Cardinality(S) \in Nat /\ Cardinality(S) <= Cardinality(Checkers)
         /\ Cardinality(Checkers) \in Nat
BY LimitsAssumption, FS_Subset, FS_CardinalityType

\* A step of a request's check starts no other request.
LEMMA CheckStartsNone ==
  ASSUME LimitTypeOK, NEW r \in Checkers, Check(r)
  PROVE  InFlight' \subseteq InFlight /\ UNCHANGED rowVars
<1>1. UNCHANGED rowVars /\ req[r].pc # "idle"
  BY DEF Check, ReadClock, LoadOrStore, LoadWindow, Swap, ResetCount, CountFirst, Count
<1>2. \E new : req' = [req EXCEPT ![r] = new]
  BY DEF Check, ReadClock, LoadOrStore, LoadWindow, Swap, ResetCount, CountFirst, Count,
         LetThrough, Done, Go
<1> QED
  BY <1>1, <1>2 DEF InFlight, LimitTypeOK

LEMMA DailyStep == LimitTypeOK /\ DailyInv /\ [LimitNext]_limitVars => DailyInv'
<1> SUFFICES ASSUME LimitTypeOK, DailyInv, [LimitNext]_limitVars PROVE DailyInv'
  OBVIOUS
<1> DEFINE n == Cardinality(Checkers)
           flying == Cardinality(InFlight)
<1>0. /\ n \in Nat /\ flying \in Nat /\ flying <= n /\ flying' \in Nat /\ flying' <= n
      /\ used \in Nat /\ DailyLimit \in Nat /\ DailyLimit > 0
      /\ raised \/ used + flying <= DailyLimit + n - 1
  BY SomeRequests, Numbers DEF LimitTypeOK, DailyInv, InFlight
<1>1. ASSUME InFlight' \subseteq InFlight, UNCHANGED <<used, raised>> PROVE DailyInv'
  <2>1. flying' <= flying
    BY <1>1, SomeRequests, FS_Subset DEF InFlight
  <2> HIDE DEF flying, n
  <2> QED
    BY <1>0, <1>1, <2>1 DEF DailyInv, flying, n
<1>2. CASE UNCHANGED limitVars
  BY <1>1, <1>2 DEF limitVars, InFlight
<1>3. ASSUME NEW r \in Checkers, Lookup(r) PROVE DailyInv'
  <2>1. used < DailyLimit /\ UNCHANGED <<used, raised>>
    BY <1>3 DEF Lookup, rowVars
  <2> HIDE DEF flying, n
  <2> QED
    BY <1>0, <2>1 DEF DailyInv, flying, n
<1>4. ASSUME NEW r \in Checkers, Check(r) PROVE DailyInv'
  BY <1>1, <1>4, CheckStartsNone DEF rowVars
<1>5. ASSUME NEW r \in Checkers, Succeed(r) PROVE DailyInv'
  <2>1. used' = used + 1 /\ raised' = raised /\ r \in InFlight
    BY <1>5 DEF Succeed, InFlight
  <2>2. req'[r].pc = "idle" /\ \A q \in Checkers \ {r} : req'[q] = req[q]
    BY <1>5, DoneTyped DEF Succeed
  <2>3. InFlight' = InFlight \ {r}
    BY <2>2 DEF InFlight
  <2>4. flying' = flying - 1
    BY <2>1, <2>3, SomeRequests, FS_RemoveElement DEF InFlight
  <2> HIDE DEF flying, n
  <2> QED
    BY <1>0, <2>1, <2>4 DEF DailyInv, flying, n
<1>6. ASSUME NEW r \in Checkers, Fail(r) PROVE DailyInv'
  <2>1. req'[r].pc = "idle" /\ \A q \in Checkers \ {r} : req'[q] = req[q]
    BY <1>6, DoneTyped DEF Fail
  <2> QED
    BY <1>1, <1>6, <2>1 DEF Fail, InFlight, rowVars
<1>7. CASE ResetDailyUsage
  <2>1. used' = 0
    BY <1>7 DEF ResetDailyUsage
  <2> HIDE DEF flying, n
  <2> QED
    BY <1>0, <2>1 DEF DailyInv, flying, n
<1>8. CASE PatchSave
  <2>1. used' = patch /\ patch \in Nat
    BY <1>8 DEF PatchSave, LimitTypeOK
  <2>3. raised \/ patch > used => raised'
    BY <1>8 DEF PatchSave
  <2>2. flying' = flying
    BY <1>8 DEF PatchSave, InFlight
  <2> HIDE DEF flying, n
  <2>4. CASE raised'
    BY <2>4 DEF DailyInv
  <2>5. CASE ~raised'
    <3>1. patch <= used /\ used + flying <= DailyLimit + n - 1
      BY <1>0, <2>1, <2>3, <2>5
    <3>2. used' + flying' <= DailyLimit + n - 1
      BY <1>0, <2>1, <2>2, <3>1
    <3> QED
      BY <3>2 DEF DailyInv, flying, n
  <2> QED
    BY <2>4, <2>5
<1>9. CASE PatchGet \/ PatchFails \/ CleanupLooks \/ CleanupDeletes \/ Tick
  BY <1>1, <1>9 DEF PatchGet, PatchFails, CleanupLooks, CleanupDeletes, Tick, InFlight, rowVars
<1> QED
  BY <1>2, <1>3, <1>4, <1>5, <1>6, <1>7, <1>8, <1>9 DEF LimitNext

\* However many requests passed the daily limit together, it is exceeded by less than
\* the requests in flight, unless a PATCH put a higher, old count back.
THEOREM DailyLimitHolds == LimitSpec => []DailyBounded
<1>1. LimitInit => DailyInv
  BY SomeRequests, Numbers DEF LimitInit, DailyInv, InFlight, Idle
<1>2. LimitTypeOK /\ DailyInv => DailyBounded
  BY SomeRequests, Numbers DEF LimitTypeOK, DailyInv, DailyBounded, InFlight
<1> QED
  BY <1>1, <1>2, InitTyped, TypeStep, DailyStep, PTL DEF LimitSpec

-----------------------------------------------------------------------------
(***************************************************************************)
(* The limit per minute: up to the limit, an entry that is not being       *)
(* opened counts no more than it has let through.                          *)
(***************************************************************************)
Known(count) == IF count > RateLimit THEN RateLimit ELSE count
Fits(e) == Opening(e) \/ Known(entry[e].count) <= entry[e].let
CountInv == \A e \in Entries : Fits(e)

\* A collection keeps what fits, and a new entry fits.
LEMMA CollectFits ==
  ASSUME NEW en \in [Entries -> Entry], Reclaim(en), NEW e \in Entries,
         Opening(e)' \/ Known(en[e].count) <= en[e].let
  PROVE  Fits(e)'
<1>1. CASE entry'[e] = en[e]
  BY <1>1 DEF Fits
<1>2. CASE entry'[e] = NewEntry
  BY <1>2, Numbers DEF Fits, Known, NewEntry
<1> QED
  BY <1>1, <1>2 DEF Reclaim

\* What a request that opens no window does leaves the openings of others alone.
LEMMA OthersOpen ==
  ASSUME LimitTypeOK, NEW r \in Checkers, req[r].pc # "zero",
         \A q \in Checkers \ {r} : req'[q] = req[q], NEW e, Opening(e)
  PROVE  Opening(e)'
BY DEF Opening

\* One more request let through is one more counted at most.
LEMMA LetThroughFits ==
  ASSUME LimitTypeOK, CountInv, NEW r \in Checkers, NEW o \in Entries, req[r].pc # "zero",
         LetThrough(r, o)
  PROVE  CountInv'
<1> DEFINE en == [entry EXCEPT ![o] = [Counted(o) EXCEPT !.let = @ + 1]]
<1>1. Done(r, "serving") /\ Reclaim(en) /\ en \in [Entries -> Entry]
  BY CountedTyped DEF LetThrough, LimitTypeOK
<1>2. SUFFICES ASSUME NEW e \in Entries PROVE Fits(e)'
  BY DEF CountInv
<1>3. Opening(e) => Opening(e)'
  BY <1>1, DoneTyped, OthersOpen
<1>4. Known(entry[e].count) <= entry[e].let => Known(en[e].count) <= en[e].let
  <2>1. CASE e # o
    BY <2>1 DEF LimitTypeOK
  <2>2. CASE e = o
    <3> DEFINE c == entry[o].count
               l == entry[o].let
    <3>1. c \in 0..RateLimit + 1 /\ l \in Nat
      BY DEF LimitTypeOK, Entry
    <3>2. en[o].count = (IF c > RateLimit THEN c ELSE c + 1) /\ en[o].let = l + 1
      <4>1. en[o] = [Counted(o) EXCEPT !.let = @ + 1]
        BY DEF LimitTypeOK
      <4>2. Counted(o) \in Entry /\ Counted(o).let = l
            /\ Counted(o).count = IF c > RateLimit THEN c ELSE c + 1
        BY CountedTyped DEF LimitTypeOK
      <4> HIDE DEF c, l, en
      <4> QED
        BY <4>1, <4>2 DEF Entry
    <3> HIDE DEF c, l, en
    <3>3. Known(c) <= l => Known(en[o].count) <= en[o].let
      BY <3>1, <3>2, Numbers DEF Known
    <3> QED
      BY <2>2, <3>3 DEF c, l
  <2> QED
    BY <2>1, <2>2
<1>5. Opening(e)' \/ Known(en[e].count) <= en[e].let
  BY <1>3, <1>4 DEF CountInv, Fits
<1> HIDE DEF en
<1> QED
  BY <1>1, <1>5, CollectFits

\* A refused request was counted beyond the limit.
LEMMA RefusedFits ==
  ASSUME LimitTypeOK, CountInv, NEW r \in Checkers, Count(r), Over(Counted(req[r].at).count)
  PROVE  /\ CountInv'
         /\ entry[req[r].at].let >= RateLimit \/ Opening(req[r].at)
<1> DEFINE o == req[r].at
           en == [entry EXCEPT ![o] = Counted(o)]
<1>1. /\ o \in Entries /\ req[r].pc # "zero" /\ Done(r, "idle") /\ Reclaim(en)
      /\ en \in [Entries -> Entry]
  <2>1. o \in Entries
    BY DEF Count, LimitTypeOK, Request, Holding
  <2> QED
    BY <2>1, CountedTyped DEF Count, LimitTypeOK
<1>2. /\ entry[o].count \in 0..RateLimit + 1 /\ entry[o].let \in Nat
      /\ entry[o].count >= RateLimit
      /\ en[o].let = entry[o].let /\ en[o].count = RateLimit + 1
  <2>1. entry[o].count \in 0..RateLimit + 1 /\ entry[o].let \in Nat
    BY <1>1 DEF LimitTypeOK, Entry
  <2>2. /\ Counted(o).count = IF entry[o].count > RateLimit THEN entry[o].count ELSE entry[o].count + 1
        /\ Counted(o).let = entry[o].let
    BY <1>1, CountedTyped DEF LimitTypeOK
  <2>3. en[o] = Counted(o) /\ Counted(o).count > RateLimit
    BY <1>1 DEF Over, LimitTypeOK
  <2> QED
    BY <2>1, <2>2, <2>3, Numbers
<1>3. entry[o].let >= RateLimit \/ Opening(o)
  BY <1>1, <1>2, Numbers DEF CountInv, Fits, Known
<1>4. ASSUME NEW e \in Entries PROVE Fits(e)'
  <2>1. Opening(e) => Opening(e)'
    BY <1>1, DoneTyped, OthersOpen
  <2>2. Known(entry[e].count) <= entry[e].let => Known(en[e].count) <= en[e].let
    <3>1. CASE e # o
      BY <1>1, <3>1 DEF LimitTypeOK
    <3>2. CASE e = o
      BY <1>2, <3>2, Numbers DEF Known
    <3> QED
      BY <3>1, <3>2
  <2>3. Opening(e)' \/ Known(en[e].count) <= en[e].let
    BY <2>1, <2>2 DEF CountInv, Fits
  <2> HIDE DEF en, o
  <2> QED
    BY <1>1, <2>3, CollectFits
<1> QED
  BY <1>3, <1>4 DEF CountInv

\* The other steps of a check let nobody through and refuse nobody.
LEMMA CheckFits ==
  ASSUME LimitTypeOK, CountInv, NEW r \in Checkers, Check(r), ~Count(r)
  PROVE  CountInv'
<1>1. CASE ReadClock(r) \/ LoadOrStore(r) \/ LoadWindow(r)
  <2>1. UNCHANGED entry /\ req[r].pc # "zero" /\ \E new : req' = [req EXCEPT ![r] = new]
    BY <1>1 DEF ReadClock, LoadOrStore, LoadWindow, mapVars
  <2>2. \A q \in Checkers \ {r} : req'[q] = req[q]
    BY <2>1 DEF LimitTypeOK
  <2>3. \A e : Opening(e) => Opening(e)'
    BY <2>1, <2>2, OthersOpen
  <2> QED
    BY <2>1, <2>3 DEF CountInv, Fits
<1>2. CASE Swap(r)
  <2>1. req[r].pc # "zero" /\ \E new : req' = [req EXCEPT ![r] = new]
    BY <1>2 DEF Swap
  <2>2. PICK o \in Entries : o = req[r].at
    BY <1>2 DEF Swap, LimitTypeOK, Request, Holding
  <2>3. \A q \in Checkers \ {r} : req'[q] = req[q]
    BY <2>1 DEF LimitTypeOK
  <2>4. \A e : Opening(e) => Opening(e)'
    BY <2>1, <2>3, OthersOpen
  <2>5. CASE entry[o].start = req[r].seen
    <3>1. /\ entry' = [entry EXCEPT ![o].start = req[r].now, ![o].let = 0]
          /\ req' = [req EXCEPT ![r] = [@ EXCEPT !.pc = "zero", !.now = 0, !.seen = 0]]
      BY <1>2, <2>5, <2>2 DEF Swap
    <3>2. \A e \in Entries \ {o} : entry'[e] = entry[e]
      BY <3>1 DEF LimitTypeOK
    <3>3. req'[r].pc = "zero" /\ req'[r].at = o
      BY <2>2, <3>1 DEF LimitTypeOK, Request
    <3>4. Fits(o)'
      BY <3>3 DEF Opening, Fits
    <3>5. ASSUME NEW e \in Entries, e # o PROVE Fits(e)'
      BY <2>4, <3>2, <3>5 DEF CountInv, Fits
    <3> QED
      BY <3>4, <3>5 DEF CountInv
  <2>6. CASE entry[o].start # req[r].seen
    <3>1. UNCHANGED entry
      BY <1>2, <2>6, <2>2 DEF Swap
    <3> QED
      BY <2>4, <3>1 DEF CountInv, Fits
  <2> QED
    BY <2>5, <2>6
<1>3. CASE ResetCount(r)
  <2>1. PICK o \in Entries : o = req[r].at
    BY <1>3 DEF ResetCount, LimitTypeOK, Request, Holding
  <2>2. /\ \E new : req' = [req EXCEPT ![r] = new]
        /\ entry' = [entry EXCEPT ![o].count = 0]
    BY <1>3, <2>1 DEF ResetCount, Go
  <2>3. \A q \in Checkers \ {r} : req'[q] = req[q]
    BY <2>2 DEF LimitTypeOK
  <2>4. \A e \in Entries \ {o} : entry'[e] = entry[e] /\ (Opening(e) => Opening(e)')
    BY <2>2, <2>3, <2>1 DEF LimitTypeOK, Opening
  <2>5. entry'[o].count = 0 /\ entry'[o].let \in Nat
    BY <2>2 DEF LimitTypeOK, Entry
  <2>6. Fits(o)'
    BY <2>5, Numbers DEF Fits, Known
  <2>7. ASSUME NEW e \in Entries, e # o PROVE Fits(e)'
    BY <2>4, <2>7 DEF CountInv, Fits
  <2> QED
    BY <2>6, <2>7 DEF CountInv
<1>4. CASE CountFirst(r)
  <2>1. req[r].at \in Entries /\ req[r].pc # "zero" /\ LetThrough(r, req[r].at)
    BY <1>4 DEF CountFirst, LimitTypeOK, Request, Holding
  <2> QED
    BY <2>1, LetThroughFits
<1> QED
  BY <1>1, <1>2, <1>3, <1>4 DEF Check

TurnedAway(r) == req[r].pc = "count" /\ req'[r].pc = "idle"
FullOrOpening(e) == entry[e].let >= RateLimit \/ Opening(e)

LEMMA CountStep ==
  LimitTypeOK /\ CountInv /\ [LimitNext]_limitVars =>
    CountInv' /\ \A r \in Checkers : TurnedAway(r) => FullOrOpening(req[r].at)
<1> SUFFICES ASSUME LimitTypeOK, CountInv, [LimitNext]_limitVars
             PROVE  CountInv' /\ \A r \in Checkers : TurnedAway(r) => FullOrOpening(req[r].at)
  OBVIOUS
<1>1. ASSUME UNCHANGED <<entry, req>>
      PROVE  CountInv' /\ \A r \in Checkers : ~TurnedAway(r)
  BY <1>1 DEF CountInv, Fits, Opening, TurnedAway
<1>2. ASSUME NEW r \in Checkers, Lookup(r) \/ Succeed(r) \/ Fail(r)
      PROVE  CountInv' /\ \A q \in Checkers : ~TurnedAway(q)
  <2>1. /\ UNCHANGED entry /\ req[r].pc \in {"idle", "serving"}
        /\ \E new : req' = [req EXCEPT ![r] = new]
    BY <1>2 DEF Lookup, Succeed, Fail, Go, Done, mapVars
  <2>2. \A q \in Checkers \ {r} : req'[q] = req[q]
    BY <2>1 DEF LimitTypeOK
  <2>3. \A e : Opening(e) => Opening(e)'
    BY <2>1, <2>2, OthersOpen
  <2> QED
    BY <2>1, <2>2, <2>3 DEF CountInv, Fits, TurnedAway
<1>3. ASSUME NEW r \in Checkers, Check(r)
      PROVE  CountInv' /\ \A q \in Checkers : TurnedAway(q) => FullOrOpening(req[q].at)
  <2>1. \E new : req' = [req EXCEPT ![r] = new]
    BY <1>3 DEF Check, ReadClock, LoadOrStore, LoadWindow, Swap, ResetCount, CountFirst, Count,
                LetThrough, Done, Go
  <2>2. \A q \in Checkers \ {r} : ~TurnedAway(q)
    BY <2>1 DEF LimitTypeOK, TurnedAway
  <2>3. CASE ~Count(r)
    <3>1. req[r].pc # "count"
      BY <1>3, <2>3 DEF Check, ReadClock, LoadOrStore, LoadWindow, Swap, ResetCount, CountFirst
    <3> QED
      BY <1>3, <2>2, <2>3, <3>1, CheckFits DEF TurnedAway
  <2>4. CASE Count(r) /\ Over(Counted(req[r].at).count)
    BY <2>2, <2>4, RefusedFits DEF FullOrOpening
  <2>5. CASE Count(r) /\ ~Over(Counted(req[r].at).count)
    <3>1. req[r].at \in Entries /\ req[r].pc # "zero" /\ LetThrough(r, req[r].at)
      BY <2>5 DEF Count, LimitTypeOK, Request, Holding
    <3>2. req'[r].pc = "serving"
      BY <3>1, DoneTyped DEF LetThrough
    <3>3. CountInv'
      BY <3>1, LetThroughFits
    <3>4. ~TurnedAway(r)
      BY <3>2 DEF TurnedAway
    <3> QED
      BY <2>2, <3>3, <3>4
  <2> QED
    BY <2>3, <2>4, <2>5
<1>4. CASE CleanupDeletes
  <2>1. UNCHANGED req /\ Reclaim(entry) /\ entry \in [Entries -> Entry]
    BY <1>4 DEF CleanupDeletes, LimitTypeOK
  <2>2. ASSUME NEW e \in Entries PROVE Fits(e)'
    <3>1. Opening(e)' \/ Known(entry[e].count) <= entry[e].let
      BY <2>1 DEF Opening, CountInv, Fits
    <3> QED
      BY <2>1, <3>1, CollectFits
  <2>3. CountInv'
    BY <2>2 DEF CountInv
  <2> QED
    BY <2>1, <2>3 DEF TurnedAway
<1> QED
  BY <1>1, <1>2, <1>3, <1>4
  DEF LimitNext, limitVars, mapVars, ResetDailyUsage, PatchGet, PatchSave, PatchFails, CleanupLooks, Tick

\* No count of an old window refuses a request of a window that has been opened, for any
\* number of requests that open windows, reset counts and count at once.
THEOREM RefusedOnlyWhenFull == LimitSpec => RefusedWhenFull
<1>1. LimitInit => CountInv
  BY Numbers DEF LimitInit, CountInv, Fits, Known, NewEntry
<1>2. LimitTypeOK /\ CountInv /\ [LimitNext]_limitVars =>
        [\A r \in Checkers : req[r].pc = "count" /\ req'[r].pc = "idle" =>
           LET e == req[r].at IN entry[e].let >= RateLimit \/ Opening(e)]_limitVars
  BY CountStep DEF TurnedAway, FullOrOpening
<1>3. LimitTypeOK /\ CountInv /\ [LimitNext]_limitVars => CountInv'
  BY CountStep
<1> QED
  BY <1>1, <1>2, <1>3, InitTyped, TypeStep, PTL DEF LimitSpec, RefusedWhenFull

-----------------------------------------------------------------------------
(***************************************************************************)
(* How much a window lets through: what it has, what its count still       *)
(* allows, a whole limit and one for each request about to reset the       *)
(* count, and one for each that counts unchecked, are bounded together.    *)
(* The bound is missed by little only while every request is one of these, *)
(* and then the window has let nobody through.                             *)
(***************************************************************************)
N == Cardinality(Checkers)
Resetting(e) == {r \in Checkers : req[r].pc = "zero" /\ req[r].at = e}
Unchecked(e) == {r \in Checkers : req[r].pc = "first" /\ req[r].at = e}

\* l let through, c counted, z requests resetting and f unchecked.
Fair(l, c, z, f) ==
  \/ l + (RateLimit - Known(c)) + (RateLimit + 1) * z + f <= (RateLimit + 1) * N - 1
  \/ l = 0 /\ z = N
  \/ l = 0 /\ c = 0 /\ z = N - 1 /\ f = 1

Bounded(e) == Fair(entry[e].let, entry[e].count, Cardinality(Resetting(e)), Cardinality(Unchecked(e)))
WindowInv == \A e \in Entries : Bounded(e)

LEMMA SomeRequest == N \in Nat /\ N > 0
<1>1. IsFiniteSet(Checkers) /\ N \in Nat /\ Checkers # {}
  BY SomeRequests, LimitsAssumption DEF N
<1>2. N # 0
  BY <1>1, FS_EmptySet DEF N
<1> QED
  BY <1>1, <1>2

\* The requests at an entry are no more than all; when they are all, r is one.
LEMMA AtEntry ==
  ASSUME NEW e
  PROVE  LET z == Cardinality(Resetting(e))
             f == Cardinality(Unchecked(e)) IN
         /\ z \in Nat /\ f \in Nat /\ z + f <= N
         /\ \A r \in Checkers : r \notin Resetting(e) /\ r \notin Unchecked(e) => z + f < N
         /\ \A r \in Checkers : r \in Resetting(e) => z > 0
         /\ \A r \in Checkers : r \in Unchecked(e) => f > 0
<1> DEFINE Z == Resetting(e)
           F == Unchecked(e)
<1>1. /\ IsFiniteSet(Z) /\ Cardinality(Z) \in Nat
      /\ IsFiniteSet(F) /\ Cardinality(F) \in Nat
      /\ IsFiniteSet(Z \union F) /\ Cardinality(Z \union F) \in Nat /\ Cardinality(Z \union F) <= N
      /\ IsFiniteSet(Checkers)
  BY SomeRequests, LimitsAssumption DEF Resetting, Unchecked, N
<1>2. Z \intersect F = {} /\ Z \union F \subseteq Checkers
  BY DEF Resetting, Unchecked
<1> HIDE DEF Z, F
<1>3. Cardinality(Z \union F) = Cardinality(Z) + Cardinality(F)
  <2>1. Cardinality(Z \union F) = Cardinality(Z) + Cardinality(F) - Cardinality(Z \intersect F)
    BY <1>1, FS_Union
  <2>2. Cardinality(Z \intersect F) = 0
    BY <1>2, FS_EmptySet
  <2> QED
    BY <1>1, <2>1, <2>2
<1>4. ASSUME NEW r \in Checkers, r \notin Z, r \notin F PROVE Cardinality(Z \union F) # N
  BY <1>1, <1>2, <1>4, FS_Subset DEF N
<1>5. (\A r \in Checkers : r \in Z => Cardinality(Z) # 0)
      /\ (\A r \in Checkers : r \in F => Cardinality(F) # 0)
  BY <1>1, FS_EmptySet
<1> QED
  BY <1>1, <1>3, <1>4, <1>5, SomeRequest DEF Z, F

\* The arithmetic of the steps, at an entry with z requests resetting, f unchecked.
LEMMA Times ==
  ASSUME NEW z \in Nat
  PROVE  /\ (RateLimit + 1) * z \in Nat
         /\ (RateLimit + 1) * (z + 1) = (RateLimit + 1) * z + RateLimit + 1
         /\ z <= N => (RateLimit + 1) * z <= (RateLimit + 1) * N
         /\ z < N => (RateLimit + 1) * z + RateLimit + 1 <= (RateLimit + 1) * N
         /\ z + 1 < N => (RateLimit + 1) * z + 2 * RateLimit + 2 <= (RateLimit + 1) * N
BY SomeRequest, Numbers

LEMMA KnownTyped ==
  ASSUME NEW c \in 0..RateLimit + 1
  PROVE  Known(c) \in 0..RateLimit /\ (c <= RateLimit => Known(c) = c) /\ (c > RateLimit => Known(c) = RateLimit)
BY Numbers DEF Known

LEMMA FairCounts ==
  ASSUME NEW l \in Nat, NEW c \in 0..RateLimit + 1, NEW z \in Nat, NEW f \in Nat, z + f < N,
         Fair(l, c, z, f)
  PROVE  /\ c < RateLimit => Fair(l + 1, c + 1, z, f)
         /\ Fair(l, RateLimit + 1, z, f)
BY SomeRequest, Numbers, Times DEF Fair, Known

LEMMA FairUnchecked ==
  ASSUME NEW l \in Nat, NEW c \in 0..RateLimit + 1, NEW z \in Nat, NEW f \in Nat, z + f <= N,
         f > 0, Fair(l, c, z, f)
  PROVE  Fair(l + 1, IF c > RateLimit THEN c ELSE c + 1, z, f - 1)
<1>1. CASE l + (RateLimit - Known(c)) + (RateLimit + 1) * z + f <= (RateLimit + 1) * N - 1
  BY <1>1, SomeRequest, Numbers, Times DEF Fair, Known
<1>2. CASE l = 0 /\ c = 0 /\ z = N - 1 /\ f = 1
  BY <1>2, SomeRequest, Numbers, Times DEF Fair, Known
<1>3. CASE l = 0 /\ z = N
  BY <1>3, SomeRequest
<1> QED
  BY <1>1, <1>2, <1>3 DEF Fair

LEMMA FairResets ==
  ASSUME NEW l \in Nat, NEW c \in 0..RateLimit + 1, NEW z \in Nat, NEW f \in Nat, z + f <= N,
         z > 0, Fair(l, c, z, f)
  PROVE  Fair(l, 0, z - 1, f + 1)
<1>0. /\ z - 1 \in Nat /\ (RateLimit + 1) * z = (RateLimit + 1) * (z - 1) + RateLimit + 1
      /\ Known(c) \in 0..RateLimit /\ Known(0) = 0
  <2>1. z - 1 \in Nat /\ z = (z - 1) + 1
    OBVIOUS
  <2> QED
    BY <2>1, Times, KnownTyped, Numbers
<1>1. CASE l + (RateLimit - Known(c)) + (RateLimit + 1) * z + f <= (RateLimit + 1) * N - 1
  BY <1>0, <1>1, SomeRequest, Numbers, Times DEF Fair
<1>2. CASE l = 0 /\ c = 0 /\ z = N - 1 /\ f = 1
  <2>1. (RateLimit + 1) * N = (RateLimit + 1) * z + RateLimit + 1
    BY <1>2, SomeRequest, Times
  <2> QED
    BY <1>0, <1>2, <2>1, SomeRequest, Numbers, Times DEF Fair
<1>3. CASE l = 0 /\ z = N
  <2>1. f = 0
    BY <1>3, SomeRequest
  <2> QED
    BY <1>3, <2>1, SomeRequest DEF Fair
<1> QED
  BY <1>1, <1>2, <1>3 DEF Fair

LEMMA FairOpens ==
  ASSUME NEW c \in 0..RateLimit + 1, NEW z \in Nat, NEW f \in Nat, z + f < N
  PROVE  Fair(0, c, z + 1, f)
<1>0. Known(c) \in 0..RateLimit /\ (c # 0 => Known(c) > 0)
  BY KnownTyped, Numbers
<1>1. CASE z + 1 = N
  BY <1>1 DEF Fair
<1>2. CASE z + 2 = N
  <2>1. /\ (RateLimit + 1) * N = (RateLimit + 1) * (z + 1) + RateLimit + 1
        /\ (RateLimit + 1) * (z + 1) \in Nat
    <3>1. z + 1 \in Nat /\ N = (z + 1) + 1
      BY <1>2
    <3> QED
      BY <3>1, Times
  <2>2. f = 0 \/ f = 1
    BY <1>2, SomeRequest
  <2> HIDE DEF N
  <2>3. z + 1 = N - 1
    BY <1>2, SomeRequest
  <2> QED
    BY <1>0, <2>1, <2>2, <2>3, SomeRequest, Numbers DEF Fair
<1>3. CASE z + 2 < N
  <2> DEFINE rest == N - (z + 3)
  <2>1. rest \in Nat /\ f <= rest + 2 /\ N = z + 1 + (rest + 2)
    BY <1>3, SomeRequest
  <2>2. (RateLimit + 1) * N = (RateLimit + 1) * (z + 1) + (RateLimit + 1) * (rest + 2)
    BY <2>1, Numbers
  <2>3. (RateLimit + 1) * (rest + 2) >= RateLimit + f + 1
    <3>1. (RateLimit + 1) * (rest + 2) = (RateLimit + 1) * rest + RateLimit + 1 + RateLimit + 1
      BY <2>1, Numbers
    <3>2. (RateLimit + 1) * rest >= rest
      BY <2>1, Numbers
    <3> QED
      BY <2>1, <3>1, <3>2, Numbers
  <2> HIDE DEF rest
  <2>4. (RateLimit + 1) * (z + 1) \in Nat /\ (RateLimit + 1) * (rest + 2) \in Nat
    BY <2>1, Times
  <2> QED
    BY <1>0, <2>2, <2>3, <2>4, SomeRequest, Numbers DEF Fair
<1> QED
  BY <1>1, <1>2, <1>3, SomeRequest

LEMMA FairNew == Fair(0, 0, 0, 0)
BY SomeRequest, Numbers, Times DEF Fair, Known

\* A step of r that leaves it neither resetting nor unchecked anywhere, as before.
LEMMA BystanderKeeps ==
  ASSUME NEW r \in Checkers, \A q \in Checkers \ {r} : req'[q] = req[q],
         req[r].pc \notin {"zero", "first"}, req'[r].pc \notin {"zero", "first"}, NEW e
  PROVE  Resetting(e)' = Resetting(e) /\ Unchecked(e)' = Unchecked(e)
BY DEF Resetting, Unchecked

\* An entry that a collection keeps, or that it empties because nobody is at it.
LEMMA CollectBounded ==
  ASSUME NEW en, Reclaim(en), NEW e \in Entries,
         Fair(en[e].let, en[e].count, Cardinality(Resetting(e)'), Cardinality(Unchecked(e)'))
  PROVE  Bounded(e)'
<1>1. CASE entry'[e] = en[e]
  BY <1>1 DEF Bounded
<1>2. CASE entry'[e] = NewEntry /\ \A r \in Checkers : req'[r].at # e
  <2>1. Resetting(e)' = {} /\ Unchecked(e)' = {}
    BY <1>2 DEF Resetting, Unchecked
  <2>2. Cardinality({}) = 0
    BY FS_EmptySet
  <2>3. entry'[e].let = 0 /\ entry'[e].count = 0
    BY <1>2 DEF NewEntry
  <2> QED
    BY <2>1, <2>2, <2>3, FairNew DEF Bounded
<1>3. entry'[e] = IF e = current' \/ \E r \in Checkers : req'[r].at = e THEN en[e] ELSE NewEntry
  BY DEF Reclaim
<1> QED
  BY <1>1, <1>2, <1>3

LEMMA EntryTyped ==
  ASSUME LimitTypeOK, NEW e \in Entries
  PROVE  /\ entry[e].let \in Nat /\ entry[e].count \in 0..RateLimit + 1
         /\ Counted(e).let = entry[e].let
         /\ Counted(e).count = IF entry[e].count > RateLimit THEN entry[e].count ELSE entry[e].count + 1
         /\ [Counted(e) EXCEPT !.let = @ + 1].let = entry[e].let + 1
         /\ [Counted(e) EXCEPT !.let = @ + 1].count = Counted(e).count
<1>1. entry \in [Entries -> Entry]
  BY DEF LimitTypeOK
<1>2. entry[e] \in Entry
  BY <1>1
<1>3. /\ Counted(e) \in Entry /\ Counted(e).let = entry[e].let
      /\ Counted(e).count = IF entry[e].count > RateLimit THEN entry[e].count ELSE entry[e].count + 1
  BY <1>1, CountedTyped
<1>4. /\ [Counted(e) EXCEPT !.let = Counted(e).let + 1].let = Counted(e).let + 1
      /\ [Counted(e) EXCEPT !.let = Counted(e).let + 1].count = Counted(e).count
  BY <1>3 DEF Entry
<1> QED
  BY <1>2, <1>3, <1>4 DEF Entry

\* A request that counts: let through below the limit, refused at it.
LEMMA CountBounded ==
  ASSUME LimitTypeOK, WindowInv, NEW r \in Checkers, Count(r) PROVE WindowInv'
<1>0. PICK o \in Entries : o = req[r].at
  BY DEF Count, LimitTypeOK, Request, Holding
<1> DEFINE z(e) == Cardinality(Resetting(e))
           f(e) == Cardinality(Unchecked(e))
           c == Counted(o).count
           let == [entry EXCEPT ![o] = [Counted(o) EXCEPT !.let = @ + 1]]
           full == [entry EXCEPT ![o] = Counted(o)]
<1>1. /\ req[r].pc = "count"
      /\ \/ ~Over(c) /\ Done(r, "serving") /\ Reclaim(let)
         \/ Over(c) /\ Done(r, "idle") /\ Reclaim(full)
  BY <1>0 DEF Count, LetThrough
<1>2. req'[r].pc \in {"serving", "idle"} /\ \A q \in Checkers \ {r} : req'[q] = req[q]
  BY <1>1, DoneTyped
<1>3. \A e : Resetting(e)' = Resetting(e) /\ Unchecked(e)' = Unchecked(e)
  BY <1>1, <1>2, BystanderKeeps
<1>4. /\ z(o) \in Nat /\ f(o) \in Nat /\ z(o) + f(o) < N
  <2>1. r \notin Resetting(o) /\ r \notin Unchecked(o)
    BY <1>1 DEF Resetting, Unchecked
  <2> QED
    BY <2>1, AtEntry
<1>5. Fair(entry[o].let, entry[o].count, z(o), f(o))
  BY DEF WindowInv, Bounded
<1>6. entry[o].let \in Nat /\ entry[o].count \in 0..RateLimit + 1
  BY EntryTyped
<1>7. CASE ~Over(c)
  <2>1. Reclaim(let) /\ let[o].let = entry[o].let + 1 /\ let[o].count = entry[o].count + 1
        /\ entry[o].count < RateLimit
    <3>1. c = (IF entry[o].count > RateLimit THEN entry[o].count ELSE entry[o].count + 1) /\ ~(c > RateLimit)
      BY <1>7, EntryTyped DEF Over
    <3>2. entry[o].count < RateLimit /\ c = entry[o].count + 1
      BY <1>6, <3>1, Numbers
    <3>3. let[o] = [Counted(o) EXCEPT !.let = @ + 1]
      BY DEF LimitTypeOK
    <3> HIDE DEF let
    <3> QED
      BY <1>1, <1>7, <3>2, <3>3, EntryTyped
  <2>2. Fair(let[o].let, let[o].count, z(o), f(o))
    <3> HIDE DEF let, z, f
    <3> QED
      BY <2>1, <1>4, <1>5, <1>6, FairCounts
  <2>3. \A e \in Entries : e # o => let[e] = entry[e]
    BY DEF LimitTypeOK
  <2> HIDE DEF let
  <2>4. ASSUME NEW e \in Entries PROVE Bounded(e)'
    <3>1. Fair(let[e].let, let[e].count, z(e), f(e))
      BY <2>2, <2>3 DEF WindowInv, Bounded
    <3> QED
      BY <2>1, <3>1, <1>3, CollectBounded
  <2> QED
    BY <2>4 DEF WindowInv
<1>8. CASE Over(c)
  <2>1. Reclaim(full) /\ full[o].let = entry[o].let /\ full[o].count = RateLimit + 1
    <3>1. c = (IF entry[o].count > RateLimit THEN entry[o].count ELSE entry[o].count + 1) /\ c > RateLimit
      BY <1>8, EntryTyped DEF Over
    <3>2. c = RateLimit + 1
      BY <1>6, <3>1, Numbers
    <3>3. full[o] = Counted(o)
      BY DEF LimitTypeOK
    <3> HIDE DEF full
    <3> QED
      BY <1>1, <1>8, <3>2, <3>3, EntryTyped
  <2>2. Fair(full[o].let, full[o].count, z(o), f(o))
    <3> HIDE DEF full, z, f
    <3> QED
      BY <2>1, <1>4, <1>5, <1>6, FairCounts
  <2>3. \A e \in Entries : e # o => full[e] = entry[e]
    BY DEF LimitTypeOK
  <2> HIDE DEF full
  <2>4. ASSUME NEW e \in Entries PROVE Bounded(e)'
    <3>1. Fair(full[e].let, full[e].count, z(e), f(e))
      BY <2>2, <2>3 DEF WindowInv, Bounded
    <3> QED
      BY <2>1, <3>1, <1>3, CollectBounded
  <2> QED
    BY <2>4 DEF WindowInv
<1> QED
  BY <1>7, <1>8

\* The request that opened the window is let through unchecked.
LEMMA CountFirstBounded ==
  ASSUME LimitTypeOK, WindowInv, NEW r \in Checkers, CountFirst(r) PROVE WindowInv'
<1>0. PICK o \in Entries : o = req[r].at
  BY DEF CountFirst, LimitTypeOK, Request, Holding
<1> DEFINE z(e) == Cardinality(Resetting(e))
           f(e) == Cardinality(Unchecked(e))
           let == [entry EXCEPT ![o] = [Counted(o) EXCEPT !.let = @ + 1]]
<1>1. req[r].pc = "first" /\ Done(r, "serving") /\ Reclaim(let)
  BY <1>0 DEF CountFirst, LetThrough
<1>2. req'[r].pc = "serving" /\ req'[r].at = None /\ \A q \in Checkers \ {r} : req'[q] = req[q]
  BY <1>1, DoneTyped
<1>3. /\ \A e \in Entries : Resetting(e)' = Resetting(e)
      /\ \A e \in Entries : e # o => Unchecked(e)' = Unchecked(e)
      /\ r \in Unchecked(o) /\ Unchecked(o)' = Unchecked(o) \ {r}
  BY <1>0, <1>1, <1>2 DEF Resetting, Unchecked
<1>4. z(o) \in Nat /\ f(o) \in Nat /\ z(o) + f(o) <= N /\ f(o) > 0
  BY <1>3, AtEntry
<1>5. Cardinality(Unchecked(o)') = f(o) - 1
  BY <1>3, SomeRequests, FS_RemoveElement DEF Unchecked
<1>6. Fair(entry[o].let, entry[o].count, z(o), f(o))
  BY DEF WindowInv, Bounded
<1>7. /\ let[o].let = entry[o].let + 1
      /\ let[o].count = IF entry[o].count > RateLimit THEN entry[o].count ELSE entry[o].count + 1
      /\ entry[o].let \in Nat /\ entry[o].count \in 0..RateLimit + 1
  <2>1. let[o] = [Counted(o) EXCEPT !.let = @ + 1]
    BY DEF LimitTypeOK
  <2> HIDE DEF let
  <2> QED
    BY <2>1, EntryTyped
<1>8. Fair(let[o].let, let[o].count, z(o), f(o) - 1)
  <2> HIDE DEF let, z, f
  <2> QED
    BY <1>4, <1>6, <1>7, FairUnchecked
<1>9. \A e \in Entries : e # o => let[e] = entry[e]
  BY DEF LimitTypeOK
<1> HIDE DEF let
<1>10. ASSUME NEW e \in Entries PROVE Bounded(e)'
  <2>1. Fair(let[e].let, let[e].count, Cardinality(Resetting(e)'), Cardinality(Unchecked(e)'))
    BY <1>3, <1>5, <1>8, <1>9 DEF WindowInv, Bounded
  <2> QED
    BY <1>1, <2>1, CollectBounded
<1> QED
  BY <1>10 DEF WindowInv

\* A request resets the count and is unchecked from then on.
LEMMA ResetBounded ==
  ASSUME LimitTypeOK, WindowInv, NEW r \in Checkers, ResetCount(r) PROVE WindowInv'
<1>0. PICK o \in Entries : o = req[r].at
  BY DEF ResetCount, LimitTypeOK, Request, Holding
<1> DEFINE z(e) == Cardinality(Resetting(e))
           f(e) == Cardinality(Unchecked(e))
<1>1. /\ req[r].pc = "zero" /\ req' = [req EXCEPT ![r] = [req[r] EXCEPT !.pc = "first"]]
      /\ entry' = [entry EXCEPT ![o] = [entry[o] EXCEPT !.count = 0]]
  BY <1>0 DEF ResetCount, Go
<1>2. req'[r].pc = "first" /\ req'[r].at = o /\ \A q \in Checkers \ {r} : req'[q] = req[q]
  <2>1. req[r] \in Request /\ req'[r] = [req[r] EXCEPT !.pc = "first"]
    BY <1>1 DEF LimitTypeOK
  <2> QED
    BY <2>1, <1>0, <1>1 DEF LimitTypeOK, Request
<1>3. /\ \A e \in Entries : e # o => Resetting(e)' = Resetting(e) /\ Unchecked(e)' = Unchecked(e)
      /\ r \in Resetting(o) /\ Resetting(o)' = Resetting(o) \ {r}
      /\ r \notin Unchecked(o) /\ Unchecked(o)' = Unchecked(o) \union {r}
  BY <1>0, <1>1, <1>2 DEF Resetting, Unchecked
<1>4. z(o) \in Nat /\ f(o) \in Nat /\ z(o) + f(o) <= N /\ z(o) > 0
  BY <1>3, AtEntry
<1>5. Cardinality(Resetting(o)') = z(o) - 1 /\ Cardinality(Unchecked(o)') = f(o) + 1
  <2>0. IsFiniteSet(Resetting(o)) /\ IsFiniteSet(Unchecked(o))
    BY SomeRequests DEF Resetting, Unchecked
  <2>1. Cardinality(Resetting(o)') = z(o) - 1
    BY <1>3, <2>0, FS_RemoveElement
  <2>2. Cardinality(Unchecked(o)') = f(o) + 1
    BY <1>3, <2>0, FS_AddElement
  <2> QED
    BY <2>1, <2>2
<1>6. Fair(entry[o].let, entry[o].count, z(o), f(o))
  BY DEF WindowInv, Bounded
<1>7. /\ entry[o].let \in Nat /\ entry[o].count \in 0..RateLimit + 1
      /\ entry'[o].let = entry[o].let /\ entry'[o].count = 0
      /\ \A e \in Entries : e # o => entry'[e] = entry[e]
  <2>1. entry'[o] = [entry[o] EXCEPT !.count = 0] /\ entry[o] \in Entry
        /\ \A e \in Entries : e # o => entry'[e] = entry[e]
    BY <1>1 DEF LimitTypeOK
  <2> QED
    BY <2>1 DEF Entry
<1>8. Fair(entry'[o].let, entry'[o].count, z(o) - 1, f(o) + 1)
  <2> HIDE DEF z, f
  <2> QED
    BY <1>4, <1>6, <1>7, FairResets
<1>9. Bounded(o)'
  BY <1>5, <1>8 DEF Bounded
<1>10. ASSUME NEW e \in Entries, e # o PROVE Bounded(e)'
  BY <1>3, <1>7, <1>10 DEF WindowInv, Bounded
<1> QED
  BY <1>9, <1>10 DEF WindowInv

\* A request opens a window, in which nobody was let through yet.
LEMMA SwapBounded ==
  ASSUME LimitTypeOK, WindowInv, NEW r \in Checkers, Swap(r) PROVE WindowInv'
<1>0. PICK o \in Entries : o = req[r].at
  BY DEF Swap, LimitTypeOK, Request, Holding
<1> DEFINE z(e) == Cardinality(Resetting(e))
           f(e) == Cardinality(Unchecked(e))
           won == [req[r] EXCEPT !.pc = "zero", !.now = 0, !.seen = 0]
           lost == [req[r] EXCEPT !.pc = "load", !.seen = 0]
<1>1. req[r].pc = "swap" /\ req[r] \in Request
      /\ won.pc = "zero" /\ won.at = o /\ lost.pc = "load"
  BY <1>0 DEF Swap, LimitTypeOK, Request
<1>2. CASE entry[o].start = req[r].seen
  <2>1. /\ entry' = [entry EXCEPT ![o] = [entry[o] EXCEPT !.start = req[r].now, !.let = 0]]
        /\ req' = [req EXCEPT ![r] = won]
    BY <1>0, <1>2 DEF Swap, LimitTypeOK
  <2> HIDE DEF won
  <2>2. req'[r].pc = "zero" /\ req'[r].at = o /\ \A q \in Checkers \ {r} : req'[q] = req[q]
    BY <1>1, <2>1 DEF LimitTypeOK
  <2>3. /\ \A e \in Entries : e # o => Resetting(e)' = Resetting(e)
        /\ \A e \in Entries : Unchecked(e)' = Unchecked(e)
        /\ r \notin Resetting(o) /\ r \notin Unchecked(o)
        /\ Resetting(o)' = Resetting(o) \union {r}
    BY <1>1, <2>2 DEF Resetting, Unchecked
  <2>4. z(o) \in Nat /\ f(o) \in Nat /\ z(o) + f(o) < N
    BY <2>3, AtEntry
  <2>5. Cardinality(Resetting(o)') = z(o) + 1
    BY <2>3, SomeRequests, FS_AddElement DEF Resetting
  <2>6. /\ entry'[o].let = 0 /\ entry'[o].count = entry[o].count
        /\ entry[o].count \in 0..RateLimit + 1
        /\ \A e \in Entries : e # o => entry'[e] = entry[e]
    <3>1. /\ entry[o] \in Entry
          /\ entry'[o] = [entry[o] EXCEPT !.start = req[r].now, !.let = 0]
          /\ \A e \in Entries : e # o => entry'[e] = entry[e]
      BY <2>1 DEF LimitTypeOK
    <3> QED
      BY <3>1 DEF Entry
  <2>7. Fair(0, entry[o].count, z(o) + 1, f(o))
    <3> HIDE DEF z, f
    <3> QED
      BY <2>4, <2>6, FairOpens
  <2>8. Bounded(o)'
    BY <2>3, <2>5, <2>6, <2>7 DEF Bounded
  <2>9. ASSUME NEW e \in Entries, e # o PROVE Bounded(e)'
    BY <2>3, <2>6, <2>9 DEF WindowInv, Bounded
  <2> QED
    BY <2>8, <2>9 DEF WindowInv
<1>3. CASE entry[o].start # req[r].seen
  <2>1. UNCHANGED entry /\ req' = [req EXCEPT ![r] = lost]
    BY <1>0, <1>3 DEF Swap
  <2> HIDE DEF lost
  <2>2. req'[r].pc = "load" /\ \A q \in Checkers \ {r} : req'[q] = req[q]
    BY <1>1, <2>1 DEF LimitTypeOK
  <2>3. \A e : Resetting(e)' = Resetting(e) /\ Unchecked(e)' = Unchecked(e)
    BY <1>1, <2>2, BystanderKeeps
  <2> QED
    BY <2>1, <2>3 DEF WindowInv, Bounded
<1> QED
  BY <1>2, <1>3

LEMMA WindowStep == LimitTypeOK /\ WindowInv /\ [LimitNext]_limitVars => WindowInv'
<1> SUFFICES ASSUME LimitTypeOK, WindowInv, [LimitNext]_limitVars PROVE WindowInv'
  OBVIOUS
<1>1. ASSUME UNCHANGED <<entry, req>> PROVE WindowInv'
  BY <1>1 DEF WindowInv, Bounded, Resetting, Unchecked
<1>2. ASSUME NEW r \in Checkers,
             Lookup(r) \/ Succeed(r) \/ Fail(r) \/ ReadClock(r) \/ LoadOrStore(r) \/ LoadWindow(r)
      PROVE  WindowInv'
  <2>1. UNCHANGED entry /\ req[r].pc \notin {"zero", "first"}
    BY <1>2 DEF Lookup, Succeed, Fail, ReadClock, LoadOrStore, LoadWindow, mapVars
  <2> DEFINE Elsewhere == \E new : req' = [req EXCEPT ![r] = new] /\ new.pc \notin {"zero", "first"}
  <2>2. Elsewhere
    <3>1. req[r] \in Request
      BY DEF LimitTypeOK
    <3>2. /\ [Idle EXCEPT !.pc = "idle"].pc = "idle"
          /\ [req[r] EXCEPT !.pc = "allowed"].pc = "allowed"
          /\ [req[r] EXCEPT !.pc = "timed", !.now = clock].pc = "timed"
          /\ \A e : [req[r] EXCEPT !.pc = "load", !.at = e].pc = "load"
          /\ \A s : [req[r] EXCEPT !.pc = "swap", !.seen = s].pc = "swap"
          /\ [req[r] EXCEPT !.pc = "count", !.now = 0].pc = "count"
      BY <3>1 DEF Idle, Request
    <3>3. CASE Lookup(r)
      <4>1. req' = [req EXCEPT ![r] = [req[r] EXCEPT !.pc = "allowed"]]
        BY <3>3 DEF Lookup, Go
      <4> QED
        BY <3>2, <4>1
    <3>4. CASE Succeed(r) \/ Fail(r)
      <4>1. req' = [req EXCEPT ![r] = [Idle EXCEPT !.pc = "idle"]]
        BY <3>4 DEF Succeed, Fail, Done
      <4> QED
        BY <3>2, <4>1
    <3>5. CASE ReadClock(r)
      <4>1. req' = [req EXCEPT ![r] = [req[r] EXCEPT !.pc = "timed", !.now = clock]]
        BY <3>5 DEF ReadClock
      <4> QED
        BY <3>2, <4>1
    <3>6. CASE LoadOrStore(r)
      <4>1. PICK e : req' = [req EXCEPT ![r] = [req[r] EXCEPT !.pc = "load", !.at = e]]
        BY <3>6 DEF LoadOrStore
      <4> QED
        BY <3>2, <4>1
    <3>7. CASE LoadWindow(r)
      <4>1. \/ \E s : req' = [req EXCEPT ![r] = [req[r] EXCEPT !.pc = "swap", !.seen = s]]
            \/ req' = [req EXCEPT ![r] = [req[r] EXCEPT !.pc = "count", !.now = 0]]
        BY <3>7 DEF LoadWindow
      <4>2. ASSUME NEW s, req' = [req EXCEPT ![r] = [req[r] EXCEPT !.pc = "swap", !.seen = s]]
            PROVE  Elsewhere
        BY <3>2, <4>2
      <4>3. CASE req' = [req EXCEPT ![r] = [req[r] EXCEPT !.pc = "count", !.now = 0]]
        BY <3>2, <4>3
      <4> HIDE DEF Elsewhere
      <4> QED
        BY <4>1, <4>2, <4>3
    <3> HIDE DEF Elsewhere
    <3> QED
      BY <1>2, <3>3, <3>4, <3>5, <3>6, <3>7
  <2>3. req'[r].pc \notin {"zero", "first"} /\ \A q \in Checkers \ {r} : req'[q] = req[q]
    BY <2>2 DEF LimitTypeOK
  <2>4. \A e : Resetting(e)' = Resetting(e) /\ Unchecked(e)' = Unchecked(e)
    BY <2>1, <2>3, BystanderKeeps
  <2> QED
    BY <2>1, <2>4 DEF WindowInv, Bounded
<1>3. ASSUME NEW r \in Checkers, Check(r) PROVE WindowInv'
  BY <1>2, <1>3, SwapBounded, ResetBounded, CountFirstBounded, CountBounded DEF Check
<1>4. CASE CleanupDeletes
  <2>1. UNCHANGED req /\ Reclaim(entry)
    BY <1>4 DEF CleanupDeletes
  <2>2. \A e : Resetting(e)' = Resetting(e) /\ Unchecked(e)' = Unchecked(e)
    BY <2>1 DEF Resetting, Unchecked
  <2>3. ASSUME NEW e \in Entries PROVE Bounded(e)'
    BY <2>1, <2>2, CollectBounded DEF WindowInv, Bounded
  <2> QED
    BY <2>3 DEF WindowInv
<1> QED
  BY <1>1, <1>2, <1>3, <1>4
  DEF LimitNext, limitVars, mapVars, ResetDailyUsage, PatchGet, PatchSave, PatchFails, CleanupLooks, Tick

\* However many requests open windows, reset the count late and count at once, a window
\* lets through less than the limit and one for each request in flight.
THEOREM WindowsAreBounded == LimitSpec => []WindowBounded
<1>1. LimitInit => WindowInv
  <2> SUFFICES ASSUME LimitInit, NEW e \in Entries PROVE Bounded(e)
    BY DEF WindowInv
  <2>1. Resetting(e) = {} /\ Unchecked(e) = {} /\ entry[e].let = 0 /\ entry[e].count = 0
    BY DEF LimitInit, Resetting, Unchecked, Idle, NewEntry
  <2>2. Cardinality({}) = 0
    BY FS_EmptySet
  <2> QED
    BY <2>1, <2>2, FairNew DEF Bounded
<1>2. LimitTypeOK /\ WindowInv => WindowBounded
  <2> SUFFICES ASSUME LimitTypeOK, WindowInv, NEW e \in Entries
               PROVE  entry[e].let < (RateLimit + 1) * N
    BY DEF WindowBounded, N
  <2> DEFINE z == Cardinality(Resetting(e))
             f == Cardinality(Unchecked(e))
  <2>1. z \in Nat /\ f \in Nat /\ entry[e].let \in Nat /\ Known(entry[e].count) \in 0..RateLimit
    BY AtEntry, EntryTyped, KnownTyped
  <2>2. Fair(entry[e].let, entry[e].count, z, f)
    BY DEF WindowInv, Bounded
  <2>3. (RateLimit + 1) * N > 0 /\ (RateLimit + 1) * N \in Nat
    BY SomeRequest, Numbers
  <2>4. (RateLimit + 1) * z \in Nat
    BY <2>1, Times
  <2> HIDE DEF z, f
  <2> QED
    BY <2>1, <2>2, <2>3, <2>4, Numbers DEF Fair
<1> QED
  BY <1>1, <1>2, InitTyped, TypeStep, WindowStep, PTL DEF LimitSpec

-----------------------------------------------------------------------------
(***************************************************************************)
(* Failed admin logins: types.                                             *)
(***************************************************************************)
LEMMA AdminNumbers ==
  /\ MaxFailures \in Nat /\ MaxFailures > 0 /\ FailWindow \in Nat /\ FailWindow > 0
  /\ LastTick \in Nat /\ FailWindow <= LastTick /\ NoRecord \notin Records
BY AdminAssumption

\* There are more records than requests: one is free for a new entry.
LEMMA RecordIsFree ==
  ASSUME AdminTypeOK, mapped = NoRecord
  PROVE  \E e \in Records : e # mapped /\ \A q \in Logins : login[q].rec # e
<1> SUFFICES ASSUME \A e \in Records : \E q \in Logins : login[q].rec = e PROVE FALSE
  BY AdminNumbers
<1> DEFINE holder == [e \in Records |-> CHOOSE q \in Logins : login[q].rec = e]
<1>1. holder \in [Records -> Logins] /\ \A e \in Records : login[holder[e]].rec = e
  OBVIOUS
<1> HIDE DEF holder
<1>2. Cardinality(Logins) < Cardinality(Records)
  BY AdminAssumption, FS_CardinalityType
<1>3. \E x, y \in Records : x # y /\ holder[x] = holder[y]
  BY <1>1, <1>2, AdminAssumption, FS_PigeonHole
<1> QED
  BY <1>1, <1>3

LEMMA AdminStarts == ASSUME AdminInit PROVE AdminTypeOK
<1>1. NewRecord \in LimitEntry /\ NotLoggingIn \in Login
  BY AdminNumbers DEF NewRecord, NotLoggingIn, LimitEntry, Login, Places
<1>2. ticks \in FailWindow..LastTick /\ 0 <= ticks
  BY AdminNumbers DEF AdminInit
<1>3. \A r \in Logins : login[r].now = 0 /\ login[r].rec = NoRecord /\ login[r].at = "idle"
  BY DEF AdminInit, NotLoggingIn
<1> QED
  BY <1>1, <1>2, <1>3 DEF AdminInit, AdminTypeOK

LEMMA SetsTyped ==
  ASSUME AdminTypeOK, NEW r \in Logins, login[r].rec \in Records
  PROVE  /\ \A c \in 0..MaxFailures : [record EXCEPT ![login[r].rec]["count"] = c] \in [Records -> LimitEntry]
         /\ \A t \in 0..LastTick : [record EXCEPT ![login[r].rec]["start"] = t] \in [Records -> LimitEntry]
         /\ \A f \in Nat : [record EXCEPT ![login[r].rec]["failures"] = f] \in [Records -> LimitEntry]
BY DEF AdminTypeOK, LimitEntry

LEMMA MovesTyped ==
  ASSUME AdminTypeOK, NEW r \in Logins, NEW from, NEW to, Moves(r, from, to),
         from \notin {"idle", "timed"},
         to \in {"load", "look", "zero", "close", "serve", "open", "swap", "count"},
         record' \in [Records -> LimitEntry]
  PROVE  AdminTypeOK'
BY DEF AdminTypeOK, Moves, Login, Places

LEMMA LeavesTyped ==
  ASSUME AdminTypeOK, NEW r \in Logins, NEW recs \in [Records -> LimitEntry], Leaves(r, recs)
  PROVE  AdminTypeOK'
<1>1. record' \in [Records -> LimitEntry]
  BY AdminNumbers DEF Leaves, NewRecord, LimitEntry
<1> QED
  BY <1>1, AdminNumbers DEF AdminTypeOK, Leaves, NotLoggingIn, Login, Places


\* A request that is at a record, and what the record holds.
LEMMA AtRecord ==
  ASSUME AdminTypeOK, NEW r \in Logins
  PROVE  /\ login[r] \in Login /\ login[r].now \in 0..LastTick /\ ticks \in Nat
         /\ login[r].at \notin {"idle", "timed"} => login[r].rec \in Records
         /\ \A e \in Records : /\ record[e] \in LimitEntry /\ record[e].failures \in Nat
                               /\ record[e].count \in 0..MaxFailures /\ record[e].start \in 0..LastTick
BY AdminNumbers DEF AdminTypeOK, Login, LimitEntry

LEMMA RecordTyped ==
  ASSUME AdminTypeOK, NEW e \in Records
  PROVE  /\ record[e].start \in Nat /\ record[e].failures \in Nat
         /\ record[e].count \in 0..MaxFailures /\ ticks \in Nat
<1>1. record[e] \in LimitEntry /\ ticks \in FailWindow..LastTick
  BY DEF AdminTypeOK
<1> QED
  BY <1>1, AdminNumbers DEF LimitEntry

LEMMA LoginTyped ==
  ASSUME AdminTypeOK, NEW r \in Logins,
         \/ ReadsClock(r) \/ LoadsOrStores(r) \/ LoadsWindow(r) \/ Refused(r) \/ LetIn(r)
         \/ ClearsCount(r) \/ ClosesWindow(r) \/ Answers401(r) \/ AnswersElse(r)
         \/ LoadsStart(r) \/ OpensWindow(r) \/ CountsFailure(r)
  PROVE  AdminTypeOK'
<1> DEFINE e == login[r].rec
<1>1. record \in [Records -> LimitEntry]
  BY DEF AdminTypeOK
<1>2. CASE ReadsClock(r)
  <2>1. /\ login[r].at = "idle" /\ login[r].rec = NoRecord /\ ticks \in 0..LastTick /\ ticks <= ticks
        /\ login' = [login EXCEPT ![r] = [login[r] EXCEPT !.at = "timed", !.now = ticks]]
        /\ UNCHANGED <<record, mapped, old, ticks>>
    BY <1>2, AdminNumbers DEF ReadsClock, AdminTypeOK
  <2>2. [login[r] EXCEPT !.at = "timed", !.now = ticks] \in Login
    BY <2>1, AtRecord DEF Login, Places
  <2>3. login' \in [Logins -> Login] /\ login'[r].now = ticks /\ login'[r].rec = NoRecord
        /\ login'[r].at = "timed" /\ \A q \in Logins \ {r} : login'[q] = login[q]
    BY <2>1, <2>2 DEF AdminTypeOK, Login
  <2> QED
    BY <2>1, <2>3 DEF AdminTypeOK
<1>3. CASE LoadsOrStores(r)
  <2>1. PICK f \in Records : mapped' = f /\ login' = [login EXCEPT ![r] = [@ EXCEPT !.at = "load", !.rec = f]]
    <3> DEFINE unused == {x \in Records : x # mapped /\ \A q \in Logins : login[q].rec # x}
               f == IF mapped = NoRecord THEN CHOOSE x \in unused : TRUE ELSE mapped
    <3>1. mapped = NoRecord => unused # {}
      BY RecordIsFree
    <3>2. f \in Records
      BY <3>1 DEF AdminTypeOK
    <3>3. mapped' = f /\ login' = [login EXCEPT ![r] = [@ EXCEPT !.at = "load", !.rec = f]]
      BY <1>3 DEF LoadsOrStores
    <3> QED
      BY <3>2, <3>3
  <2> QED
    <3>1. /\ [login[r] EXCEPT !.at = "load", !.rec = f] \in Login
          /\ login' = [login EXCEPT ![r] = [login[r] EXCEPT !.at = "load", !.rec = f]]
      BY <2>1, AtRecord DEF Login, Places
    <3>2. login' \in [Logins -> Login] /\ login'[r].now = login[r].now /\ login'[r].rec = f
          /\ login'[r].at = "load" /\ \A q \in Logins \ {r} : login'[q] = login[q]
      BY <3>1 DEF AdminTypeOK, Login
    <3>3. UNCHANGED <<record, old, ticks>> /\ mapped' \in Records
      BY <1>3, <2>1 DEF LoadsOrStores
    <3> QED
      BY <3>2, <3>3, AdminNumbers DEF AdminTypeOK
<1>4. CASE LoadsWindow(r) \/ LetIn(r) \/ LoadsStart(r)
  <2>1. PICK from \in Places, to \in Places :
          /\ Moves(r, from, to) /\ from \notin {"idle", "timed"} /\ to \notin {"idle", "timed"}
          /\ UNCHANGED record
    BY <1>4 DEF LoadsWindow, LetIn, LoadsStart, Places
  <2> QED
    BY <1>1, <2>1, MovesTyped DEF Places
<1>5. CASE Refused(r) \/ AnswersElse(r)
  BY <1>1, <1>5, LeavesTyped DEF Refused, AnswersElse
<1>6. CASE ClearsCount(r)
  <2>1. e \in Records
    BY <1>6, AtRecord DEF ClearsCount, Moves
  <2>2. record' \in [Records -> LimitEntry]
    BY <1>6, <2>1, SetsTyped, AdminNumbers DEF ClearsCount, Sets
  <2> QED
    BY <1>6, <2>2, MovesTyped DEF ClearsCount
<1>7. CASE ClosesWindow(r)
  <2>1. e \in Records
    BY <1>7, AtRecord DEF ClosesWindow, Moves
  <2>2. record' \in [Records -> LimitEntry]
    BY <1>7, <2>1, SetsTyped, AdminNumbers DEF ClosesWindow, Sets
  <2> QED
    BY <1>7, <2>2, MovesTyped DEF ClosesWindow
<1>8. CASE Answers401(r)
  <2>1. e \in Records
    BY <1>8, AtRecord DEF Answers401, Moves
  <2>2. record[e].failures + 1 \in Nat
    BY <2>1, AtRecord
  <2>3. record' \in [Records -> LimitEntry]
    BY <1>8, <2>1, <2>2, SetsTyped DEF Answers401, Sets
  <2> QED
    BY <1>8, <2>3, MovesTyped DEF Answers401
<1>9. CASE OpensWindow(r)
  <2>1. e \in Records /\ login[r].now \in 0..LastTick
    BY <1>9, AtRecord DEF OpensWindow, Moves
  <2>2. record' = IF record[e].start = 0
                    THEN [record EXCEPT ![e].start = login[r].now, ![e].failures = 1]
                    ELSE record
    BY <1>9 DEF OpensWindow
  <2>3. record' \in [Records -> LimitEntry]
    BY <1>1, <2>1, <2>2 DEF LimitEntry
  <2> QED
    BY <1>9, <2>3, MovesTyped DEF OpensWindow
<1>10. CASE CountsFailure(r)
  <2> DEFINE recs == [record EXCEPT ![e].count = IF Exhausts(e) THEN @ ELSE @ + 1]
  <2>1. e \in Records
    BY <1>10, AtRecord DEF CountsFailure
  <2>2. (IF Exhausts(e) THEN record[e].count ELSE record[e].count + 1) \in 0..MaxFailures
    BY <2>1, AtRecord, AdminNumbers DEF Exhausts
  <2>3. recs \in [Records -> LimitEntry]
    BY <1>1, <2>1, <2>2 DEF LimitEntry
  <2>4. Leaves(r, recs)
    BY <1>10 DEF CountsFailure
  <2> HIDE DEF recs
  <2> QED
    BY <2>3, <2>4, LeavesTyped
<1> QED
  BY <1>2, <1>3, <1>4, <1>5, <1>6, <1>7, <1>8, <1>9, <1>10

LEMMA AdminTypesKept == AdminTypeOK /\ [AdminNext]_adminVars => AdminTypeOK'
<1> SUFFICES ASSUME AdminTypeOK, [AdminNext]_adminVars PROVE AdminTypeOK'
  OBVIOUS
<1>1. CASE \E r \in Logins :
             \/ ReadsClock(r) \/ LoadsOrStores(r) \/ LoadsWindow(r) \/ Refused(r) \/ LetIn(r)
             \/ ClearsCount(r) \/ ClosesWindow(r) \/ Answers401(r) \/ AnswersElse(r)
             \/ LoadsStart(r) \/ OpensWindow(r) \/ CountsFailure(r)
  BY <1>1, LoginTyped
<1>2. CASE FindsOld
  BY <1>2 DEF FindsOld, AdminTypeOK
<1>3. CASE DropsOld
  <2>1. record' \in [Records -> LimitEntry]
    BY <1>3, AdminNumbers DEF DropsOld, AdminTypeOK, NewRecord, LimitEntry
  <2> QED
    BY <1>3, <2>1 DEF DropsOld, AdminTypeOK
<1>4. CASE AdminTick
  <2>1. ticks' \in FailWindow..LastTick /\ ticks <= ticks' /\ ticks \in Nat /\ ticks' \in Nat
    BY <1>4, AdminNumbers DEF AdminTick, AdminTypeOK
  <2>2. \A r \in Logins : login[r].now \in Nat /\ login[r].now <= ticks
    BY AtRecord DEF AdminTypeOK
  <2>3. \A r \in Logins : login'[r].now <= ticks'
    BY <1>4, <2>1, <2>2 DEF AdminTick
  <2> QED
    BY <1>4, <2>1, <2>3 DEF AdminTick, AdminTypeOK
<1>5. CASE UNCHANGED adminVars
  BY <1>5 DEF adminVars, AdminTypeOK
<1> QED
  BY <1>1, <1>2, <1>3, <1>4, <1>5 DEF AdminNext


-----------------------------------------------------------------------------
(***************************************************************************)
(* Failed admin logins: how many a window answers.  While the window runs, *)
(* every request that found an older one over will first clear the count   *)
(* and then close this window.  Of L requests, k are such requests, of     *)
(* which z have not cleared the count yet; p have failed without being     *)
(* counted and v are with the handler.  The others can fail as often as    *)
(* the count c leaves open, and a full round more after each clearing.     *)
(* Once the window is over, only requests that read the clock before may   *)
(* fail in it without closing it, once each.                               *)
(***************************************************************************)
L == Cardinality(Logins)

Open(c, k, p, v) == IF c < MaxFailures THEN MaxFailures - 1 - c + L - k - p ELSE v

Running(f, c, z, k, p, v) ==
  k < L /\ f + Open(c, k, p, v) + z * Round(k) <= (k + 1) * Round(k)

At(e, places) == {r \in Logins : login[r].rec = e /\ login[r].at \in places}
Clearing(e) == At(e, {"zero"})
Closing(e) == At(e, {"zero", "close"})
Failed(e) == At(e, {"open", "swap", "count"})
Served(e) == At(e, {"serve"})

\* Checkers that can fail in the window without having found it over.
Timely(e) ==
  {r \in Logins :
     \/ login[r].rec = e /\ login[r].at \in {"look", "serve"}
     \/ /\ login[r].at = "timed" \/ (login[r].rec = e /\ login[r].at = "load")
        /\ login[r].now - record[e].start < FailWindow}

Ended(e) == ticks - record[e].start >= FailWindow

RunningInv(e) ==
  Running(record[e].failures, record[e].count, Cardinality(Clearing(e)), Cardinality(Closing(e)),
          Cardinality(Failed(e)), Cardinality(Served(e)))

\* Nobody fails any more before one of the timely requests has been refused.
Waiting(e) ==
  /\ record[e].count >= MaxFailures /\ Timely(e) # {}
  /\ \A r \in Logins : r \in At(e, {"close"}) \/ (r \in Timely(e) /\ login[r].at # "serve")

EndedInv(e) ==
  \E k \in 0..(L - 1) :
    \/ record[e].failures + Cardinality(Timely(e)) <= MostFailures(k)
    \/ Waiting(e) /\ record[e].failures + Cardinality(Timely(e)) <= MostFailures(k) + 1

RecordInv(e) == record[e].start # 0 => IF Ended(e) THEN EndedInv(e) ELSE RunningInv(e)
FailuresInv == \A e \in Records : RecordInv(e)

LEMMA SomeLogin == L \in Nat /\ L > 0
<1>1. L \in Nat /\ L # 0
  BY AdminAssumption, FS_CardinalityType, FS_EmptySet DEF L
<1> QED
  BY <1>1

\* The arithmetic of a round.
LEMMA Rounds ==
  ASSUME NEW k \in Nat, k < L
  PROVE  /\ Round(k) \in Nat /\ Round(k) = MaxFailures - 1 + L - k /\ Round(k) >= L - k
         /\ (k + 1) * Round(k) \in Nat
         /\ MostFailures(k) = (k + 1) * Round(k) + L - k - 1 /\ MostFailures(k) \in Nat
         /\ \A z \in Nat : /\ z * Round(k) \in Nat
                           /\ z > 0 => z * Round(k) = (z - 1) * Round(k) + Round(k)
                           /\ z <= k => z * Round(k) + Round(k) <= (k + 1) * Round(k)
<1>1. /\ Round(k) \in Nat /\ Round(k) = MaxFailures - 1 + L - k /\ Round(k) >= L - k
  BY SomeLogin, AdminNumbers DEF Round, L
<1>2. ASSUME NEW x \in Nat, NEW z \in Nat
      PROVE  /\ z * x \in Nat /\ (k + 1) * x \in Nat
             /\ z > 0 => z * x = (z - 1) * x + x
             /\ z <= k => z * x + x <= (k + 1) * x
  <2>1. z * x \in Nat /\ (k + 1) * x \in Nat /\ (z > 0 => z * x = (z - 1) * x + x)
    OBVIOUS
  <2>2. ASSUME z <= k PROVE z * x + x <= (k + 1) * x
    <3>1. PICK d \in Nat : k = z + d
      <4>1. k - z \in Nat /\ k = z + (k - z)
        BY <2>2
      <4> QED
        BY <4>1
    <3>2. (k + 1) * x = z * x + d * x + x /\ d * x \in Nat
      BY <3>1
    <3> QED
      BY <2>1, <3>2
  <2> QED
    BY <2>1, <2>2
<1>3. (k + 1) * Round(k) \in Nat
  BY <1>1, <1>2
<1>4. MostFailures(k) = (k + 1) * Round(k) + L - k - 1 /\ MostFailures(k) \in Nat
  BY <1>3, SomeLogin DEF MostFailures, L
<1> QED
  BY <1>1, <1>2, <1>3, <1>4

\* Open, and how it changes.
LEMMA OpenTyped ==
  ASSUME NEW c \in 0..MaxFailures, NEW k \in Nat, NEW p \in Nat, NEW v \in Nat, k + p + v <= L
  PROVE  /\ Open(c, k, p, v) \in Nat
         /\ c < MaxFailures => Open(c, k, p, v) = MaxFailures - 1 - c + L - k - p
         /\ c = MaxFailures => Open(c, k, p, v) = v
BY SomeLogin, AdminNumbers DEF Open


\* A failure, a count, a refusal or an answer, and the clearing of the count.
LEMMA RunningMoves ==
  ASSUME NEW f \in Nat, NEW c \in 0..MaxFailures, NEW z \in Nat, NEW k \in Nat, NEW p \in Nat,
         NEW v \in Nat, k + p + v <= L, z <= k, Running(f, c, z, k, p, v)
  PROVE  /\ v > 0 => Running(f + 1, c, z, k, p + 1, v - 1)
         /\ v > 0 => Running(f, c, z, k, p, v - 1)
         /\ c < MaxFailures => \A w \in Nat : Running(f, c, z, k, p, w)
         /\ p > 0 /\ c < MaxFailures => Running(f, c + 1, z, k, p - 1, v)
         /\ p > 0 /\ c = MaxFailures => Running(f, c, z, k, p - 1, v)
         /\ z > 0 => Running(f, 0, z - 1, k, p, v)
<1>0. k < L /\ L \in Nat
  BY SomeLogin DEF Running
<1> DEFINE R == z * Round(k)
           T == (k + 1) * Round(k)
<1>1. /\ R \in Nat /\ T \in Nat /\ Round(k) \in Nat /\ Round(k) = MaxFailures - 1 + L - k
      /\ z > 0 => R = (z - 1) * Round(k) + Round(k) /\ (z - 1) * Round(k) \in Nat
  BY <1>0, Rounds
<1>2. f + Open(c, k, p, v) + R <= T
  BY DEF Running
<1>3. /\ Open(c, k, p, v) \in Nat
      /\ c < MaxFailures => Open(c, k, p, v) = MaxFailures - 1 - c + L - k - p
      /\ c = MaxFailures => Open(c, k, p, v) = v
  BY OpenTyped
<1>4. \A g, h, i, j : Running(g, h, z, k, i, j) <=> g + Open(h, k, i, j) + R <= T
  BY <1>0 DEF Running
<1>5. \A g, h, i, j : Running(g, h, z - 1, k, i, j) <=> g + Open(h, k, i, j) + (z - 1) * Round(k) <= T
  BY <1>0 DEF Running
<1> HIDE DEF R, T
<1>6. ASSUME v > 0 PROVE Running(f + 1, c, z, k, p + 1, v - 1) /\ Running(f, c, z, k, p, v - 1)
  <2>1. /\ c < MaxFailures => Open(c, k, p + 1, v - 1) = MaxFailures - 1 - c + L - k - (p + 1)
        /\ c = MaxFailures => Open(c, k, p + 1, v - 1) = v - 1
        /\ c < MaxFailures => Open(c, k, p, v - 1) = MaxFailures - 1 - c + L - k - p
        /\ c = MaxFailures => Open(c, k, p, v - 1) = v - 1
    BY AdminNumbers DEF Open
  <2>2. c < MaxFailures \/ c = MaxFailures
    BY AdminNumbers
  <2>3. /\ 1 + Open(c, k, p + 1, v - 1) = Open(c, k, p, v)
        /\ Open(c, k, p, v - 1) <= Open(c, k, p, v)
        /\ Open(c, k, p + 1, v - 1) \in Int /\ Open(c, k, p, v - 1) \in Int
    BY <1>0, <1>3, <2>1, <2>2, AdminNumbers
  <2> QED
    BY <1>1, <1>2, <1>3, <1>4, <2>3
<1>7. ASSUME c < MaxFailures, NEW w \in Nat PROVE Running(f, c, z, k, p, w)
  <2>1. Open(c, k, p, w) = Open(c, k, p, v)
    BY <1>7 DEF Open
  <2> QED
    BY <1>2, <1>4, <2>1
<1>8. ASSUME p > 0, c < MaxFailures PROVE Running(f, c + 1, z, k, p - 1, v)
  <2>1. /\ c + 1 < MaxFailures => Open(c + 1, k, p - 1, v) = MaxFailures - 1 - (c + 1) + L - k - (p - 1)
        /\ c + 1 = MaxFailures => Open(c + 1, k, p - 1, v) = v
    BY AdminNumbers DEF Open
  <2>2. c + 1 < MaxFailures \/ c + 1 = MaxFailures
    BY <1>8, AdminNumbers
  <2>3. Open(c + 1, k, p - 1, v) <= Open(c, k, p, v) /\ Open(c + 1, k, p - 1, v) \in Int
    BY <1>0, <1>3, <1>8, <2>1, <2>2, AdminNumbers
  <2> QED
    BY <1>1, <1>2, <1>3, <1>4, <2>3
<1>9. ASSUME p > 0, c = MaxFailures PROVE Running(f, c, z, k, p - 1, v)
  <2>1. Open(c, k, p - 1, v) = Open(c, k, p, v)
    BY <1>9, AdminNumbers DEF Open
  <2> QED
    BY <1>2, <1>4, <2>1
<1>10. ASSUME z > 0 PROVE Running(f, 0, z - 1, k, p, v)
  <2>1. Open(0, k, p, v) = MaxFailures - 1 + L - k - p
    BY AdminNumbers, SomeLogin DEF Open
  <2>2. Open(0, k, p, v) <= Round(k) /\ Open(0, k, p, v) \in Int
    BY <1>0, <1>1, <2>1, AdminNumbers
  <2> QED
    BY <1>1, <1>2, <1>3, <1>5, <1>10, <2>2
<1> QED
  BY <1>6, <1>7, <1>8, <1>9, <1>10

\* The request whose failure is the first of the window is not counted yet.
LEMMA RunningOpens ==
  ASSUME NEW c \in 0..MaxFailures, NEW z \in Nat, NEW k \in Nat, NEW p \in Nat,
         NEW v \in Nat, k + p + v <= L, z <= k, p > 0
  PROVE  Running(1, c, z, k, p, v)
<1>0. k < L /\ L \in Nat /\ k + p <= L /\ k + v < L
  BY SomeLogin
<1>1. /\ z * Round(k) + Round(k) <= (k + 1) * Round(k) /\ z * Round(k) \in Nat /\ (k + 1) * Round(k) \in Nat
      /\ Round(k) \in Nat /\ Round(k) = MaxFailures - 1 + L - k
  BY <1>0, Rounds
<1>2. /\ Open(c, k, p, v) \in Nat
      /\ c < MaxFailures => Open(c, k, p, v) = MaxFailures - 1 - c + L - k - p
      /\ c = MaxFailures => Open(c, k, p, v) = v
  BY OpenTyped
<1>3. 1 + Open(c, k, p, v) <= Round(k)
  <2>1. c < MaxFailures \/ c = MaxFailures
    BY AdminNumbers
  <2> QED
    BY <1>0, <1>1, <1>2, <2>1, AdminNumbers
<1> DEFINE R == z * Round(k)
           T == (k + 1) * Round(k)
<1>4. R \in Nat /\ T \in Nat /\ R + Round(k) <= T
  BY <1>1
<1>5. Running(1, c, z, k, p, v) <=> 1 + Open(c, k, p, v) + R <= T
  BY <1>0 DEF Running
<1> HIDE DEF R, T
<1> QED
  BY <1>1, <1>2, <1>3, <1>4, <1>5

\* What a window that ran has left when it ends, with t timely requests, v of them served.
LEMMA RunningEnds ==
  ASSUME NEW f \in Nat, NEW c \in 0..MaxFailures, NEW z \in Nat, NEW k \in Nat, NEW p \in Nat,
         NEW v \in Nat, NEW t \in Nat, k + p + t <= L, v <= t, z <= k, Running(f, c, z, k, p, v)
  PROVE  /\ k \in 0..(L - 1)
         /\ \/ f + t <= MostFailures(k)
            \/ /\ c = MaxFailures /\ z = 0 /\ v = 0 /\ p = 0 /\ k + t = L
               /\ f + t <= MostFailures(k) + 1
<1>0. k < L /\ L \in Nat
  BY SomeLogin DEF Running
<1> DEFINE R == z * Round(k)
           T == (k + 1) * Round(k)
<1>1. /\ R \in Nat /\ T \in Nat /\ Round(k) \in Nat /\ Round(k) >= L - k
      /\ z > 0 => R >= Round(k)
      /\ MostFailures(k) = T + L - k - 1
  <2>1. z > 0 => z * Round(k) = (z - 1) * Round(k) + Round(k) /\ (z - 1) * Round(k) \in Nat
    BY <1>0, Rounds
  <2> QED
    BY <1>0, <2>1, Rounds
<1>2. f + Open(c, k, p, v) + R <= T
  BY DEF Running
<1>3. /\ Open(c, k, p, v) \in Nat
      /\ c < MaxFailures => Open(c, k, p, v) = MaxFailures - 1 - c + L - k - p
      /\ c = MaxFailures => Open(c, k, p, v) = v
  <2>1. k + p + v <= L
    BY <1>0
  <2> QED
    BY <2>1, OpenTyped
<1> HIDE DEF R, T
<1>4. CASE c < MaxFailures
  <2>1. Open(c, k, p, v) >= t
    BY <1>0, <1>3, <1>4, AdminNumbers
  <2>2. f + t <= T
    BY <1>1, <1>2, <1>3, <2>1
  <2> QED
    BY <1>0, <1>1, <2>2
<1>5. CASE c = MaxFailures /\ z > 0
  <2>1. f + Round(k) <= T
    BY <1>1, <1>2, <1>3, <1>5
  <2>2. f + t <= T
    BY <1>0, <1>1, <2>1
  <2> QED
    BY <1>0, <1>1, <2>2
<1>6. CASE c = MaxFailures /\ z = 0
  <2>1. f + v <= T
    BY <1>1, <1>2, <1>3, <1>6
  <2>2. t - v <= L - k - 1 \/ (v = 0 /\ p = 0 /\ k + t = L)
    BY <1>0
  <2> QED
    BY <1>0, <1>1, <1>6, <2>1, <2>2
<1> QED
  BY <1>4, <1>5, <1>6, AdminNumbers


LEMMA SomeLogins ==
  ASSUME NEW S \in SUBSET Logins
  PROVE  /\ IsFiniteSet(S) /\ Cardinality(S) \in Nat /\ Cardinality(S) <= L
         /\ Cardinality(S) = L => S = Logins
         /\ S # {} <=> Cardinality(S) > 0
<1>1. IsFiniteSet(S) /\ Cardinality(S) <= L /\ (Cardinality(S) = L => S = Logins)
  BY AdminAssumption, FS_Subset DEF L
<1> QED
  BY <1>1, FS_CardinalityType, FS_EmptySet

\* Two kinds of places where a request cannot be both.
LEMMA Apart ==
  ASSUME NEW S \in SUBSET Logins, NEW T \in SUBSET Logins, S \cap T = {}
  PROVE  Cardinality(S \cup T) = Cardinality(S) + Cardinality(T)
<1>1. Cardinality(S \cup T) = Cardinality(S) + Cardinality(T) - Cardinality(S \cap T)
  BY SomeLogins, FS_Union
<1> QED
  BY <1>1, SomeLogins, FS_EmptySet

\* A step of r moves r only.
LEMMA OneMoves ==
  ASSUME NEW S \in SUBSET Logins, NEW T \in SUBSET Logins, NEW r \in Logins, S \ {r} = T \ {r}
  PROVE  /\ (r \in S <=> r \in T) => T = S
         /\ r \in S /\ r \notin T => Cardinality(T) = Cardinality(S) - 1 /\ Cardinality(S) > 0
         /\ r \notin S /\ r \in T => Cardinality(T) = Cardinality(S) + 1
<1>1. (r \in S <=> r \in T) => T = S
  OBVIOUS
<1>2. ASSUME r \in S, r \notin T PROVE Cardinality(T) = Cardinality(S) - 1 /\ Cardinality(S) > 0
  <2>1. T = S \ {r} /\ S # {}
    BY <1>2
  <2> QED
    BY <1>2, <2>1, SomeLogins, FS_RemoveElement
<1>3. ASSUME r \notin S, r \in T PROVE Cardinality(T) = Cardinality(S) + 1
  <2>1. T = S \cup {r}
    BY <1>3
  <2> QED
    BY <1>3, <2>1, SomeLogins, FS_AddElement
<1> QED
  BY <1>1, <1>2, <1>3

LEMMA CountsOf ==
  ASSUME NEW e
  PROVE  LET z == Cardinality(Clearing(e))
             k == Cardinality(Closing(e))
             p == Cardinality(Failed(e))
             v == Cardinality(Served(e))
             t == Cardinality(Timely(e)) IN
         /\ z \in Nat /\ k \in Nat /\ p \in Nat /\ v \in Nat /\ t \in Nat
         /\ z <= k /\ v <= t /\ k + p + v <= L /\ k + p + t <= L
         /\ k + t = L => \A r \in Logins : r \in Closing(e) \/ r \in Timely(e)
         /\ z = 0 => Clearing(e) = {}
         /\ v = 0 => Served(e) = {}
         /\ p > 0 <=> Failed(e) # {}
         /\ t > 0 <=> Timely(e) # {}
<1> DEFINE Z == Clearing(e)
           K == Closing(e)
           P == Failed(e)
           V == Served(e)
           F == Timely(e)
<1>1. /\ Z \in SUBSET Logins /\ K \in SUBSET Logins /\ P \in SUBSET Logins /\ V \in SUBSET Logins
      /\ F \in SUBSET Logins /\ Z \subseteq K /\ V \subseteq F
      /\ K \cap P = {} /\ (K \cup P) \cap F = {} /\ K \cap F = {}
  BY DEF Clearing, Closing, Failed, Served, Timely, At
<1> HIDE DEF Z, K, P, V, F
<1>2. /\ Cardinality(Z) \in Nat /\ Cardinality(K) \in Nat /\ Cardinality(P) \in Nat
      /\ Cardinality(V) \in Nat /\ Cardinality(F) \in Nat /\ L \in Nat
  BY <1>1, SomeLogins, SomeLogin
<1>3. Cardinality(Z) <= Cardinality(K) /\ Cardinality(V) <= Cardinality(F)
  BY <1>1, SomeLogins, FS_Subset
<1>4. Cardinality(K) + Cardinality(P) + Cardinality(F) <= L
  <2>1. Cardinality(K \cup P) = Cardinality(K) + Cardinality(P)
    BY <1>1, Apart
  <2>2. Cardinality((K \cup P) \cup F) = Cardinality(K \cup P) + Cardinality(F)
    BY <1>1, Apart
  <2>3. Cardinality((K \cup P) \cup F) <= L
    BY <1>1, SomeLogins
  <2> QED
    BY <2>1, <2>2, <2>3
<1>5. Cardinality(K) + Cardinality(F) = L => K \cup F = Logins
  BY <1>1, Apart, SomeLogins
<1>6. /\ Cardinality(Z) = 0 => Z = {}
      /\ Cardinality(V) = 0 => V = {}
      /\ Cardinality(P) > 0 <=> P # {}
      /\ Cardinality(F) > 0 <=> F # {}
  BY <1>1, <1>2, SomeLogins
<1> QED
  BY <1>2, <1>3, <1>4, <1>5, <1>6 DEF Z, K, P, V, F

\* What r changes about the places at e.
LEMMA PlacesMove ==
  ASSUME NEW r \in Logins, \A q \in Logins \ {r} : login'[q] = login[q], NEW e, NEW places
  PROVE  /\ At(e, places) \in SUBSET Logins /\ At(e, places)' \in SUBSET Logins
         /\ At(e, places) \ {r} = At(e, places)' \ {r}
         /\ r \in At(e, places) <=> login[r].rec = e /\ login[r].at \in places
         /\ r \in At(e, places)' <=> login'[r].rec = e /\ login'[r].at \in places
BY DEF At


LEMMA PlacesStay ==
  ASSUME NEW r \in Logins, \A q \in Logins \ {r} : login'[q] = login[q], NEW e, NEW places,
         login[r].rec = e /\ login[r].at \in places <=> login'[r].rec = e /\ login'[r].at \in places
  PROVE  At(e, places)' = At(e, places)
BY PlacesMove, OneMoves

-----------------------------------------------------------------------------
(* What a step keeps: at an entry where no request moves between the places  *)
(* that count, at an ended window, and at the entries that it is not about.  *)

LEMMA RunningStays ==
  ASSUME NEW r \in Logins, \A q \in Logins \ {r} : login'[q] = login[q], NEW e \in Records,
         UNCHANGED <<record[e].failures, record[e].count>>,
         \A places \in {{"zero"}, {"zero", "close"}, {"open", "swap", "count"}, {"serve"}} :
           login[r].rec = e /\ login[r].at \in places <=> login'[r].rec = e /\ login'[r].at \in places,
         RunningInv(e)
  PROVE  RunningInv(e)'
<1>1. ASSUME NEW places \in {{"zero"}, {"zero", "close"}, {"open", "swap", "count"}, {"serve"}}
      PROVE  At(e, places)' = At(e, places)
  <2>1. login[r].rec = e /\ login[r].at \in places <=> login'[r].rec = e /\ login'[r].at \in places
    OBVIOUS
  <2> QED
    BY <2>1, PlacesStay
<1>2. /\ Clearing(e)' = Clearing(e) /\ Closing(e)' = Closing(e)
      /\ Failed(e)' = Failed(e) /\ Served(e)' = Served(e)
  BY <1>1 DEF Clearing, Closing, Failed, Served
<1> QED
  BY <1>2 DEF RunningInv

LEMMA EndedStays ==
  ASSUME AdminTypeOK, NEW e \in Records, EndedInv(e),
         NEW f \in Nat, f = record'[e].failures,
         \/ /\ f + Cardinality(Timely(e)') = record[e].failures + Cardinality(Timely(e))
            /\ Waiting(e) => Waiting(e)'
         \/ f + Cardinality(Timely(e)') < record[e].failures + Cardinality(Timely(e))
  PROVE  EndedInv(e)'
<1>1. PICK k \in 0..(L - 1) :
        \/ record[e].failures + Cardinality(Timely(e)) <= MostFailures(k)
        \/ Waiting(e) /\ record[e].failures + Cardinality(Timely(e)) <= MostFailures(k) + 1
  BY DEF EndedInv
<1>2. record[e].failures \in Nat /\ Cardinality(Timely(e)) \in Nat /\ Cardinality(Timely(e)') \in Nat
      /\ MostFailures(k) \in Nat
  <2>1. Timely(e) \in SUBSET Logins /\ Timely(e)' \in SUBSET Logins
    BY DEF Timely
  <2>2. k \in Nat /\ k < L
    BY SomeLogin
  <2>3. record[e].failures \in Nat
    BY DEF AdminTypeOK, LimitEntry
  <2> QED
    BY <2>1, <2>2, <2>3, SomeLogins, Rounds
<1>3. \/ f + Cardinality(Timely(e)') <= MostFailures(k)
      \/ Waiting(e)' /\ f + Cardinality(Timely(e)') <= MostFailures(k) + 1
  BY <1>1, <1>2
<1> QED
  BY <1>3 DEF EndedInv, L, MostFailures, Round

LEMMA TimelyMoves ==
  ASSUME NEW r \in Logins, \A q \in Logins \ {r} : login'[q] = login[q], NEW e \in Records,
         record'[e].start = record[e].start
  PROVE  /\ Timely(e) \in SUBSET Logins /\ Timely(e)' \in SUBSET Logins
         /\ Timely(e) \ {r} = Timely(e)' \ {r}
BY DEF Timely

LEMMA TimelyStays ==
  ASSUME NEW r \in Logins, \A q \in Logins \ {r} : login'[q] = login[q], NEW e \in Records,
         record'[e].start = record[e].start, r \in Timely(e) <=> r \in Timely(e)'
  PROVE  Timely(e)' = Timely(e)
<1>1. /\ Timely(e) \in SUBSET Logins /\ Timely(e)' \in SUBSET Logins
      /\ Timely(e) \ {r} = Timely(e)' \ {r}
  BY TimelyMoves
<1> HIDE DEF Timely
<1> QED
  BY <1>1

\* An entry that the step of r is not about.
LEMMA OtherEntry ==
  ASSUME AdminTypeOK, NEW r \in Logins, \A q \in Logins \ {r} : login'[q] = login[q],
         NEW e \in Records, RecordInv(e), record'[e] = record[e], ticks' = ticks,
         login[r].rec # e, login'[r].rec # e,
         Ended(e) /\ r \in Timely(e)' => r \in Timely(e)
  PROVE  RecordInv(e)'
<1> SUFFICES ASSUME record[e].start # 0 PROVE RecordInv(e)'
  BY DEF RecordInv
<1>1. Ended(e)' <=> Ended(e)
  BY DEF Ended
<1>2. CASE ~Ended(e)
  <2>1. RunningInv(e)'
    BY <1>2, RunningStays DEF RecordInv
  <2> QED
    BY <1>1, <1>2, <2>1 DEF RecordInv
<1>3. CASE Ended(e)
  <2>1. EndedInv(e)
    BY <1>3 DEF RecordInv
  <2>2. record[e].failures \in Nat /\ Cardinality(Timely(e)) \in Nat
    BY AtRecord, CountsOf
  <2>3. CASE r \in Timely(e) /\ r \notin Timely(e)'
    <3>1. Cardinality(Timely(e)') = Cardinality(Timely(e)) - 1
      BY <2>3, TimelyMoves, OneMoves
    <3> QED
      BY <1>1, <1>3, <2>1, <2>2, <3>1, EndedStays DEF RecordInv
  <2>4. CASE r \in Timely(e) <=> r \in Timely(e)'
    <3>1. Timely(e)' = Timely(e)
      BY <2>4, TimelyStays
    <3>2. Waiting(e) => Waiting(e)'
      BY <3>1 DEF Waiting, At, Timely
    <3> QED
      BY <1>1, <1>3, <2>1, <2>2, <3>1, <3>2, EndedStays DEF RecordInv
  <2> QED
    BY <1>3, <2>3, <2>4
<1> QED
  BY <1>2, <1>3

\* Where a step of r at its entry leaves the others.
LEMMA MovesOthers ==
  ASSUME AdminTypeOK, FailuresInv, NEW r \in Logins, NEW from, NEW to, Moves(r, from, to),
         from \notin {"idle", "timed"}, NEW o, o = login[r].rec,
         to \notin {"idle", "timed"},
         \A e \in Records \ {o} : record'[e] = record[e],
         o \in Records => RecordInv(o)'
  PROVE  FailuresInv'
<1>1. /\ login'[r].rec = o /\ login'[r].at = to /\ \A q \in Logins \ {r} : login'[q] = login[q]
      /\ ticks' = ticks
  BY DEF Moves, AdminTypeOK, Login
<1>2. ASSUME NEW e \in Records \ {o} PROVE RecordInv(e)'
  <2>1. r \notin Timely(e)'
    BY <1>1, <1>2 DEF Timely
  <2> QED
    BY <1>1, <2>1, OtherEntry DEF FailuresInv
<1> QED
  BY <1>2 DEF FailuresInv

LEMMA LeavesOthers ==
  ASSUME AdminTypeOK, FailuresInv, NEW r \in Logins, NEW recs, Leaves(r, recs),
         login[r].at \notin {"idle", "timed"}, NEW o, o = login[r].rec,
         \A e \in Records \ {o} : recs[e] = record[e],
         record'[o] = recs[o] => RecordInv(o)'
  PROVE  FailuresInv'
<1>1. /\ login'[r] = NotLoggingIn /\ \A q \in Logins \ {r} : login'[q] = login[q]
      /\ ticks' = ticks /\ \A e \in Records : record'[e] \in {recs[e], NewRecord}
  BY DEF Leaves, AdminTypeOK
<1>2. ASSUME NEW e \in Records, record'[e] = NewRecord PROVE RecordInv(e)'
  BY <1>2 DEF RecordInv, NewRecord
<1>3. ASSUME NEW e \in Records \ {o}, record'[e] = record[e] PROVE RecordInv(e)'
  <2>1. r \notin Timely(e)' /\ login'[r].rec # e
    BY <1>1, <1>3, AdminNumbers DEF Timely, NotLoggingIn
  <2> QED
    BY <1>1, <1>3, <2>1, OtherEntry DEF FailuresInv
<1> QED
  BY <1>1, <1>2, <1>3 DEF FailuresInv


-----------------------------------------------------------------------------
(* The steps of a request at its entry. *)

LEMMA AsMoved ==
  ASSUME AdminTypeOK, NEW r \in Logins, NEW from, NEW to, Moves(r, from, to)
  PROVE  /\ login[r].at = from /\ login'[r].at = to
         /\ login'[r].rec = login[r].rec /\ login'[r].now = login[r].now
         /\ \A q \in Logins \ {r} : login'[q] = login[q]
         /\ ticks' = ticks
BY DEF Moves, AdminTypeOK, Login

LEMMA AsLeft ==
  ASSUME AdminTypeOK, NEW r \in Logins, NEW recs, Leaves(r, recs)
  PROVE  /\ login'[r].at = "idle" /\ login'[r].rec \notin Records
         /\ \A q \in Logins \ {r} : login'[q] = login[q]
         /\ ticks' = ticks
BY AdminNumbers DEF Leaves, AdminTypeOK, NotLoggingIn

\* r goes on from a place that does not count to another one.
LEMMA QuietMove ==
  ASSUME AdminTypeOK, NEW r \in Logins, NEW e \in Records, RecordInv(e), record'[e] = record[e],
         ticks' = ticks, \A q \in Logins \ {r} : login'[q] = login[q],
         ~Ended(e) =>
           \A places \in {{"zero"}, {"zero", "close"}, {"open", "swap", "count"}, {"serve"}} :
             login[r].rec = e /\ login[r].at \in places <=> login'[r].rec = e /\ login'[r].at \in places,
         Ended(e) => (r \in Timely(e) <=> r \in Timely(e)'),
         Waiting(e) => login'[r].at # "serve" /\ r \notin At(e, {"close"})
  PROVE  RecordInv(e)'
<1> SUFFICES ASSUME record[e].start # 0 PROVE RecordInv(e)'
  BY DEF RecordInv
<1>1. Ended(e)' <=> Ended(e)
  BY DEF Ended
<1>2. CASE ~Ended(e)
  BY <1>1, <1>2, RunningStays DEF RecordInv
<1>3. CASE Ended(e)
  <2>1. Timely(e)' = Timely(e)
    BY <1>3, TimelyStays
  <2>2. Waiting(e) => Waiting(e)'
    <3> SUFFICES ASSUME Waiting(e) PROVE Waiting(e)'
      OBVIOUS
    <3>1. \A q \in Logins \ {r} : q \in At(e, {"close"}) <=> q \in At(e, {"close"})'
      BY PlacesMove
    <3>2. r \in Timely(e) /\ login'[r].at # "serve"
      BY DEF Waiting
    <3> QED
      BY <2>1, <3>1, <3>2 DEF Waiting
  <2>3. record[e].failures \in Nat
    BY AtRecord
  <2> QED
    BY <1>1, <1>3, <2>1, <2>2, <2>3, EndedStays DEF RecordInv
<1> QED
  BY <1>2, <1>3

LEMMA LoadsWindowKeeps ==
  ASSUME AdminTypeOK, FailuresInv, NEW r \in Logins, LoadsWindow(r) PROVE FailuresInv'
<1>0. PICK e \in Records : e = login[r].rec
  BY AtRecord DEF LoadsWindow, Moves
<1> DEFINE to == IF record[e].start = 0 THEN "serve"
                 ELSE IF login[r].now - record[e].start < FailWindow THEN "look" ELSE "zero"
<1>1. Moves(r, "load", to) /\ UNCHANGED record
  BY <1>0 DEF LoadsWindow
<1>2. e \in Records /\ login[r].now <= ticks /\ login[r].now \in Nat /\ ticks \in Nat
      /\ record[e].start \in Nat
  BY <1>1, AtRecord DEF Moves, AdminTypeOK
<1>3. to \in {"serve", "look", "zero"}
  OBVIOUS
<1>4. RecordInv(e)'
  <2>1. CASE record[e].start = 0
    BY <1>1, <2>1 DEF RecordInv
  <2>2. CASE record[e].start # 0
    <3>1. ~Ended(e) => to = "look"
      BY <1>2, <2>2, AdminNumbers DEF Ended
    <3>2. /\ login[r].at = "load" /\ login'[r].at = to /\ login[r].rec = e /\ login'[r].rec = e
          /\ login'[r].now = login[r].now /\ to \in {"look", "zero"}
      BY <1>0, <1>1, <2>2, AsMoved
    <3>3. to = "look" <=> login[r].now - record[e].start < FailWindow
      BY <2>2
    <3> HIDE DEF to
    <3>4. r \in Timely(e) <=> r \in Timely(e)'
      BY <1>1, <3>2, <3>3 DEF Timely
    <3>5. ~Ended(e) =>
           \A places \in {{"zero"}, {"zero", "close"}, {"open", "swap", "count"}, {"serve"}} :
             login[r].rec = e /\ login[r].at \in places <=> login'[r].rec = e /\ login'[r].at \in places
      BY <3>1, <3>2
    <3>6. login'[r].at # "serve" /\ r \notin At(e, {"close"})
      BY <3>2 DEF At
    <3>7. RecordInv(e) /\ record'[e] = record[e]
      BY <1>1, <1>2 DEF FailuresInv
    <3> QED
      BY <1>1, <1>2, <3>4, <3>5, <3>6, <3>7, AsMoved, QuietMove
  <2> QED
    BY <2>1, <2>2
<1> HIDE DEF to
<1> QED
  BY <1>0, <1>1, <1>3, <1>4, MovesOthers

LEMMA LoadsStartKeeps ==
  ASSUME AdminTypeOK, FailuresInv, NEW r \in Logins, LoadsStart(r) PROVE FailuresInv'
<1>1. PICK to \in {"swap", "count"} : Moves(r, "open", to) /\ UNCHANGED record
  BY DEF LoadsStart
<1>2. PICK e \in Records : e = login[r].rec
  BY <1>1, AtRecord DEF Moves
<1>3. login[r].at = "open" /\ login'[r].at = to /\ login[r].rec = e /\ login'[r].rec = e
  BY <1>1, <1>2, AsMoved
<1>4. RecordInv(e)'
  <2>1. r \notin Timely(e) /\ r \notin Timely(e)' /\ r \notin At(e, {"close"}) /\ login'[r].at # "serve"
    BY <1>3 DEF Timely, At
  <2>2. \A places \in {{"zero"}, {"zero", "close"}, {"open", "swap", "count"}, {"serve"}} :
          login[r].rec = e /\ login[r].at \in places <=> login'[r].rec = e /\ login'[r].at \in places
    BY <1>3
  <2>3. RecordInv(e) /\ record'[e] = record[e]
    BY <1>1, <1>2 DEF FailuresInv
  <2> QED
    BY <1>1, <1>2, <2>1, <2>2, <2>3, AsMoved, QuietMove
<1> QED
  BY <1>1, <1>2, <1>4, MovesOthers


\* A refusal at a full count, and a request that is let in below it.
LEMMA LooksKeep ==
  ASSUME AdminTypeOK, FailuresInv, NEW r \in Logins, Refused(r) \/ LetIn(r) PROVE FailuresInv'
<1>1. PICK e \in Records : e = login[r].rec
  BY AtRecord DEF Refused, LetIn, Moves
<1>2. /\ login[r].at = "look" /\ record[e].failures \in Nat /\ record[e].count \in 0..MaxFailures
      /\ RecordInv(e)
  BY <1>1, AtRecord DEF Refused, LetIn, Moves, FailuresInv
<1>3. r \in Timely(e) /\ r \notin Served(e)
  BY <1>1, <1>2 DEF Timely, Served, At
<1>4. CASE Refused(r)
  <2>1. Leaves(r, record)
    BY <1>4 DEF Refused
  <2>2. /\ login'[r].at = "idle" /\ login'[r].rec # e /\ \A q \in Logins \ {r} : login'[q] = login[q]
        /\ ticks' = ticks
    BY <2>1, AsLeft
  <2>3. ASSUME record'[e] = record[e], record[e].start # 0 PROVE RecordInv(e)'
    <3>1. Ended(e)' <=> Ended(e)
      BY <2>2, <2>3 DEF Ended
    <3>2. CASE ~Ended(e)
      <4>1. RunningInv(e)'
        BY <1>2, <2>2, <2>3, <3>2, RunningStays DEF RecordInv
      <4> QED
        BY <3>1, <3>2, <4>1 DEF RecordInv
    <3>3. CASE Ended(e)
      <4>1. r \notin Timely(e)'
        BY <2>2 DEF Timely
      <4>2. Cardinality(Timely(e)') = Cardinality(Timely(e)) - 1 /\ Cardinality(Timely(e)) \in Nat
        BY <1>3, <2>2, <2>3, <4>1, TimelyMoves, OneMoves, SomeLogins
      <4>3. record[e].failures + Cardinality(Timely(e)') < record[e].failures + Cardinality(Timely(e))
        BY <1>2, <4>2
      <4>4. EndedInv(e)'
        BY <1>2, <2>3, <3>3, <4>3, EndedStays DEF RecordInv
      <4> QED
        BY <3>1, <3>3, <4>4 DEF RecordInv
    <3> QED
      BY <3>2, <3>3
  <2>4. record'[e] = record[e] => RecordInv(e)'
    BY <2>3 DEF RecordInv
  <2> QED
    BY <1>1, <1>2, <2>1, <2>4, LeavesOthers
<1>5. CASE LetIn(r)
  <2>1. Moves(r, "look", "serve") /\ record' = record /\ record[e].count < MaxFailures
    BY <1>1, <1>2, <1>5, AdminNumbers DEF LetIn, Exhausts
  <2>2. /\ login'[r].at = "serve" /\ login'[r].rec = e /\ \A q \in Logins \ {r} : login'[q] = login[q]
        /\ ticks' = ticks
    BY <1>1, <2>1, AsMoved
  <2>3. ASSUME record[e].start # 0 PROVE RecordInv(e)'
    <3>1. Ended(e)' <=> Ended(e)
      BY <2>1, <2>2 DEF Ended
    <3>2. CASE ~Ended(e)
      <4>1. ASSUME NEW places \in {{"zero"}, {"zero", "close"}, {"open", "swap", "count"}}
            PROVE  At(e, places)' = At(e, places)
        BY <1>2, <2>2, PlacesMove, OneMoves
      <4>2. Clearing(e)' = Clearing(e) /\ Closing(e)' = Closing(e) /\ Failed(e)' = Failed(e)
        BY <4>1 DEF Clearing, Closing, Failed
      <4>3. Cardinality(Served(e)') \in Nat
        BY SomeLogins DEF Served, At
      <4>4. RunningInv(e)
        BY <1>2, <2>3, <3>2 DEF RecordInv
      <4>5. RunningInv(e)'
        BY <1>2, <2>1, <4>2, <4>3, <4>4, CountsOf, RunningMoves DEF RunningInv
      <4> QED
        BY <3>1, <3>2, <4>5 DEF RecordInv
    <3>3. CASE Ended(e)
      <4>1. r \in Timely(e)'
        BY <2>2 DEF Timely
      <4>2. Timely(e)' = Timely(e)
        BY <1>3, <2>1, <2>2, <4>1, TimelyStays
      <4>3. ~Waiting(e)
        BY <1>2, <2>1, AdminNumbers DEF Waiting
      <4>4. EndedInv(e)'
        BY <1>2, <2>1, <2>3, <3>3, <4>2, <4>3, EndedStays DEF RecordInv
      <4> QED
        BY <3>1, <3>3, <4>4 DEF RecordInv
    <3> QED
      BY <3>2, <3>3
  <2>4. RecordInv(e)'
    BY <2>1, <2>3 DEF RecordInv
  <2> QED
    BY <1>1, <2>1, <2>4, MovesOthers
<1> QED
  BY <1>4, <1>5

\* The reset of a request that found an older window over.
LEMMA ResetsKeep ==
  ASSUME AdminTypeOK, FailuresInv, NEW r \in Logins, ClearsCount(r) \/ ClosesWindow(r)
  PROVE  FailuresInv'
<1>1. PICK e \in Records : e = login[r].rec
  BY AtRecord DEF ClearsCount, ClosesWindow, Moves
<1>2. /\ record[e].failures \in Nat /\ record[e].count \in 0..MaxFailures
      /\ RecordInv(e) /\ record \in [Records -> LimitEntry]
  BY AtRecord DEF FailuresInv, AdminTypeOK
<1>3. CASE ClearsCount(r)
  <2>1. Moves(r, "zero", "close") /\ record' = [record EXCEPT ![e].count = 0]
    BY <1>1, <1>3 DEF ClearsCount, Sets
  <2>2. /\ login[r].at = "zero" /\ login'[r].at = "close" /\ login'[r].rec = e
        /\ \A q \in Logins \ {r} : login'[q] = login[q]
        /\ ticks' = ticks
    BY <1>1, <2>1, AsMoved
  <2>3. /\ record'[e].start = record[e].start /\ record'[e].failures = record[e].failures
        /\ record'[e].count = 0 /\ \A o \in Records \ {e} : record'[o] = record[o]
    BY <1>2, <2>1 DEF LimitEntry
  <2>4. ASSUME record[e].start # 0 PROVE RecordInv(e)'
    <3>1. Ended(e)' <=> Ended(e)
      BY <2>1, <2>3 DEF Ended, Moves
    <3>2. CASE ~Ended(e)
      <4>1. ASSUME NEW places \in {{"zero", "close"}, {"open", "swap", "count"}, {"serve"}}
            PROVE  At(e, places)' = At(e, places)
        <5>1. login[r].at \in places <=> login'[r].at \in places
          BY <2>2
        <5> QED
          BY <1>1, <2>2, <5>1, PlacesStay
      <4>2. Closing(e)' = Closing(e) /\ Failed(e)' = Failed(e) /\ Served(e)' = Served(e)
        BY <4>1 DEF Closing, Failed, Served
      <4>3. Cardinality(Clearing(e)') = Cardinality(Clearing(e)) - 1 /\ Cardinality(Clearing(e)) > 0
        BY <1>1, <2>2, PlacesMove, OneMoves DEF Clearing
      <4>4. RunningInv(e)
        BY <1>2, <2>4, <3>2 DEF RecordInv
      <4>5. Running(record[e].failures, 0, Cardinality(Clearing(e)) - 1, Cardinality(Closing(e)),
                    Cardinality(Failed(e)), Cardinality(Served(e)))
        BY <1>2, <4>3, <4>4, CountsOf, RunningMoves DEF RunningInv
      <4>6. RunningInv(e)'
        BY <2>3, <4>2, <4>3, <4>5 DEF RunningInv
      <4> QED
        BY <3>1, <3>2, <4>6 DEF RecordInv
    <3>3. CASE Ended(e)
      <4>1. r \notin Timely(e) /\ r \notin Timely(e)' /\ r \notin At(e, {"close"})
        BY <2>2 DEF Timely, At
      <4>2. Timely(e)' = Timely(e)
        BY <2>2, <2>3, <4>1, TimelyStays
      <4>3. ~Waiting(e)
        BY <4>1 DEF Waiting
      <4>4. EndedInv(e)'
        BY <1>2, <2>3, <2>4, <3>3, <4>2, <4>3, EndedStays DEF RecordInv
      <4> QED
        BY <3>1, <3>3, <4>4 DEF RecordInv
    <3> QED
      BY <3>2, <3>3
  <2>5. RecordInv(e)'
    BY <2>3, <2>4 DEF RecordInv
  <2> QED
    BY <1>1, <2>1, <2>3, <2>5, MovesOthers
<1>4. CASE ClosesWindow(r)
  <2>1. Moves(r, "close", "serve") /\ record' = [record EXCEPT ![e].start = 0]
    BY <1>1, <1>4 DEF ClosesWindow, Sets
  <2>2. record'[e].start = 0 /\ \A o \in Records \ {e} : record'[o] = record[o]
    BY <1>2, <2>1 DEF LimitEntry
  <2>3. RecordInv(e)'
    BY <2>2 DEF RecordInv
  <2> QED
    BY <1>1, <2>1, <2>2, <2>3, MovesOthers
<1> QED
  BY <1>3, <1>4


\* The answer of the handler: the failure is one of the window, and it takes a timely
\* request from those that can still fail.
LEMMA AnswersKeep ==
  ASSUME AdminTypeOK, FailuresInv, NEW r \in Logins, Answers401(r) \/ AnswersElse(r)
  PROVE  FailuresInv'
<1>1. login[r].at = "serve"
  BY DEF Answers401, AnswersElse, Moves
<1>2. PICK e \in Records : e = login[r].rec
  BY <1>1, AtRecord
<1>3. /\ record[e].failures \in Nat /\ record[e].count \in 0..MaxFailures
      /\ RecordInv(e) /\ record \in [Records -> LimitEntry]
  BY AtRecord DEF FailuresInv, AdminTypeOK
<1>4. r \in Timely(e) /\ r \in Served(e) /\ r \notin Failed(e) /\ ~Waiting(e)
  BY <1>1, <1>2 DEF Timely, Served, Failed, At, Waiting
\* Where r may be after the answer.
<1>5. ASSUME record[e].start # 0, ticks' = ticks, \A q \in Logins \ {r} : login'[q] = login[q],
             record'[e].start = record[e].start, record'[e].count = record[e].count,
             \/ /\ login'[r].rec = e /\ login'[r].at = "open"
                /\ record'[e].failures = record[e].failures + 1
             \/ /\ login'[r].rec # e /\ login'[r].at = "idle"
                /\ record'[e].failures = record[e].failures
      PROVE  RecordInv(e)'
  <2>1. Ended(e)' <=> Ended(e)
    BY <1>5 DEF Ended
  <2>2. CASE ~Ended(e)
    <3>1. ASSUME NEW places \in {{"zero"}, {"zero", "close"}} PROVE At(e, places)' = At(e, places)
      <4>1. (login[r].rec = e /\ login[r].at \in places) <=> (login'[r].rec = e /\ login'[r].at \in places)
        BY <1>1, <1>5
      <4> QED
        BY <1>5, <4>1, PlacesMove, OneMoves
    <3>2. Clearing(e)' = Clearing(e) /\ Closing(e)' = Closing(e)
      BY <3>1 DEF Clearing, Closing
    <3>3. Cardinality(Served(e)') = Cardinality(Served(e)) - 1 /\ Cardinality(Served(e)) > 0
      BY <1>1, <1>2, <1>5, PlacesMove, OneMoves DEF Served
    <3>4. RunningInv(e)
      BY <1>3, <1>5, <2>2 DEF RecordInv
    <3>5. CASE login'[r].rec = e /\ login'[r].at = "open" /\ record'[e].failures = record[e].failures + 1
      <4>1. Cardinality(Failed(e)') = Cardinality(Failed(e)) + 1
        BY <1>1, <1>2, <1>5, <3>5, PlacesMove, OneMoves DEF Failed
      <4>2. Running(record[e].failures + 1, record[e].count, Cardinality(Clearing(e)),
                    Cardinality(Closing(e)), Cardinality(Failed(e)) + 1, Cardinality(Served(e)) - 1)
        BY <1>3, <3>3, <3>4, CountsOf, RunningMoves DEF RunningInv
      <4>3. RunningInv(e)'
        BY <1>5, <3>2, <3>3, <3>5, <4>1, <4>2 DEF RunningInv
      <4> QED
        BY <2>1, <2>2, <4>3 DEF RecordInv
    <3>6. CASE login'[r].rec # e /\ login'[r].at = "idle" /\ record'[e].failures = record[e].failures
      <4>1. Failed(e)' = Failed(e)
        <5>1. /\ ~(login[r].rec = e /\ login[r].at \in {"open", "swap", "count"})
              /\ ~(login'[r].rec = e /\ login'[r].at \in {"open", "swap", "count"})
          BY <1>1, <3>6
        <5> QED
          BY <1>5, <5>1, PlacesStay DEF Failed
      <4>2. Running(record[e].failures, record[e].count, Cardinality(Clearing(e)),
                    Cardinality(Closing(e)), Cardinality(Failed(e)), Cardinality(Served(e)) - 1)
        BY <1>3, <3>3, <3>4, CountsOf, RunningMoves DEF RunningInv
      <4>3. RunningInv(e)'
        BY <1>5, <3>2, <3>3, <3>6, <4>1, <4>2 DEF RunningInv
      <4> QED
        BY <2>1, <2>2, <4>3 DEF RecordInv
    <3> QED
      BY <1>5, <3>5, <3>6
  <2>3. CASE Ended(e)
    <3>1. r \notin Timely(e)'
      BY <1>5 DEF Timely
    <3>2. Cardinality(Timely(e)') = Cardinality(Timely(e)) - 1 /\ Cardinality(Timely(e)) \in Nat
      BY <1>4, <1>5, <3>1, TimelyMoves, OneMoves, SomeLogins
    <3>3. PICK f \in Nat : f = record'[e].failures /\ f <= record[e].failures + 1
      BY <1>3, <1>5
    <3>4. f + Cardinality(Timely(e)') <= record[e].failures + Cardinality(Timely(e))
      BY <1>3, <3>2, <3>3
    <3>5. \/ f + Cardinality(Timely(e)') = record[e].failures + Cardinality(Timely(e))
          \/ f + Cardinality(Timely(e)') < record[e].failures + Cardinality(Timely(e))
      BY <1>3, <3>2, <3>3, <3>4
    <3>6. EndedInv(e)
      BY <1>3, <1>5, <2>3 DEF RecordInv
    <3>7. EndedInv(e)'
      BY <1>4, <3>3, <3>5, <3>6, EndedStays
    <3> QED
      BY <2>1, <2>3, <3>7 DEF RecordInv
  <2> QED
    BY <2>2, <2>3
<1>6. CASE Answers401(r)
  <2>1. Moves(r, "serve", "open") /\ record' = [record EXCEPT ![e].failures = record[e].failures + 1]
    BY <1>2, <1>6 DEF Answers401, Sets
  <2>2. /\ record'[e].start = record[e].start /\ record'[e].count = record[e].count
        /\ record'[e].failures = record[e].failures + 1
        /\ \A o \in Records \ {e} : record'[o] = record[o]
    BY <1>3, <2>1 DEF LimitEntry
  <2>3. record[e].start # 0 => RecordInv(e)'
    BY <1>2, <1>5, <2>1, <2>2, AsMoved
  <2>4. RecordInv(e)'
    BY <2>2, <2>3 DEF RecordInv
  <2> QED
    BY <1>2, <2>1, <2>2, <2>4, MovesOthers
<1>7. CASE AnswersElse(r)
  <2>1. Leaves(r, record)
    BY <1>7 DEF AnswersElse
  <2>2. ASSUME record'[e] = record[e] PROVE RecordInv(e)'
    <3>1. record[e].start # 0 => RecordInv(e)'
      BY <1>5, <2>1, <2>2, AsLeft
    <3> QED
      BY <2>2, <3>1 DEF RecordInv
  <2> QED
    BY <1>1, <1>2, <2>1, <2>2, LeavesOthers
<1> QED
  BY <1>6, <1>7


\* A window opens with one failure, and may be over at once: the clock of the request is old.
LEMMA OpensKeep ==
  ASSUME AdminTypeOK, FailuresInv, NEW r \in Logins, OpensWindow(r) PROVE FailuresInv'
<1>1. Moves(r, "swap", "count")
  BY DEF OpensWindow
<1>2. PICK e \in Records : e = login[r].rec
  BY <1>1, AtRecord DEF Moves
<1>3. /\ record[e].failures \in Nat /\ record[e].count \in 0..MaxFailures
      /\ RecordInv(e) /\ record \in [Records -> LimitEntry]
      /\ login[r].now \in Nat
  BY AtRecord DEF FailuresInv, AdminTypeOK
<1>4. /\ login[r].at = "swap" /\ login'[r].at = "count" /\ login'[r].rec = e /\ ticks' = ticks
      /\ \A q \in Logins \ {r} : login'[q] = login[q]
  BY <1>1, <1>2, AsMoved
<1>5. ASSUME NEW places \in {{"zero"}, {"zero", "close"}, {"open", "swap", "count"}, {"serve"}}
      PROVE  /\ login[r].rec = e /\ login[r].at \in places <=> login'[r].rec = e /\ login'[r].at \in places
             /\ At(e, places)' = At(e, places)
  <2>1. login[r].rec = e /\ login[r].at \in places <=> login'[r].rec = e /\ login'[r].at \in places
    BY <1>2, <1>4
  <2> QED
    BY <1>4, <2>1, PlacesStay
<1>6. r \notin Timely(e) /\ r \notin Timely(e)' /\ r \notin At(e, {"close"}) /\ r \in Failed(e)
  BY <1>2, <1>4 DEF Timely, At, Failed
<1>7. \A o \in Records \ {e} : record'[o] = record[o]
  BY <1>2, <1>3 DEF OpensWindow
<1>8. CASE record[e].start # 0
  <2>1. record' = record
    BY <1>2, <1>8 DEF OpensWindow
  <2>2. RecordInv(e)'
    BY <1>3, <1>4, <1>5, <1>6, <2>1, QuietMove
  <2> QED
    BY <1>1, <1>2, <1>7, <2>2, MovesOthers
<1>9. CASE record[e].start = 0
  <2>1. record'[e].failures = 1 /\ record'[e].count = record[e].count
    BY <1>2, <1>3, <1>9 DEF OpensWindow, LimitEntry
  <2>2. ASSUME ~Ended(e)' PROVE RecordInv(e)'
    <3>1. /\ Clearing(e)' = Clearing(e) /\ Closing(e)' = Closing(e)
          /\ Failed(e)' = Failed(e) /\ Served(e)' = Served(e)
      BY <1>5 DEF Clearing, Closing, Failed, Served
    <3>2. Cardinality(Failed(e)) > 0
      BY <1>6, CountsOf
    <3>3. Running(1, record[e].count, Cardinality(Clearing(e)), Cardinality(Closing(e)),
                  Cardinality(Failed(e)), Cardinality(Served(e)))
      BY <1>3, <3>2, CountsOf, RunningOpens
    <3>4. RunningInv(e)'
      BY <2>1, <3>1, <3>3 DEF RunningInv
    <3> QED
      BY <2>2, <3>4 DEF RecordInv
  <2>3. ASSUME Ended(e)' PROVE RecordInv(e)'
    <3>1. Timely(e)' \in SUBSET Logins /\ Timely(e)' # Logins
      BY <1>6 DEF Timely
    <3>2. Cardinality(Timely(e)') \in Nat /\ Cardinality(Timely(e)') < L
      BY <3>1, SomeLogins, SomeLogin
    <3>3. MostFailures(0) >= L /\ 0 \in 0..(L - 1) /\ MostFailures(0) \in Nat
      <4>1. /\ Round(0) = MaxFailures - 1 + L /\ MostFailures(0) = (0 + 1) * Round(0) + L - 1
            /\ Round(0) \in Nat
        BY SomeLogin, Rounds
      <4> QED
        BY <4>1, SomeLogin, AdminNumbers
    <3>4. record'[e].failures + Cardinality(Timely(e)') <= MostFailures(0)
      BY <2>1, <3>2, <3>3, SomeLogin
    <3>5. EndedInv(e)'
      BY <3>3, <3>4 DEF EndedInv, L, MostFailures, Round
    <3> QED
      BY <2>3, <3>5 DEF RecordInv
  <2>4. RecordInv(e)'
    BY <2>2, <2>3
  <2> QED
    BY <1>1, <1>2, <1>7, <2>4, MovesOthers
<1> QED
  BY <1>8, <1>9

\* A failure that is counted leaves those that can still fail as they are.
LEMMA CountsKeep ==
  ASSUME AdminTypeOK, FailuresInv, NEW r \in Logins, CountsFailure(r) PROVE FailuresInv'
<1>1. login[r].at = "count"
  BY DEF CountsFailure
<1>2. PICK e \in Records : e = login[r].rec
  BY <1>1, AtRecord
<1>3. /\ record[e].failures \in Nat /\ record[e].count \in 0..MaxFailures
      /\ RecordInv(e) /\ record \in [Records -> LimitEntry]
  BY AtRecord DEF FailuresInv, AdminTypeOK
<1> DEFINE c == IF record[e].count >= MaxFailures THEN record[e].count ELSE record[e].count + 1
           recs == [record EXCEPT ![e].count = c]
<1>4. Leaves(r, recs)
  BY <1>2 DEF CountsFailure, Exhausts
<1>5. /\ recs[e].start = record[e].start /\ recs[e].count = c /\ recs[e].failures = record[e].failures
      /\ \A o \in Records \ {e} : recs[o] = record[o]
  BY <1>3 DEF LimitEntry
<1>6. \/ record[e].count = MaxFailures /\ c = record[e].count
      \/ record[e].count < MaxFailures /\ c = record[e].count + 1
  BY <1>3, AdminNumbers
<1> HIDE DEF c, recs
<1>7. /\ login'[r].at = "idle" /\ login'[r].rec # e /\ ticks' = ticks
      /\ \A q \in Logins \ {r} : login'[q] = login[q]
  BY <1>4, AsLeft
<1>8. ASSUME record'[e] = recs[e], record[e].start # 0 PROVE RecordInv(e)'
  <2>1. Ended(e)' <=> Ended(e)
    BY <1>5, <1>7, <1>8 DEF Ended
  <2>2. CASE ~Ended(e)
    <3>1. ASSUME NEW places \in {{"zero"}, {"zero", "close"}, {"serve"}}
          PROVE  At(e, places)' = At(e, places)
      <4>1. (login[r].rec = e /\ login[r].at \in places) <=> (login'[r].rec = e /\ login'[r].at \in places)
        BY <1>1, <1>7
      <4> QED
        BY <1>7, <4>1, PlacesStay
    <3>2. Clearing(e)' = Clearing(e) /\ Closing(e)' = Closing(e) /\ Served(e)' = Served(e)
      BY <3>1 DEF Clearing, Closing, Served
    <3>3. Cardinality(Failed(e)') = Cardinality(Failed(e)) - 1 /\ Cardinality(Failed(e)) > 0
      BY <1>1, <1>2, <1>7, PlacesMove, OneMoves DEF Failed
    <3>4. RunningInv(e)
      BY <1>3, <1>8, <2>2 DEF RecordInv
    <3>5. Running(record[e].failures, c, Cardinality(Clearing(e)), Cardinality(Closing(e)),
                  Cardinality(Failed(e)) - 1, Cardinality(Served(e)))
      <4> DEFINE f == record[e].failures
                 n == record[e].count
                 z == Cardinality(Clearing(e))
                 k == Cardinality(Closing(e))
                 p == Cardinality(Failed(e))
                 v == Cardinality(Served(e))
      <4>1. /\ z \in Nat /\ k \in Nat /\ p \in Nat /\ v \in Nat /\ z <= k /\ k + p + v <= L
            /\ p > 0 /\ f \in Nat /\ n \in 0..MaxFailures /\ Running(f, n, z, k, p, v)
        BY <1>3, <3>3, <3>4, CountsOf DEF RunningInv
      <4> HIDE DEF f, n, z, k, p, v
      <4>2. /\ n < MaxFailures => Running(f, n + 1, z, k, p - 1, v)
            /\ n = MaxFailures => Running(f, n, z, k, p - 1, v)
        BY <4>1, RunningMoves
      <4>3. (n = MaxFailures /\ c = n) \/ (n < MaxFailures /\ c = n + 1)
        BY <1>6 DEF n
      <4>4. Running(f, c, z, k, p - 1, v)
        BY <4>2, <4>3
      <4> QED
        BY <4>4 DEF f, z, k, p, v
    <3>6. RunningInv(e)'
      BY <1>5, <1>8, <3>2, <3>3, <3>5 DEF RunningInv
    <3> QED
      BY <2>1, <2>2, <3>6 DEF RecordInv
  <2>3. CASE Ended(e)
    <3>1. r \notin Timely(e) /\ r \notin Timely(e)' /\ r \notin At(e, {"close"})
      BY <1>1, <1>7 DEF Timely, At
    <3>2. Timely(e)' = Timely(e)
      <4>1. record'[e].start = record[e].start
        BY <1>5, <1>8
      <4>2. /\ Timely(e) \in SUBSET Logins /\ Timely(e)' \in SUBSET Logins
            /\ Timely(e) \ {r} = Timely(e)' \ {r}
        BY <1>7, <4>1, TimelyMoves
      <4> QED
        BY <3>1, <4>2, OneMoves
    <3>3. ~Waiting(e)
      BY <3>1 DEF Waiting
    <3>4. EndedInv(e)'
      BY <1>3, <1>5, <1>8, <2>3, <3>2, <3>3, EndedStays DEF RecordInv
    <3> QED
      BY <2>1, <2>3, <3>4 DEF RecordInv
  <2> QED
    BY <2>2, <2>3
<1>9. record'[e] = recs[e] => RecordInv(e)'
  BY <1>5, <1>8 DEF RecordInv
<1> QED
  BY <1>1, <1>2, <1>4, <1>5, <1>9, LeavesOthers


\* A request comes: its clock is not old yet where a window is over.
LEMMA ArrivesKeeps ==
  ASSUME AdminTypeOK, FailuresInv, NEW r \in Logins, ReadsClock(r) \/ LoadsOrStores(r)
  PROVE  FailuresInv'
<1>1. login[r].rec \notin Records /\ \A q \in Logins \ {r} : login'[q] = login[q]
  BY AdminNumbers DEF ReadsClock, LoadsOrStores, AdminTypeOK
<1>2. UNCHANGED <<record, ticks>>
  BY DEF ReadsClock, LoadsOrStores
<1>3. login[r] \in Login
  BY AtRecord
<1>4. CASE ReadsClock(r)
  <2>1. login'[r].at = "timed" /\ login'[r].now = ticks /\ login'[r].rec \notin Records
    BY <1>1, <1>3, <1>4 DEF ReadsClock, AdminTypeOK, Login
  <2>2. ASSUME NEW e \in Records PROVE RecordInv(e)'
    <3>1. Ended(e) /\ r \in Timely(e)' => r \in Timely(e)
      <4> SUFFICES ASSUME Ended(e), r \in Timely(e)' PROVE FALSE
        OBVIOUS
      <4>1. ticks - record[e].start < FailWindow
        BY <1>2, <2>1 DEF Timely
      <4>2. ticks \in Nat /\ record[e].start \in Nat /\ FailWindow \in Nat
        BY AtRecord, AdminNumbers
      <4> QED
        BY <4>1, <4>2 DEF Ended
    <3> QED
      BY <1>1, <1>2, <2>1, <3>1, OtherEntry DEF FailuresInv
  <2> QED
    BY <2>2 DEF FailuresInv
<1>5. CASE LoadsOrStores(r)
  <2>1. PICK o : /\ login'[r].rec = o /\ login'[r].at = "load" /\ login'[r].now = login[r].now
                 /\ login[r].at = "timed"
    BY <1>3, <1>5 DEF LoadsOrStores, AdminTypeOK, Login
  <2>2. ASSUME NEW e \in Records, e # o PROVE RecordInv(e)'
    <3>1. r \notin Timely(e)'
      BY <2>1, <2>2 DEF Timely
    <3> QED
      BY <1>1, <1>2, <2>1, <2>2, <3>1, OtherEntry DEF FailuresInv
  <2>3. ASSUME NEW e \in Records, e = o PROVE RecordInv(e)'
    <3>1. r \in Timely(e) <=> r \in Timely(e)'
      BY <1>2, <2>1, <2>3 DEF Timely
    <3>2. \A places \in {{"zero"}, {"zero", "close"}, {"open", "swap", "count"}, {"serve"}} :
            login[r].rec = e /\ login[r].at \in places <=> login'[r].rec = e /\ login'[r].at \in places
      BY <2>1
    <3>3. login'[r].at # "serve" /\ r \notin At(e, {"close"})
      BY <2>1 DEF At
    <3> QED
      BY <1>1, <1>2, <3>1, <3>2, <3>3, QuietMove DEF FailuresInv
  <2> QED
    BY <2>2, <2>3 DEF FailuresInv
<1> QED
  BY <1>4, <1>5

\* A window that ended by the clock.
LEMMA TickKeeps == ASSUME AdminTypeOK, FailuresInv, AdminTick PROVE FailuresInv'
<1> SUFFICES ASSUME NEW e \in Records, record[e].start # 0 PROVE RecordInv(e)'
  BY DEF FailuresInv, RecordInv, AdminTick
<1>1. /\ UNCHANGED <<record, login>> /\ ticks' = ticks + 1 /\ ticks \in Nat
      /\ record[e].start \in Nat /\ record[e].failures \in Nat /\ record[e].count \in 0..MaxFailures
  BY RecordTyped DEF AdminTick
<1>2. RecordInv(e)
  BY DEF FailuresInv
<1>3. Timely(e)' = Timely(e) /\ (Waiting(e) => Waiting(e)')
  BY <1>1 DEF Timely, Waiting, At
<1>4. CASE Ended(e)
  <2>1. EndedInv(e)'
    BY <1>1, <1>2, <1>3, <1>4, EndedStays DEF RecordInv
  <2>2. Ended(e)'
    BY <1>1, <1>4, AdminNumbers DEF Ended
  <2> QED
    BY <2>1, <2>2 DEF RecordInv
<1>5. CASE ~Ended(e) /\ ~Ended(e)'
  <2>1. RunningInv(e)'
    BY <1>1, <1>2, <1>5 DEF RecordInv, RunningInv, Clearing, Closing, Failed, Served, At
  <2> QED
    BY <1>5, <2>1 DEF RecordInv
<1>6. CASE ~Ended(e) /\ Ended(e)'
  <2> DEFINE f == record[e].failures
             n == record[e].count
             z == Cardinality(Clearing(e))
             k == Cardinality(Closing(e))
             p == Cardinality(Failed(e))
             v == Cardinality(Served(e))
             t == Cardinality(Timely(e))
  <2>1. /\ z \in Nat /\ k \in Nat /\ p \in Nat /\ v \in Nat /\ t \in Nat /\ z <= k /\ k + p + t <= L
        /\ v <= t /\ f \in Nat /\ n \in 0..MaxFailures /\ Running(f, n, z, k, p, v)
    BY <1>1, <1>2, <1>6, CountsOf DEF RecordInv, RunningInv
  <2>2. /\ k + t = L => \A r \in Logins : r \in Closing(e) \/ r \in Timely(e)
        /\ z = 0 => Clearing(e) = {}
        /\ v = 0 => Served(e) = {}
        /\ t > 0 <=> Timely(e) # {}
    BY CountsOf
  <2> HIDE DEF f, n, z, k, p, v, t
  <2>3. /\ k \in 0..(L - 1)
        /\ \/ f + t <= MostFailures(k)
           \/ /\ n = MaxFailures /\ z = 0 /\ v = 0 /\ p = 0 /\ k + t = L
              /\ f + t <= MostFailures(k) + 1
    BY <2>1, RunningEnds
  <2>4. ASSUME f + t <= MostFailures(k) PROVE EndedInv(e)
    BY <2>3, <2>4 DEF EndedInv, f, t
  <2>5. ASSUME n = MaxFailures, z = 0, v = 0, k + t = L, f + t <= MostFailures(k) + 1
        PROVE  EndedInv(e)
    <3>1. Timely(e) # {}
      BY <2>1, <2>2, <2>3, <2>5, SomeLogin
    <3>2. ASSUME NEW r \in Logins PROVE r \in At(e, {"close"}) \/ (r \in Timely(e) /\ login[r].at # "serve")
      BY <2>2, <2>5 DEF Clearing, Closing, Served, At, Timely
    <3>3. Waiting(e)
      BY <1>1, <2>5, <3>1, <3>2, AdminNumbers DEF Waiting, n
    <3> QED
      BY <2>3, <2>5, <3>3 DEF EndedInv, f, t
  <2>6. EndedInv(e)
    BY <2>3, <2>4, <2>5
  <2>7. EndedInv(e)'
    BY <1>1, <1>3, <2>6, EndedStays
  <2> QED
    BY <1>6, <2>7 DEF RecordInv
<1> QED
  BY <1>4, <1>5, <1>6

LEMMA RecordsKeep ==
  ASSUME FailuresInv, UNCHANGED <<login, ticks>>,
         \A e \in Records : record'[e] \in {record[e], NewRecord}
  PROVE  FailuresInv'
<1> SUFFICES ASSUME NEW e \in Records PROVE RecordInv(e)'
  BY DEF FailuresInv
<1>1. CASE record'[e] = NewRecord
  BY <1>1 DEF RecordInv, NewRecord
<1>2. CASE record'[e] = record[e]
  <2>1. RecordInv(e)
    BY DEF FailuresInv
  <2>2. /\ Timely(e)' = Timely(e) /\ Clearing(e)' = Clearing(e) /\ Closing(e)' = Closing(e)
        /\ Failed(e)' = Failed(e) /\ Served(e)' = Served(e) /\ At(e, {"close"})' = At(e, {"close"})
        /\ (Ended(e)' <=> Ended(e))
    BY <1>2 DEF Timely, Clearing, Closing, Failed, Served, At, Ended
  <2>3. Waiting(e)' <=> Waiting(e)
    BY <1>2, <2>2 DEF Waiting
  <2>4. RunningInv(e) => RunningInv(e)'
    BY <1>2, <2>2 DEF RunningInv
  <2>5. EndedInv(e) => EndedInv(e)'
    BY <1>2, <2>2, <2>3 DEF EndedInv, L, MostFailures, Round
  <2> QED
    BY <1>2, <2>1, <2>2, <2>4, <2>5 DEF RecordInv
<1> QED
  BY <1>1, <1>2

LEMMA FailuresStep == AdminTypeOK /\ FailuresInv /\ [AdminNext]_adminVars => FailuresInv'
<1> SUFFICES ASSUME AdminTypeOK, FailuresInv, [AdminNext]_adminVars PROVE FailuresInv'
  OBVIOUS
<1>1. ASSUME NEW r \in Logins,
             \/ ReadsClock(r) \/ LoadsOrStores(r) \/ LoadsWindow(r) \/ Refused(r) \/ LetIn(r)
             \/ ClearsCount(r) \/ ClosesWindow(r) \/ Answers401(r) \/ AnswersElse(r)
             \/ LoadsStart(r) \/ OpensWindow(r) \/ CountsFailure(r)
      PROVE  FailuresInv'
  BY <1>1, ArrivesKeeps, LoadsWindowKeeps, LooksKeep, ResetsKeep, AnswersKeep, LoadsStartKeeps,
     OpensKeep, CountsKeep
<1>2. CASE FindsOld \/ DropsOld \/ UNCHANGED adminVars
  BY <1>2, RecordsKeep DEF FindsOld, DropsOld, adminVars
<1>3. CASE AdminTick
  BY <1>3, TickKeeps
<1> QED
  BY <1>1, <1>2, <1>3 DEF AdminNext

LEMMA BoundFollows == ASSUME AdminTypeOK, FailuresInv PROVE FailuresBounded
<1> SUFFICES ASSUME NEW e \in Records, record[e].start # 0
             PROVE  \E k \in 0..(L - 1) : record[e].failures <= MostFailures(k)
  BY DEF FailuresBounded, L
<1>1. record[e].failures \in Nat /\ record[e].count \in 0..MaxFailures /\ RecordInv(e)
  BY RecordTyped DEF FailuresInv
<1>2. Cardinality(Timely(e)) \in Nat /\ (Waiting(e) => Cardinality(Timely(e)) > 0)
  BY CountsOf DEF Waiting
<1>3. ASSUME NEW k \in 0..(L - 1) PROVE MostFailures(k) \in Nat
  <2>1. k \in Nat /\ k < L
    BY SomeLogin
  <2> QED
    BY <2>1, Rounds
<1>4. CASE Ended(e)
  <2>1. PICK k \in 0..(L - 1) :
          \/ record[e].failures + Cardinality(Timely(e)) <= MostFailures(k)
          \/ Waiting(e) /\ record[e].failures + Cardinality(Timely(e)) <= MostFailures(k) + 1
    BY <1>1, <1>4 DEF RecordInv, EndedInv
  <2> QED
    BY <1>1, <1>2, <1>3, <2>1
<1>5. CASE ~Ended(e)
  <2> DEFINE f == record[e].failures
             n == record[e].count
             z == Cardinality(Clearing(e))
             k == Cardinality(Closing(e))
             p == Cardinality(Failed(e))
             v == Cardinality(Served(e))
             t == Cardinality(Timely(e))
  <2>1. /\ z \in Nat /\ k \in Nat /\ p \in Nat /\ v \in Nat /\ t \in Nat /\ z <= k /\ k + p + t <= L
        /\ v <= t /\ f \in Nat /\ n \in 0..MaxFailures /\ Running(f, n, z, k, p, v)
    BY <1>1, <1>5, CountsOf DEF RecordInv, RunningInv
  <2> HIDE DEF f, n, z, k, p, v, t
  <2>2. /\ k \in 0..(L - 1)
        /\ \/ f + t <= MostFailures(k)
           \/ /\ n = MaxFailures /\ z = 0 /\ v = 0 /\ p = 0 /\ k + t = L
              /\ f + t <= MostFailures(k) + 1
    BY <2>1, RunningEnds
  <2>3. MostFailures(k) \in Nat
    BY <1>3, <2>2
  <2>4. f <= MostFailures(k)
    BY <2>1, <2>2, <2>3, SomeLogin
  <2> QED
    BY <2>2, <2>4 DEF f
<1> QED
  BY <1>4, <1>5

\* A window of failed admin logins is bounded by the limit and the requests in flight, for
\* any limit, any window and any number of concurrent requests: the unlocked reset lets the
\* count start anew no more than once for every request that found an older window over.
THEOREM FailuresAreBounded == AdminSpec => [](AdminTypeOK /\ FailuresBounded)
<1>1. AdminInit => AdminTypeOK /\ FailuresInv
  <2>1. AdminInit => FailuresInv
    BY DEF AdminInit, FailuresInv, RecordInv, NewRecord
  <2> QED
    BY <2>1, AdminStarts
<1>2. (AdminTypeOK /\ FailuresInv) /\ [AdminNext]_adminVars => (AdminTypeOK /\ FailuresInv)'
  BY AdminTypesKept, FailuresStep
<1>3. AdminTypeOK /\ FailuresInv => AdminTypeOK /\ FailuresBounded
  BY BoundFollows
<1> QED
  BY <1>1, <1>2, <1>3, PTL DEF AdminSpec

=============================================================================
