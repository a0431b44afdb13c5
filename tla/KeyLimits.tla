----------------------------- MODULE KeyLimits -----------------------------
(***************************************************************************)
(* The limits of one active API key.  The daily limit is read from the     *)
(* key's row and counted when a chat request has succeeded.  The limit per *)
(* minute is kept in memory, in an entry of two atomics that the requests  *)
(* of the key move on without a lock and that a cleanup drops when it is   *)
(* old.  Of the row only the column daily_used is kept.                    *)
(***************************************************************************)
EXTENDS Integers, FiniteSets

CONSTANTS Checkers,    \* requests in flight at a time
          Entries,     \* the objects an entry may be
          DailyLimit, RateLimit,
          Window,      \* apiKeyRateLimitWindow, in ticks of the clock
          MaxTime,     \* bound on the clock
          MaxDays,     \* bound on the daily resets
          None         \* no entry, no row

ASSUME LimitsAssumption ==
  /\ IsFiniteSet(Checkers) /\ Checkers # {}
  /\ IsFiniteSet(Entries) /\ Cardinality(Entries) > Cardinality(Checkers)
  /\ {DailyLimit, RateLimit, Window} \subseteq Nat \ {0}
  /\ {MaxTime, MaxDays} \subseteq Nat /\ MaxTime >= Window
  /\ None \notin Entries

VARIABLES
  used,     \* daily_used in the key's row
  patch,    \* the same as a PATCH handler has read it, or None
  entry,    \* the entries: windowStart, count; history: requests let through
  current,  \* the entry in rateLimitMap, or None
  looked,   \* the cleanup has found the current entry old
  req,      \* per request: where it is, its now, entry and windowStart
  clock, day,
  raised    \* history: since the last reset a PATCH wrote a higher, old count

limitVars == <<used, patch, entry, current, looked, req, clock, day, raised>>

Entry == [start : 0..MaxTime, count : 0..RateLimit + 1, let : Nat]
NewEntry == [start |-> 0, count |-> 0, let |-> 0]

Checking == {"allowed", "timed", "load", "swap", "zero", "first", "count"}
Holding == {"load", "swap", "zero", "first", "count"}
Request == [pc : Checking \union {"idle", "serving"}, now : 0..MaxTime,
            at : Entries \union {None}, seen : 0..MaxTime]
Idle == [pc |-> "idle", now |-> 0, at |-> None, seen |-> 0]

LimitTypeOK ==
  /\ used \in Nat /\ patch \in Nat \union {None}
  /\ entry \in [Entries -> Entry]
  /\ current \in Entries \union {None}
  /\ looked \in BOOLEAN /\ (looked => current # None)
  /\ req \in [Checkers -> Request]
  /\ \A r \in Checkers : req[r].at # None <=> req[r].pc \in Holding
  /\ clock \in 0..MaxTime /\ day \in 0..MaxDays
  /\ raised \in BOOLEAN

\* The clock is far from 0, the windowStart of a new entry.
LimitInit == /\ used = 0 /\ patch = None
        /\ entry = [e \in Entries |-> NewEntry]
        /\ current = None /\ looked = FALSE
        /\ req = [r \in Checkers |-> Idle]
        /\ clock = Window /\ day = 0 /\ raised = FALSE

rowVars == <<used, patch, day, raised>>
mapVars == <<entry, current, looked>>
Go(r, pc) == req' = [req EXCEPT ![r] = [@ EXCEPT !.pc = pc]]
\* What a request does not read again is forgotten.
Done(r, pc) == req' = [req EXCEPT ![r] = [Idle EXCEPT !.pc = pc]]
\* An entry that nothing refers to is collected.
Reclaim(en) == entry' = [e \in Entries |->
  IF e = current' \/ \E r \in Checkers : req'[r].at = e THEN en[e] ELSE NewEntry]
-----------------------------------------------------------------------------
\* Mutant of Lookup: a key may reach its limit and one more.
LookupOffByOne(r) ==
  /\ req[r].pc = "idle" /\ used <= DailyLimit
  /\ Go(r, "allowed")
  /\ UNCHANGED <<rowVars, mapVars, clock>>

\* The row is read; a key that is used up is refused, and nothing changes.
Lookup(r) ==
  /\ req[r].pc = "idle" /\ used < DailyLimit
  /\ Go(r, "allowed")
  /\ UNCHANGED <<rowVars, mapVars, clock>>

ReadClock(r) ==
  /\ req[r].pc = "allowed"
  /\ req' = [req EXCEPT ![r] = [@ EXCEPT !.pc = "timed", !.now = clock]]
  /\ UNCHANGED <<rowVars, mapVars, clock>>

Free == {e \in Entries : e # current /\ \A r \in Checkers : req[r].at # e}

\* Which object a new entry is makes no difference.
LoadOrStore(r) ==
  /\ req[r].pc = "timed"
  /\ LET e == IF current = None THEN CHOOSE e \in Free : TRUE ELSE current IN
       /\ req' = [req EXCEPT ![r] = [@ EXCEPT !.pc = "load", !.at = e]]
       /\ current' = e
  /\ UNCHANGED <<rowVars, entry, looked, clock>>

\* The head of the loop: is the window over?
LoadWindow(r) ==
  /\ req[r].pc = "load"
  /\ LET start == entry[req[r].at].start IN
       req' = [req EXCEPT ![r] = IF @.now - start >= Window
                 THEN [@ EXCEPT !.pc = "swap", !.seen = start]
                 ELSE [@ EXCEPT !.pc = "count", !.now = 0]]
  /\ UNCHANGED <<rowVars, mapVars, clock>>

\* Mutant of Swap: the loop does not read the window again.
SwapKeepsWindow(r) ==
  /\ req[r].pc = "swap"
  /\ LET e == req[r].at IN
       IF entry[e].start = req[r].seen
         THEN /\ entry' = [entry EXCEPT ![e].start = req[r].now, ![e].let = 0]
              /\ req' = [req EXCEPT ![r] = [@ EXCEPT !.pc = "zero", !.now = 0, !.seen = 0]]
         ELSE UNCHANGED <<entry, req>>
  /\ UNCHANGED <<rowVars, current, looked, clock>>

\* CompareAndSwap: one request opens the window, the others look again.
Swap(r) ==
  /\ req[r].pc = "swap"
  /\ LET e == req[r].at IN
       IF entry[e].start = req[r].seen
         THEN /\ entry' = [entry EXCEPT ![e].start = req[r].now, ![e].let = 0]
              /\ req' = [req EXCEPT ![r] = [@ EXCEPT !.pc = "zero", !.now = 0, !.seen = 0]]
         ELSE /\ req' = [req EXCEPT ![r] = [@ EXCEPT !.pc = "load", !.seen = 0]]
              /\ UNCHANGED entry
  /\ UNCHANGED <<rowVars, current, looked, clock>>

\* Mutant of ResetCount: the count of the old window stays.
ResetSkipped(r) ==
  /\ req[r].pc = "zero" /\ Go(r, "first")
  /\ UNCHANGED <<rowVars, mapVars, clock>>

ResetCount(r) ==
  /\ req[r].pc = "zero"
  /\ entry' = [entry EXCEPT ![req[r].at].count = 0]
  /\ Go(r, "first")
  /\ UNCHANGED <<rowVars, current, looked, clock>>

\* Beyond the limit the count only has to stay beyond it.
Counted(e) == [entry[e] EXCEPT !.count = IF @ > RateLimit THEN @ ELSE @ + 1]
LetThrough(r, e) == /\ Done(r, "serving")
                    /\ Reclaim([entry EXCEPT ![e] = [Counted(e) EXCEPT !.let = @ + 1]])

CountFirst(r) ==
  /\ req[r].pc = "first"
  /\ UNCHANGED <<rowVars, current, looked, clock>>
  /\ LetThrough(r, req[r].at)

\* Mutant of Over: the limit may be exceeded by one.
OverByOne(count) == count > RateLimit + 1

Over(count) == count > RateLimit

Count(r) ==
  /\ req[r].pc = "count"
  /\ UNCHANGED <<rowVars, current, looked, clock>>
  /\ LET e == req[r].at IN
       IF Over(Counted(e).count)
         THEN Done(r, "idle") /\ Reclaim([entry EXCEPT ![e] = Counted(e)])
         ELSE LetThrough(r, e)

\* IncrementUsage adds one to whatever the row has.
Succeed(r) ==
  /\ req[r].pc = "serving" /\ Done(r, "idle")
  /\ used' = used + 1
  /\ UNCHANGED <<patch, day, raised, mapVars, clock>>

\* The request fails, is none of chat, or its increment fails.
Fail(r) ==
  /\ req[r].pc = "serving" /\ Done(r, "idle")
  /\ UNCHANGED <<rowVars, mapVars, clock>>
-----------------------------------------------------------------------------
ResetDailyUsage ==
  /\ day < MaxDays
  /\ used' = 0
  /\ day' = day + 1 /\ raised' = FALSE
  /\ UNCHANGED <<patch, mapVars, req, clock>>

PatchGet == /\ patch = None
            /\ patch' = used
            /\ UNCHANGED <<used, day, raised, mapVars, req, clock>>

\* Save writes every column, daily_used too, which no PATCH names.
PatchSave == /\ patch # None
             /\ used' = patch
             /\ raised' = (raised \/ patch > used)
             /\ patch' = None
             /\ UNCHANGED <<day, mapVars, req, clock>>

PatchFails == /\ patch # None
              /\ patch' = None
              /\ UNCHANGED <<used, day, raised, mapVars, req, clock>>

\* The cleanup looks at an entry, then deletes what the map has for its key.
CleanupLooks == /\ current # None /\ ~looked
                /\ entry[current].start <= clock - Window
                /\ looked' = TRUE
                /\ UNCHANGED <<rowVars, entry, current, req, clock>>

CleanupDeletes == /\ looked
                  /\ current' = None /\ looked' = FALSE
                  /\ UNCHANGED <<rowVars, req, clock>>
                  /\ Reclaim(entry)

Tick == /\ clock < MaxTime
        /\ clock' = clock + 1
        /\ UNCHANGED <<rowVars, mapVars, req>>

Check(r) == \/ ReadClock(r) \/ LoadOrStore(r) \/ LoadWindow(r) \/ Swap(r)
            \/ ResetCount(r) \/ CountFirst(r) \/ Count(r)

LimitNext == \/ \E r \in Checkers : Lookup(r) \/ Check(r) \/ Succeed(r) \/ Fail(r)
        \/ ResetDailyUsage \/ PatchGet \/ PatchSave \/ PatchFails
        \/ CleanupLooks \/ CleanupDeletes \/ Tick

LimitSpec == LimitInit /\ [][LimitNext]_limitVars

\* The goroutine of a request runs.
LimitFairSpec == LimitSpec /\ \A r \in Checkers : WF_limitVars(Check(r))
-----------------------------------------------------------------------------
\* The daily limit is exceeded by less than the requests in flight, unless a
\* PATCH put a count back that is higher than the row's.
DailyBounded == ~raised => used <= DailyLimit + Cardinality(Checkers) - 1

\* One window of an entry lets through at most the limit and one for each request
\* in flight, but one: a request that opened a window may set its count, or that of
\* a later window, to zero long after others were counted, and is then let through
\* unchecked.
WindowBounded ==
  \A e \in Entries : entry[e].let < (RateLimit + 1) * Cardinality(Checkers)

\* Between its CompareAndSwap and its Store a window has the old count.
Opening(e) == \E r \in Checkers : req[r].pc = "zero" /\ req[r].at = e

\* A request is refused only by a window that let the limit through, or by one
\* that is being opened: no count of an old window refuses it later.
RefusedWhenFull == [][\A r \in Checkers :
  req[r].pc = "count" /\ req'[r].pc = "idle" =>
    LET e == req[r].at IN entry[e].let >= RateLimit \/ Opening(e)]_limitVars

\* The check of every request ends: a lost CompareAndSwap is not repeated for ever.
ChecksEnd == \A r \in Checkers :
  req[r].pc \in Checking ~> req[r].pc \in {"idle", "serving"}
=============================================================================
