----------------------------- MODULE AdminLimit -----------------------------
(***************************************************************************)
(* The limit of failed authentications of one client address at the admin  *)
(* console.  It is looked at before a request is served and counted after  *)
(* it was answered with 401, in an entry of two atomics that the requests  *)
(* of the address share without a lock and that a cleanup drops when it is *)
(* old.  The settings are those of one configuration with both limits set. *)
(***************************************************************************)
EXTENDS Integers, FiniteSets

CONSTANTS Logins,        \* requests of the address in flight at a time
          Records,       \* the objects an entry may be
          MaxFailures,   \* admin_max_fails
          FailWindow,    \* admin_window_sec, in ticks of the clock
          LastTick,      \* bound on the clock
          NoRecord       \* no entry

ASSUME AdminAssumption ==
  /\ IsFiniteSet(Logins) /\ Logins # {}
  /\ IsFiniteSet(Records) /\ Cardinality(Records) > Cardinality(Logins)
  /\ {MaxFailures, FailWindow} \subseteq Nat \ {0}
  /\ LastTick \in Nat /\ LastTick >= FailWindow
  /\ NoRecord \notin Records

VARIABLES
  record,   \* the entries: windowStart, count; history: failures of its window
  mapped,   \* the entry in failMap, or NoRecord
  old,      \* the cleanup has found the mapped entry old
  login,    \* per request: where it is, its now and its entry
  ticks

adminVars == <<record, mapped, old, login, ticks>>

NewRecord == [start |-> 0, count |-> 0, failures |-> 0]
NotLoggingIn == [at |-> "idle", now |-> 0, rec |-> NoRecord]

\* The clock is far from 0, the windowStart that says that no window is open.
AdminInit ==
  /\ record = [e \in Records |-> NewRecord]
  /\ mapped = NoRecord /\ old = FALSE
  /\ login = [r \in Logins |-> NotLoggingIn]
  /\ ticks = FailWindow
-----------------------------------------------------------------------------
Moves(r, from, to) ==
  /\ login[r].at = from
  /\ login' = [login EXCEPT ![r].at = to]
  /\ UNCHANGED <<mapped, old, ticks>>
Sets(r, field, value) == record' = [record EXCEPT ![login[r].rec][field] = value]

\* The request is over; an entry that nothing refers to is collected.
Leaves(r, recs) ==
  /\ login' = [login EXCEPT ![r] = NotLoggingIn]
  /\ record' = [e \in Records |->
       IF e = mapped \/ \E q \in Logins \ {r} : login[q].rec = e THEN recs[e] ELSE NewRecord]
  /\ UNCHANGED <<mapped, old, ticks>>

ReadsClock(r) ==
  /\ login[r].at = "idle"
  /\ login' = [login EXCEPT ![r] = [@ EXCEPT !.at = "timed", !.now = ticks]]
  /\ UNCHANGED <<record, mapped, old, ticks>>

LoadsOrStores(r) ==
  /\ login[r].at = "timed"
  /\ LET unused == {e \in Records : e # mapped /\ \A q \in Logins : login[q].rec # e}
         e == IF mapped = NoRecord THEN CHOOSE e \in unused : TRUE ELSE mapped IN
       /\ mapped' = e
       /\ login' = [login EXCEPT ![r] = [@ EXCEPT !.at = "load", !.rec = e]]
  /\ UNCHANGED <<record, old, ticks>>

\* No window is open, one is running, or one is over.
LoadsWindow(r) ==
  LET start == record[login[r].rec].start IN
  /\ Moves(r, "load", IF start = 0 THEN "serve"
                      ELSE IF login[r].now - start < FailWindow THEN "look" ELSE "zero")
  /\ UNCHANGED record

\* Mutant of Exhausts: one failure more than the limit is let through.
ExhaustsLate(e) == record[e].count > MaxFailures

Exhausts(e) == record[e].count >= MaxFailures

\* 429, or on to the handler.
Refused(r) == /\ login[r].at = "look" /\ Exhausts(login[r].rec)
              /\ Leaves(r, record)

LetIn(r) == /\ Moves(r, "look", "serve") /\ ~Exhausts(login[r].rec)
            /\ UNCHANGED record

ClearsCount(r) == Moves(r, "zero", "close") /\ Sets(r, "count", 0)
ClosesWindow(r) == Moves(r, "close", "serve") /\ Sets(r, "start", 0)

\* The handler answers: with 401, or with anything else.
Answers401(r) ==
  /\ Moves(r, "serve", "open")
  /\ Sets(r, "failures", record[login[r].rec].failures + 1)
AnswersElse(r) == login[r].at = "serve" /\ Leaves(r, record)

LoadsStart(r) == /\ Moves(r, "open", IF record[login[r].rec].start = 0 THEN "swap" ELSE "count")
                 /\ UNCHANGED record

\* CompareAndSwap: the window starts when the request did; its own failure is the
\* first of it.
OpensWindow(r) ==
  /\ Moves(r, "swap", "count")
  /\ LET e == login[r].rec IN
       record' = IF record[e].start = 0
                   THEN [record EXCEPT ![e].start = login[r].now, ![e].failures = 1]
                   ELSE record

\* Beyond the limit the count only has to stay beyond it.
CountsFailure(r) ==
  /\ login[r].at = "count"
  /\ LET e == login[r].rec IN
       Leaves(r, [record EXCEPT ![e].count = IF Exhausts(e) THEN @ ELSE @ + 1])
-----------------------------------------------------------------------------
\* cleanupRateLimitMap looks at an entry, then deletes what the map has for the
\* address.
FindsOld == /\ mapped # NoRecord /\ ~old
            /\ record[mapped].start <= ticks - FailWindow
            /\ old' = TRUE
            /\ UNCHANGED <<record, mapped, login, ticks>>

DropsOld == /\ old /\ old' = FALSE
            /\ mapped' = NoRecord
            /\ record' = [e \in Records |->
                 IF \E q \in Logins : login[q].rec = e THEN record[e] ELSE NewRecord]
            /\ UNCHANGED <<login, ticks>>

AdminTick == /\ ticks < LastTick /\ ticks' = ticks + 1
             /\ UNCHANGED <<record, mapped, old, login>>

AdminNext ==
  \/ \E r \in Logins :
       \/ ReadsClock(r) \/ LoadsOrStores(r) \/ LoadsWindow(r) \/ Refused(r) \/ LetIn(r)
       \/ ClearsCount(r) \/ ClosesWindow(r) \/ Answers401(r) \/ AnswersElse(r)
       \/ LoadsStart(r) \/ OpensWindow(r) \/ CountsFailure(r)
  \/ FindsOld \/ DropsOld \/ AdminTick

AdminSpec == AdminInit /\ [][AdminNext]_adminVars
-----------------------------------------------------------------------------
LimitEntry == [start : 0..LastTick, count : 0..MaxFailures, failures : Nat]
Places == {"idle", "timed", "load", "look", "zero", "close", "serve", "open", "swap", "count"}
Login == [at : Places, now : 0..LastTick, rec : Records \cup {NoRecord}]

AdminTypeOK ==
  /\ record \in [Records -> LimitEntry]
  /\ mapped \in Records \cup {NoRecord} /\ old \in BOOLEAN
  /\ login \in [Logins -> Login] /\ ticks \in FailWindow..LastTick
  /\ \A r \in Logins :
       login[r].now <= ticks /\ (login[r].rec = NoRecord <=> login[r].at \in {"idle", "timed"})

\* The count starts anew for k requests that found an older window over, once each before
\* their own reset closes this one.  Each time it lets in one failure less than the limit
\* and then the last failure of every other request.  At the end, requests that read the
\* clock inside the window but not yet the count may fail in a window that is over.
Round(k) == MaxFailures - 1 + Cardinality(Logins) - k
MostFailures(k) == (k + 1) * Round(k) + Cardinality(Logins) - k - 1

\* The failures that a window answers are bounded by its limit and the requests in flight.
FailuresBounded ==
  \A e \in Records :
    record[e].start # 0 =>
      \E k \in 0..(Cardinality(Logins) - 1) : record[e].failures <= MostFailures(k)
=============================================================================
