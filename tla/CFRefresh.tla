------------------------------ MODULE CFRefresh ------------------------------
(* The loop that refreshes the Cloudflare clearance: an attempt at the start, *)
(* at every interval and when a goroutine that saw a 403 triggers one, a     *)
(* debounce with a backoff after failures, and the stop.  Time is counted in *)
(* ticks of one triggerCooldown; what an attempt writes is in ConfigRefresh. *)
EXTENDS Integers, FiniteSets

CONSTANTS
    Callers,    \* goroutines that may trigger a refresh
    Bits,       \* the width of a time.Duration: 64
    Cooldown,   \* triggerCooldown in units of a Duration: 60 * 10^9 ns
    MaxGap,     \* the cap of the backoff in the same units: 15 minutes
    MaxFails,   \* bound: failures counted; from Bits on the backoff is the same
    MaxAge,     \* bound: elapsed ticks told apart, no less than every backoff
    Interval    \* refresh_interval in ticks

ASSUME RefreshAssumption ==
    /\ IsFiniteSet(Callers)
    /\ Bits \in Nat \ {0} /\ Cooldown \in Nat \ {0}
    /\ MaxGap \in Nat /\ Cooldown <= MaxGap
    /\ MaxFails \in Nat /\ MaxFails >= Bits
    /\ MaxAge \in Nat /\ MaxAge * Cooldown >= MaxGap
    /\ Interval \in 1..MaxAge

VARIABLES
    enabled,  \* isEnabled of the live configuration
    usable,   \* some URL of the list is not empty
    cfloop,     \* where the loop stands
    age,      \* ticks since lastAttempt
    timer,    \* ticks since the loop waits
    fails,    \* consecutiveFails
    slot,     \* a trigger is in triggerCh
    passed,   \* callers that found the backoff over and have not sent yet
    cfstop,   \* stopped is closed
    gapless,  \* history: since the last tick the backoff was, at times, no gap
    burst     \* history: attempts since the last tick, until gapless

flags == <<enabled, usable, cfstop>>
refreshVars == <<flags, cfloop, age, timer, fails, slot, passed, burst, gapless>>

(* No attempt yet: lastAttempt is zero and every trigger passes. *)
RefreshInit ==
    /\ enabled \in BOOLEAN /\ usable \in BOOLEAN
    /\ cfloop = "starting" /\ age = MaxAge /\ timer = 0 /\ fails = 0
    /\ slot = FALSE /\ passed = {} /\ cfstop = FALSE
    /\ burst = 0 /\ gapless = FALSE

---------------------------------------------------------------------------
(* time.Duration(1<<fails) * triggerCooldown, in the width of a Duration and *)
(* with its sign, then capped.  A minute is 2^11 * 29296875 ns: from 28       *)
(* failures on the product overflows, first to a negative number, at some     *)
(* counts (30 is one) to a positive one, from 53 on to zero.                  *)
Doubled(f) ==
    LET product == (2 ^ f * Cooldown) % 2 ^ Bits
    IN  IF product < 2 ^ (Bits - 1) THEN product ELSE product - 2 ^ Bits

Backoff(f) == IF f = 0 THEN Cooldown ELSE IF Doubled(f) > MaxGap THEN MaxGap ELSE Doubled(f)

(* After f failures a trigger passes at once, however fresh the last attempt. *)
NoGap(f) == 0 >= Backoff(f)

(* TriggerRefresh: first the look at the backoff, *)
TriggerPasses(c) ==
    /\ enabled /\ c \notin passed
    /\ age * Cooldown >= Backoff(fails)
    /\ passed' = passed \cup {c}
    /\ UNCHANGED <<flags, cfloop, age, timer, fails, slot, burst, gapless>>

(* then a send that does not wait: one trigger pending is enough. *)
TriggerSends(c) ==
    /\ c \in passed
    /\ passed' = passed \ {c}
    /\ slot' = TRUE
    /\ UNCHANGED <<flags, cfloop, age, timer, fails, burst, gapless>>

---------------------------------------------------------------------------
Wait == cfloop' = "waiting" /\ timer' = 0

(* Mutant of Attempt: the time is noted when the attempt has succeeded. *)
AttemptUnnoted ==
    /\ cfloop' = "solving" /\ burst' = IF gapless THEN burst ELSE burst + 1
    /\ UNCHANGED <<age, timer>>

(* refreshOnce up to its requests: the time is noted before the outcome. *)
Attempt ==
    /\ cfloop' = "solving" /\ age' = 0
    /\ burst' = IF gapless THEN burst ELSE burst + 1
    /\ UNCHANGED timer

AttemptIfEnabled == IF enabled THEN Attempt ELSE Wait /\ UNCHANGED <<age, burst>>

LoopStarts ==
    /\ cfloop = "starting" /\ AttemptIfEnabled
    /\ UNCHANGED <<flags, fails, slot, passed, gapless>>

(* Mutant of LoopTakesTrigger: a refresh that is off leaves its triggers. *)
LoopKeepsTrigger ==
    /\ cfloop = "waiting" /\ slot
    /\ slot' = ~enabled
    /\ AttemptIfEnabled
    /\ UNCHANGED <<flags, fails, passed, gapless>>

LoopTakesTrigger ==
    /\ cfloop = "waiting" /\ slot
    /\ slot' = FALSE
    /\ AttemptIfEnabled
    /\ UNCHANGED <<flags, fails, passed, gapless>>

LoopTimerFires ==
    /\ cfloop = "waiting" /\ timer >= Interval /\ AttemptIfEnabled
    /\ UNCHANGED <<flags, fails, slot, passed, gapless>>

LoopStops ==
    /\ cfloop = "waiting" /\ cfstop
    /\ cfloop' = "stopped"
    /\ UNCHANGED <<flags, age, timer, fails, slot, passed, burst, gapless>>

(* A list of empty URLs gives neither error nor result: the loop dies of the *)
(* nil pointer, which closes done.                                           *)
SolvesNothing ==
    /\ cfloop = "solving" /\ ~usable
    /\ cfloop' = "dead"
    /\ UNCHANGED <<flags, age, timer, fails, slot, passed, burst, gapless>>

(* One of the URLs answered, or none did in its time. *)
SolveEnds(ok) ==
    /\ cfloop = "solving" /\ usable
    /\ fails' = IF ok THEN 0 ELSE IF fails < MaxFails THEN fails + 1 ELSE fails
    /\ gapless' = (gapless \/ NoGap(fails'))
    /\ Wait
    /\ UNCHANGED <<flags, age, slot, passed, burst>>

(* A PUT turns the refresh on or off. *)
Toggle ==
    /\ enabled' = ~enabled
    /\ UNCHANGED <<usable, cfstop, cfloop, age, timer, fails, slot, passed, burst, gapless>>

Tick ==
    /\ age' = IF age < MaxAge THEN age + 1 ELSE age
    /\ timer' = IF timer < Interval THEN timer + 1 ELSE timer
    /\ burst' = 0 /\ gapless' = NoGap(fails)
    /\ <<age, timer, burst, gapless>>' # <<age, timer, burst, gapless>>
    /\ UNCHANGED <<flags, cfloop, fails, slot, passed>>

(* Stop closes the channel, and then waits for the loop. *)
StopRefresh ==
    /\ ~cfstop /\ cfstop' = TRUE
    /\ UNCHANGED <<enabled, usable, cfloop, age, timer, fails, slot, passed, burst, gapless>>

LoopStep ==
    \/ LoopStarts \/ LoopTakesTrigger \/ LoopTimerFires \/ LoopStops
    \/ SolvesNothing \/ \E ok \in BOOLEAN : SolveEnds(ok)

RefreshNext ==
    \/ \E c \in Callers : TriggerPasses(c) \/ TriggerSends(c)
    \/ LoopStep \/ Toggle \/ Tick \/ StopRefresh

(* The loop runs, its requests have a timeout, and select takes one of the   *)
(* ready cases at random: what is ready again and again is taken.            *)
RefreshFairness ==
    WF_refreshVars(LoopStep) /\ SF_refreshVars(LoopTakesTrigger) /\ SF_refreshVars(LoopStops)

RefreshSpec == RefreshInit /\ [][RefreshNext]_refreshVars /\ RefreshFairness

---------------------------------------------------------------------------
RefreshTypeOK ==
    /\ enabled \in BOOLEAN /\ usable \in BOOLEAN /\ cfstop \in BOOLEAN /\ slot \in BOOLEAN
    /\ cfloop \in {"starting", "waiting", "solving", "stopped", "dead"}
    /\ age \in 0..MaxAge /\ timer \in 0..Interval /\ fails \in 0..MaxFails
    /\ passed \subseteq Callers /\ burst \in Nat /\ gapless \in BOOLEAN

(* "Minimum gap between triggered refreshes", as far as the debounce gives   *)
(* it: within one cooldown the loop attempts once for the timer, once for a  *)
(* trigger that waited, and once for each caller that had read lastAttempt   *)
(* before; however many callers see a 403 then, they pass no more.  Only     *)
(* while an overflow leaves the backoff without a gap nothing bounds them.   *)
BurstBounded ==
    gapless \/ burst + Cardinality(passed) + (IF slot THEN 1 ELSE 0) <= 2 + Cardinality(Callers)

(* A trigger that was accepted is taken: the loop ends only by its stop, or  *)
(* by itself of a list of empty URLs.                                        *)
TriggerTaken == slot ~> (~slot \/ cfstop \/ ~usable)

=============================================================================
