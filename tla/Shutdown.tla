------------------------------ MODULE Shutdown ------------------------------
(* The end of the process (cmd/grokpi/main.go): the flows of requests, the   *)
(* usage buffer, the recovery scheduler with its workers, the cooldown       *)
(* ticker and the token persister, and the order in which main stops them.   *)
(* The state of a token is the number of its changes; what they are is in    *)
(* TokenManager.  The refresh loop, which main stops first and which touches *)
(* nothing here, is CFRefresh.                                               *)
EXTENDS UsageBuffer, FiniteSets

CONSTANTS
    Requests,   \* requests; each records its usage once
    Workers,    \* goroutines of one refreshExpiredCooling
    Tokens,     \* tokens of the pools
    MaxChanges  \* bound: changes of each token

ASSUME ShutdownAssumption ==
    /\ IsFiniteSet(Requests) /\ IsFiniteSet(Workers)
    /\ MaxRecords >= Cardinality(Requests) /\ MaxChanges \in [Tokens -> Nat]

VARIABLES
    main,     \* where main stands
    flow,     \* the flow of each request: "new", "busy", "reported", "ended"
    sched,    \* recovery scheduler: "waiting", "launching", "joining", "done"
    workers,  \* its workers under way
    tok,      \* number of changes of each token
    dirty,    \* the dirty set of the manager
    row,      \* number of the last change the row of each token has
    flush,    \* who flushes ("persister", "main", "nobody")
    snap,     \* the tokens it took from the dirty set, with their changes
    persist,  \* the persister's loop: "waiting", "last", "done"
    overlap,  \* history: tokens last changed under a flush that had taken them
    unsaved,  \* history: tokens of the last flush, if it failed
    early     \* history: main went on while flows were under way

tokens == <<tok, dirty, row, flush, snap, persist, overlap, unsaved>>
others == <<sched, workers>>
shutdownVars == <<vars, main, flow, others, tokens, early>>

ShutdownInit ==
    /\ Init
    /\ main = "serving" /\ early = FALSE
    /\ flow = [r \in Requests |-> "new"]
    /\ sched = "waiting" /\ workers = {}
    /\ tok = [t \in Tokens |-> 0] /\ row = tok /\ dirty = {}
    /\ flush = "nobody" /\ snap = <<>> /\ persist = "waiting"
    /\ overlap = {} /\ unsaved = {}

(* The stages of main after the signal, in their order. *)
Stages == <<"serving", "draining", "refresh", "scheduler", "usage", "persister", "flush", "exited">>
Past(stage) == \E i, j \in DOMAIN Stages : i > j /\ Stages[i] = main /\ Stages[j] = stage
Cancelled == Past("draining")

---------------------------------------------------------------------------
Taken == DOMAIN snap

(* A change of a token by whoever makes it.  Under a flush that has taken    *)
(* the token the mark goes with that flush, and after main's last snapshot   *)
(* no flush comes.                                                           *)
Change(t) ==
    /\ tok[t] < MaxChanges[t]
    /\ tok' = [tok EXCEPT ![t] = @ + 1] /\ dirty' = dirty \cup {t}
    /\ overlap' = IF t \in Taken \/ main = "flush" THEN overlap \cup {t} ELSE overlap \ {t}
    /\ UNCHANGED <<row, flush, snap, persist, unsaved>>

Accept(r) ==
    /\ main = "serving" /\ flow[r] = "new"
    /\ flow' = [flow EXCEPT ![r] = "busy"]
    /\ UNCHANGED <<vars, main, others, tokens, early>>

Report(r) ==
    /\ flow[r] = "busy"
    /\ flow' = [flow EXCEPT ![r] = "reported"]
    /\ \E t \in Tokens : Change(t)
    /\ UNCHANGED <<vars, main, others, early>>

RecordUsage(r) ==
    /\ flow[r] = "reported"
    /\ Record
    /\ flow' = [flow EXCEPT ![r] = "ended"]
    /\ UNCHANGED <<main, others, tokens, early>>

---------------------------------------------------------------------------
(* refreshExpiredCooling: one worker for each token, as far as the launch    *)
(* comes, *)
SchedScans ==
    /\ sched = "waiting" /\ \E t \in Tokens : tok[t] < MaxChanges[t]
    /\ sched' = "launching"
    /\ UNCHANGED <<vars, main, flow, workers, tokens, early>>

SchedLaunches(w) ==
    /\ sched = "launching" /\ w \notin workers
    /\ workers' = workers \cup {w}
    /\ sched' \in {"launching", "joining"}
    /\ UNCHANGED <<vars, main, flow, tokens, early>>

(* and a launch that sees the cancel does not wait for those it launched. *)
SchedGivesUp ==
    /\ sched \in {"waiting", "launching"} /\ Cancelled
    /\ sched' = "done"
    /\ UNCHANGED <<vars, main, flow, workers, tokens, early>>

SchedJoins ==
    /\ sched = "joining" /\ workers = {}
    /\ sched' = "waiting"
    /\ UNCHANGED <<vars, main, flow, workers, tokens, early>>

WorkerEnds(w) ==
    /\ w \in workers /\ workers' = workers \ {w}
    /\ (\E t \in Tokens : Change(t)) \/ UNCHANGED tokens
    /\ UNCHANGED <<vars, main, flow, sched, early>>

(* The ticker checks until it sees the cancel, which nobody waits for. *)
TickerChecks ==
    /\ \E t \in Tokens : Change(t)
    /\ UNCHANGED <<vars, main, flow, others, early>>

---------------------------------------------------------------------------
(* FlushDirty: a snapshot of the marked tokens, their rows in one            *)
(* transaction, then their marks; a rollback leaves both.                    *)
Takes ==
    /\ snap' = [t \in dirty |-> tok[t]]
    /\ UNCHANGED <<tok, dirty, row, overlap, unsaved>>

Flushes(ok) ==
    /\ flush' = "nobody" /\ snap' = <<>>
    /\ row' = [t \in Tokens |-> IF ok /\ t \in Taken THEN snap[t] ELSE row[t]]
    /\ dirty' = IF ok THEN dirty \ Taken ELSE dirty
    /\ overlap' = IF ok THEN overlap ELSE overlap \ Taken
    /\ unsaved' = IF ok THEN {} ELSE Taken
    /\ UNCHANGED tok

(* The flush of the persister; once the context is cancelled it is the last. *)
PersisterReads ==
    /\ persist = "waiting" /\ flush = "nobody"
    /\ \/ ~Cancelled /\ dirty # {} /\ flush' = "persister" /\ UNCHANGED persist
       \/ /\ Cancelled
          /\ IF dirty # {} THEN flush' = "persister" /\ persist' = "last"
                           ELSE persist' = "done" /\ UNCHANGED flush
    /\ Takes
    /\ UNCHANGED <<vars, main, flow, others, early>>

PersisterWrites(ok) ==
    /\ flush = "persister" /\ Flushes(ok)
    /\ persist' = IF persist = "last" THEN "done" ELSE persist
    /\ UNCHANGED <<vars, main, flow, others, early>>

---------------------------------------------------------------------------
(* main: Shutdown waits for the handlers, but not beyond the grace period,   *)
(* and not for the flow of a handler that its client has left.               *)
Signal ==
    /\ main = "serving" /\ main' = "draining"
    /\ UNCHANGED <<vars, flow, others, tokens, early>>

Drained ==
    /\ main = "draining" /\ main' = "refresh"
    /\ early' = (\E r \in Requests : flow[r] \in {"busy", "reported"})
    /\ UNCHANGED <<vars, flow, others, tokens>>

(* CFRefresh shows that the Stop of its loop returns. *)
RefreshStopped ==
    /\ main = "refresh" /\ main' = "scheduler"
    /\ UNCHANGED <<vars, flow, others, tokens, early>>

SchedStopped ==
    /\ main = "scheduler" /\ sched = "done"
    /\ main' = "usage"
    /\ Stop
    /\ UNCHANGED <<flow, others, tokens, early>>

(* Mutant of UsageStopped: main does not wait for the last flush. *)
UsageLeft ==
    /\ main = "usage"
    /\ main' = "persister"
    /\ UNCHANGED <<vars, flow, others, tokens, early>>

UsageStopped ==
    /\ main = "usage" /\ loop = "done"
    /\ main' = "persister"
    /\ UNCHANGED <<vars, flow, others, tokens, early>>

(* The persister's own last flush came with the cancel; main flushes what    *)
(* changed since.                                                            *)
PersisterStopped ==
    /\ main = "persister" /\ persist = "done"
    /\ main' = "flush"
    /\ flush' = IF dirty # {} THEN "main" ELSE "nobody"
    /\ Takes
    /\ UNCHANGED <<vars, flow, others, persist, early>>

(* Mutant of MainExits: no flush after the persister's. *)
MainExitsAtOnce(ok) ==
    /\ main = "flush" /\ main' = "exited"
    /\ UNCHANGED <<vars, flow, others, tokens, early>>

MainExits(ok) ==
    /\ main = "flush" /\ main' = "exited"
    /\ IF flush = "main" THEN Flushes(ok) /\ UNCHANGED persist ELSE UNCHANGED tokens
    /\ UNCHANGED <<vars, flow, others, early>>

---------------------------------------------------------------------------
UsageStep == TickerFires \/ LastFlush \/ Insert \/ InsertFails
PersisterStep == PersisterReads \/ \E ok \in BOOLEAN : PersisterWrites(ok)
SchedStep ==
    \/ SchedGivesUp \/ SchedJoins
    \/ \E w \in Workers : WorkerEnds(w)
MainStep ==
    \/ Drained \/ RefreshStopped \/ SchedStopped \/ UsageStopped
    \/ PersisterStopped \/ \E ok \in BOOLEAN : MainExits(ok)

Rest == <<main, flow, others, tokens, early>>

ShutdownNext ==
    /\ main # "exited"
    /\ \/ \E r \in Requests :
              Accept(r) \/ Report(r) \/ RecordUsage(r)
       \/ UsageStep /\ UNCHANGED Rest
       \/ SchedScans \/ SchedStep \/ (\E w \in Workers : SchedLaunches(w))
       \/ TickerChecks
       \/ PersisterStep
       \/ Signal \/ MainStep

(* Every goroutine runs, and what each waits for ends: transactions, the     *)
(* requests of a worker (an HTTP timeout), the grace period of Shutdown.     *)
(* select takes one of its ready cases at random.  Nothing makes the flow of *)
(* a request end, nor a signal come.                                         *)
ShutdownFairness ==
    /\ WF_shutdownVars(UsageStep /\ UNCHANGED Rest)
    /\ SF_shutdownVars(LastFlush /\ UNCHANGED Rest)
    /\ SF_shutdownVars(Insert /\ UNCHANGED Rest)
    /\ WF_shutdownVars(SchedStep) /\ SF_shutdownVars(SchedGivesUp)
    /\ WF_shutdownVars(PersisterStep)
    /\ WF_shutdownVars(MainStep)

ShutdownSpec == ShutdownInit /\ [][ShutdownNext]_shutdownVars /\ ShutdownFairness

---------------------------------------------------------------------------
ShutdownTypeOK ==
    /\ TypeOK
    /\ main \in {Stages[i] : i \in DOMAIN Stages}
    /\ flow \in [Requests -> {"new", "busy", "reported", "ended"}]
    /\ sched \in {"waiting", "launching", "joining", "done"} /\ workers \subseteq Workers
    /\ tok \in [Tokens -> Nat] /\ row \in [Tokens -> Nat]
    /\ Taken \subseteq dirty /\ snap \in [Taken -> Nat]
    /\ flush \in {"nobody", "persister", "main"} /\ persist \in {"waiting", "last", "done"}
    /\ dirty \subseteq Tokens /\ early \in BOOLEAN

(* When the process ends, the changes of every token are in its row,         *)
(* although the persister's last flush comes with the cancel, before the     *)
(* scheduler has ended; except those of a token whose last change came under *)
(* a flush that had taken it, or that was in a failed flush of main.         *)
TokensSaved ==
    main = "exited" => \A t \in Tokens \ (overlap \cup unsaved) : row[t] = tok[t]

(* When Shutdown waited for every flow, no usage record is left in the       *)
(* buffer at the end, unless the last insert failed.                         *)
UsageSaved == main = "exited" /\ ~early /\ ~failed => buf = <<>>

(* After the signal the process ends, whatever its requests do. *)
Exits == main = "draining" ~> main = "exited"
=============================================================================
