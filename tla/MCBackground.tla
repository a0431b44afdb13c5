---------------------------- MODULE MCBackground ----------------------------
(* What runs beside the requests, in one run: the usage buffer, the refresh  *)
(* loop and the shutdown.  A behaviour is one of the usage buffer alone, in  *)
(* a larger instance, of the loop, or of the process: the loop shares no     *)
(* variable with the others, so that interleaving it with them adds nothing. *)
EXTENDS Shutdown, CFRefresh, TLC

CONSTANTS r1, w1, c1, c2, t1, t2

MCRequests == {r1}
MCWorkers == {w1}
MCCallers == {c1, c2}
MCTokens == {t1, t2}
MCMaxChanges == (t1 :> 2) @@ (t2 :> 1)

VARIABLE focus

allVars == <<shutdownVars, refreshVars, focus>>

MCInit ==
    /\ ShutdownInit /\ RefreshInit
    /\ focus \in {"usage", "refresh", "process"}
    /\ focus # "refresh" => enabled /\ usable

InUsage(A) == focus = "usage" /\ A /\ UNCHANGED <<refreshVars, Rest, focus>>
InRefresh(A) == focus = "refresh" /\ A /\ UNCHANGED <<shutdownVars, focus>>
InProcess(A) == focus = "process" /\ A /\ UNCHANGED <<refreshVars, focus>>

MCNext == InUsage(Next) \/ InRefresh(RefreshNext) \/ InProcess(ShutdownNext)

(* The fairness of the modules. *)
Usage(A) == InUsage(A) \/ InProcess(A /\ UNCHANGED Rest)

MCFairness ==
    /\ WF_allVars(Usage(UsageStep)) /\ SF_allVars(Usage(LastFlush)) /\ SF_allVars(Usage(Insert))
    /\ WF_allVars(InRefresh(LoopStep))
    /\ SF_allVars(InRefresh(LoopTakesTrigger))
    /\ WF_allVars(InProcess(SchedStep)) /\ SF_allVars(InProcess(SchedGivesUp))
    /\ WF_allVars(InProcess(PersisterStep))
    /\ WF_allVars(InProcess(MainStep))

MCSpec == MCInit /\ [][MCNext]_allVars /\ MCFairness
=============================================================================
