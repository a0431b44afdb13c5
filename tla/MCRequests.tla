----------------------------- MODULE MCRequests -----------------------------
(* A chat request, the selection its picks are made with, and the limits it  *)
(* and an admin's login are checked against, in one run.  They share no      *)
(* variable: a behaviour is one of either.  The two limits of a key have     *)
(* behaviours of their own too, since they share no variable but the places  *)
(* of the requests: in one the clock stands still, in the other the row.     *)
EXTENDS MCChatFlow, TokenSelection, KeyLimits, AdminLimit

CONSTANTS c1, c2, e1, e2, e3

TwoCheckers == {c1, c2}
\* One entry more than requests, so that a new one is always at hand.
ThreeEntries == {e1, e2, e3}

VARIABLE focus

limits == <<limitVars, adminVars>>
allVars == <<vars, selectionVars, limits, focus>>

AllInit ==
    /\ Init /\ SelectionInit /\ LimitInit /\ AdminInit
    /\ focus \in {"request", "selection", "row", "window", "admin"}
    /\ focus # "selection" => /\ algorithm = "random"
                              /\ \A t \in Ids : /\ priority[t] = 0
                                                /\ \A use \in Uses : units[t][use] = 0
    /\ focus # "request" => usable = {}

InRequest(A) == focus = "request" /\ A /\ UNCHANGED <<selectionVars, limits, focus>>
InSelection(A) == focus = "selection" /\ A /\ UNCHANGED <<vars, limits, focus>>
OfKey(A) ==
    /\ focus \in {"row", "window"} /\ A
    /\ focus = "row" => UNCHANGED clock
    /\ focus = "window" => UNCHANGED rowVars
    /\ UNCHANGED <<vars, selectionVars, adminVars, focus>>
OfAdmin(A) == focus = "admin" /\ A /\ UNCHANGED <<vars, selectionVars, limitVars, focus>>

AllNext == \/ InRequest(MCNext) \/ InSelection(SelectionNext)
           \/ OfKey(LimitNext) \/ OfAdmin(AdminNext)

(* The fairness of the modules: the goroutine of a request runs. *)
AllFairness ==
    /\ \A r \in Requests :
          /\ WF_allVars(InRequest(Loop(r))) /\ SF_allVars(InRequest(AnswerEnds(r)))
          /\ WF_allVars(InRequest(Read(r)))
    /\ \A r \in Checkers : WF_allVars(OfKey(Check(r)))

AllSpec == AllInit /\ [][AllNext]_allVars /\ AllFairness
=============================================================================
