--------------------------- MODULE TokenSelection ---------------------------
(***************************************************************************)
(* How one pool of tokens is selected from: the tier of the highest        *)
(* priority that has a token for the category, and within it one of three  *)
(* algorithms.  The pools share nothing, the categories of a pool share    *)
(* its round-robin counter.                                                *)
(*                                                                         *)
(* Abstractions.  The quota of a token that is not active counts as 0.  An *)
(* exclusion is any set: tokens a request has tried, open breakers.  Every *)
(* selection is one step: it holds the manager's lock shared, the changes  *)
(* of a token hold it alone, and overlapping selections meet only in the   *)
(* counter, which is atomic.  The counter is 64 bits wide and is taken not *)
(* to wrap.                                                                *)
(***************************************************************************)
EXTENDS Integers, FiniteSets, Sequences, Functions

CONSTANTS Ids,            \* the ids of the pool's tokens
          Uses,           \* quota categories
          Priorities,     \* the priorities a token may have
          MaxUnits,       \* bound on a quota
          MaxPicks        \* bound on the selections

ASSUME SelectionAssumption ==
    /\ Ids \subseteq Nat /\ IsFiniteSet(Ids)
    /\ Priorities \subseteq Int /\ MaxUnits \in Nat /\ MaxPicks \in Nat

VARIABLES
    algorithm,   \* token.selection_algorithm, as it was at the start
    priority,    \* of each token
    units,       \* what each token has left per category
    rrIndex,     \* rrIndex of the pool
    recent       \* the id selected last; history of round_robin: the tier, and the
                 \* ids of it, oldest first, selected since the tier last changed

selectionVars == <<algorithm, priority, units, rrIndex, recent>>

Nothing == [tier |-> {}, ids |-> << >>]

SelectionInit ==
    /\ algorithm \in {"high_quota_first", "random", "round_robin"}
    /\ priority \in [Ids -> Priorities]
    /\ units \in [Ids -> [Uses -> 0..MaxUnits]]
    /\ rrIndex = 0 /\ recent = Nothing

---------------------------------------------------------------------------
Eligible(use, exclude) == {t \in Ids \ exclude : units[t][use] > 0}

TopTier(use, exclude) ==
    LET able == Eligible(use, exclude)
    IN  {t \in able : \A u \in able : priority[u] <= priority[t]}

\* The token of S that stands behind k others when S is sorted by id.
Ranked(S, k) == CHOOSE t \in S : Cardinality({u \in S : u < t}) = k

\* Mutant of RoundRobin: the counter walks over the whole pool, and a token
\* that cannot be selected hands its turn to the next one.
RoundRobinOverPool(tier, i) ==
    LET behind == {t \in tier : t >= Ranked(Ids, i % Cardinality(Ids))}
    IN  Ranked(IF behind = {} THEN tier ELSE behind, 0)

RoundRobin(tier, i) == Ranked(tier, i % Cardinality(tier))

Fullest(tier, use) == {t \in tier : \A u \in tier : units[u][use] <= units[t][use]}

\* What selectByAlgorithm may return; an unknown algorithm is high_quota_first.
Selectable(tier, use) ==
    CASE algorithm = "random"      -> tier
      [] algorithm = "round_robin" -> {RoundRobin(tier, rrIndex)}
      [] OTHER                     -> Fullest(tier, use)

\* As many selections as the tier has tokens.
Latest(ids, tier) == IF Len(ids) > Cardinality(tier) THEN Tail(ids) ELSE ids

Select(use, exclude) ==
    LET tier == TopTier(use, exclude)
        ids == IF tier = recent.tier THEN recent.ids ELSE << >>
    IN  /\ tier # {} /\ rrIndex < MaxPicks
        /\ \E t \in Selectable(tier, use) :
              IF algorithm = "round_robin"
              THEN /\ rrIndex' = rrIndex + 1
                   /\ recent' = [tier |-> tier, ids |-> Latest(Append(ids, t), tier)]
              ELSE /\ recent' = [tier |-> {}, ids |-> <<t>>]
                   /\ UNCHANGED rrIndex
        /\ UNCHANGED <<algorithm, priority, units>>

\* Consume, a sync, a recovery, a failure or an admin: what a selection sees of
\* a token changes; of several categories at once, in several steps.
TokenChanges(t, use) ==
    /\ \E n \in 0..MaxUnits : units' = [units EXCEPT ![t][use] = n]
    /\ UNCHANGED <<algorithm, priority, rrIndex, recent>>

SelectionNext ==
    \/ \E use \in Uses, exclude \in SUBSET Ids : Select(use, exclude)
    \/ \E t \in Ids, use \in Uses : TokenChanges(t, use)

SelectionSpec == SelectionInit /\ [][SelectionNext]_selectionVars

---------------------------------------------------------------------------
(* Round robin is fair to the tokens of a tier: as long as the selections    *)
(* find the same tier, for whatever category and with whatever exclusions,   *)
(* no token is selected twice before all others of it were selected once.    *)
Rotation == algorithm = "round_robin" => IsInjective(recent.ids)

=============================================================================
