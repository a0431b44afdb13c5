---------------------------- MODULE DirtyTokens ----------------------------
(***************************************************************************)
(* What the in-memory token manager promises to the code that persists     *)
(* it: a token that is in memory only ever changes together with a mark in *)
(* the dirty set, and only a finished flush or the removal of the token    *)
(* takes that mark away.  TokenManager is shown to implement this module;  *)
(* TokenPersistence composes it with the flusher, the database and the     *)
(* admin API.                                                              *)
(***************************************************************************)

CONSTANTS Tokens,   \* token ids
          Values,   \* the volatile fields of a token: status, quotas, cooling, failures
          NoToken   \* "this id is not in memory"

ASSUME NoTokenAssumption == NoToken \notin Values

VARIABLES mem,      \* the token each id maps to, or NoToken
          dirty,    \* ids that need persistence
          obj       \* history: tells an object from the one it was put over

vars == <<mem, dirty, obj>>

Loaded == {t \in Tokens : mem[t] # NoToken}

TypeOK == /\ mem \in [Tokens -> Values \union {NoToken}]
          /\ dirty \subseteq Tokens
          /\ obj \in [Tokens -> BOOLEAN]

Init == /\ mem \in [Tokens -> Values \union {NoToken}]
        /\ dirty = {}
        /\ obj = [t \in Tokens |-> FALSE]

\* Some tokens in memory change, and every one that does is marked.  An id
\* may be marked without changing, even one that is no longer in memory.
Mutate(S) ==
  /\ mem' \in [Tokens -> Values \union {NoToken}]
  /\ \A t \in Tokens : mem'[t] # mem[t] =>
        t \in S /\ mem[t] # NoToken /\ mem'[t] # NoToken
  /\ dirty' = dirty \union S
  /\ UNCHANGED obj

\* A row of the database enters the memory as a new object, over the one that is
\* there if two reloads of the token overlap; nothing is marked.
Add(t) == /\ mem' \in [Tokens -> Values \union {NoToken}]
          /\ mem'[t] # NoToken
          /\ \A u \in Tokens \ {t} : mem'[u] = mem[u]
          /\ obj' = [obj EXCEPT ![t] = mem[t] # NoToken /\ ~@]
          /\ UNCHANGED dirty

\* A token leaves the memory, and its mark with it.
Remove(t) == /\ mem[t] # NoToken
             /\ mem' = [mem EXCEPT ![t] = NoToken]
             /\ dirty' = dirty \ {t}
             /\ obj' = [obj EXCEPT ![t] = FALSE]

\* A flush is over: the ids it wrote are no longer marked.
Clear(S) == /\ dirty' = dirty \ S
            /\ UNCHANGED <<mem, obj>>

Next == \/ \E S \in SUBSET Tokens : Mutate(S) \/ Clear(S)
        \/ \E t \in Tokens : Remove(t) \/ Add(t)

Spec == Init /\ [][Next]_vars
=============================================================================
