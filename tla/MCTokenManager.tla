--------------------------- MODULE MCTokenManager ---------------------------
(***************************************************************************)
(* Values for the constants of TokenManager.                               *)
(***************************************************************************)
EXTENDS TokenManager, TLC

CONSTANTS t1, t2, r1, r2, f1, chat, image

Q(n, m) == (chat :> n) @@ (image :> m)

Row(status, quota, baseline, cool) ==
  [status |-> status, quota |-> quota, baseline |-> baseline,
   cool |-> cool, fails |-> 0, obj |-> FALSE]

\* Rows an import, a replacement or an edit leaves behind: a fresh token, one
\* whose baseline was never written, and one an admin emptied below zero and set
\* to "cooling" with the deadline of an earlier cooling.
MCRows == {Row("active", Q(1, 1), Q(1, 1), "none"),
           Row("active", Q(1, 0), Q(0, 0), "none"),
           Row("cooling", Q(-1, 0), Q(1, 1), "running")}

\* Only tokens that have quota in every category.
FreshRows == {Row("active", Q(1, 1), Q(1, 1), "none")}

\* An answer that is no count of queries, and one above every baseline.
MCRemainings == {-1, 2}

\* An image default that is not configured, so that SyncQuota keeps the quota.
MCDefaultQuota == Q(1, 0)
MCFallbackQuota == Q(2, 1)
=============================================================================
