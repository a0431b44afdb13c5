--------------------------- MODULE MCStoredState ---------------------------
(* The two kinds of state that live both in memory and in tables, in one     *)
(* run: the tokens and the configuration.  They share no variable, so that   *)
(* interleaving them adds nothing: a behaviour is one of either.             *)
EXTENDS MCTokenPersistence, ConfigRefresh

MCSessions == {a1, a2}

(* PUTs of each kind: a masked secret and a pair of its own, a browser alone *)
(* and an empty list; a user agent alone, a refused algorithm, an empty      *)
(* browser with a user agent.  The second request asks one of the first two, *)
(* the first one of the others; they end in any order.                       *)
MCSecondPuts == {
    ("cf_cookies" :> "c_put") @@ ("app_key" :> Masked) @@ ("selection_algorithm" :> "round_robin")
        @@ ("browser" :> "chrome_own") @@ ("user_agent" :> "ua_own"),
    ("browser" :> "chrome_2") @@ ("basic_models" :> "") @@ ("temporary" :> "false")}
MCPuts == MCSecondPuts \cup {
    ("user_agent" :> "ua_lone") @@ ("flaresolverr_url" :> "u_put") @@ ("enabled" :> "true"),
    ("app_key" :> "k_put") @@ ("selection_algorithm" :> "none"),
    ("browser" :> "") @@ ("user_agent" :> "ua_own")}

MCFile(flag, url, urls) ==
    ("app_key" :> "k_file") @@ ("temporary" :> "true") @@ ("basic_models" :> "m_file")
    @@ ("selection_algorithm" :> "random") @@ ("enabled" :> flag)
    @@ ("browser" :> "chrome_1") @@ ("user_agent" :> "ua_1") @@ ("cf_cookies" :> "")
    @@ ("flaresolverr_url" :> url) @@ ("flaresolverr_urls" :> urls)

(* An old file with the single URL, and one that leaves the refresh off.     *)
MCFiles == {MCFile("true", "u_file", {}), MCFile("false", "", {})}

MCSolves == {[cookies |-> "c_1", ua |-> ua] : ua \in {"ua_9", ""}}

VARIABLE focus

allVars == <<pvars, configVars, focus>>

MCInit ==
    /\ PInit /\ ConfigInit
    /\ focus \in {"tokens", "config"}
    /\ focus = "tokens" => file = MCFile("false", "", {})
    /\ focus = "config" => \A t \in Tokens : ~InMemory(t)

InTokens(A) == focus = "tokens" /\ A /\ UNCHANGED <<configVars, focus>>

(* The requests of the console are alike: a1 makes the first, a2 the second. *)
InConfig(A) ==
    /\ focus = "config" /\ A /\ UNCHANGED <<pvars, focus>>
    /\ puts' # puts =>
           IF puts = 0 THEN Active(a1)' /\ adm'[a1].put \notin MCSecondPuts
           ELSE Active(a2)' /\ adm'[a2].put \in MCSecondPuts

MCNext == InTokens(PNext) \/ InConfig(ConfigNext)

(* The fairness of TokenPersistence. *)
MCFairness ==
    /\ WF_allVars(InTokens(GetDirtyTokens)) /\ SF_allVars(InTokens(FlushCommit))
    /\ WF_allVars(InTokens(ClearDirty))

MCSpec == MCInit /\ [][MCNext]_allVars /\ MCFairness
=============================================================================
