------------------------------- MODULE Config -------------------------------
(* The configuration as the admin console edits it, the rows it is stored in *)
(* and what a start makes of the file and the rows: internal/config and the  *)
(* field lists of httpapi/admin_config_update.go.  A field stands for all    *)
(* fields the code treats alike; "temporary" for every flag, number and text *)
(* that is stored as it is.  Values are names; "" is the empty text or list. *)
EXTENDS Functions

(* The fields of a PUT, and the one only the file and a start set. *)
Keys == {"app_key", "temporary", "basic_models", "selection_algorithm", "enabled",
         "browser", "user_agent", "cf_cookies", "flaresolverr_url"}
Fields == Keys \cup {"flaresolverr_urls"}

(* Secrets the console shows masked. *)
Masked == "***"
Secrets == {"app_key", "cf_cookies"}

(* Browsers with a known user agent. *)
BrowserUAMap == [b \in {"chrome_1", "chrome_2"} |-> IF b = "chrome_1" THEN "ua_1" ELSE "ua_2"]
ValidAlgorithm == {"random", "round_robin"}

---------------------------------------------------------------------------
(* The fields of f, and those of g it does not set. *)
Overlay(f, g) == [x \in DOMAIN f \cup DOMAIN g |-> IF x \in DOMAIN f THEN f[x] ELSE g[x]]

(* A PUT is a function on the fields the request names. *)
Unmasked(put) ==
    Restrict(put, {f \in DOMAIN put : ~(f \in Secrets /\ put[f] = Masked)})

(* A browser without a user agent brings its own. *)
Paired(put) ==
    IF /\ "browser" \in DOMAIN put
       /\ "user_agent" \notin DOMAIN put
       /\ put["browser"] \in DOMAIN BrowserUAMap
    THEN Overlay(put, [user_agent |-> BrowserUAMap[put["browser"]]])
    ELSE put

Accepted(put) ==
    /\ "app_key" \in DOMAIN put => put["app_key"] # ""
    /\ "selection_algorithm" \in DOMAIN put =>
           put["selection_algorithm"] \in ValidAlgorithm

(* Mutant of Edited: the live user agent stays when a browser is set.        *)
EditedUnpaired(cfg, put) == Overlay(Unmasked(put), cfg)

(* The snapshot with the fields of the PUT set. *)
Edited(cfg, put) == Overlay(Paired(Unmasked(put)), cfg)

(* Mutant of DbUpdates: a masked secret is stored. *)
DbUpdatesMasked(put) == Paired(put)

(* The rows the PUT upserts. *)
DbUpdates(put) == Paired(Unmasked(put))
Upserted(rows, kvs) == Overlay(kvs, rows)

---------------------------------------------------------------------------
(* Load: an old file's single URL becomes the list. *)
LoadFile(file) ==
    IF file["flaresolverr_urls"] = {} /\ file["flaresolverr_url"] # ""
    THEN [file EXCEPT !["flaresolverr_urls"] = {file["flaresolverr_url"]}]
    ELSE file

(* ApplyDBOverrides: a user agent counts only beside a browser, *)
PairedRows(rows) ==
    IF "browser" \in DOMAIN rows /\ rows["browser"] # ""
    THEN rows
    ELSE Restrict(rows, DOMAIN rows \ {"user_agent"})

(* and some empty rows are skipped where the others are taken. *)
SkippedWhenEmpty == {"basic_models", "selection_algorithm", "browser", "user_agent"}
Overrides(rows) ==
    LET kept == {f \in DOMAIN PairedRows(rows) : ~(f \in SkippedWhenEmpty /\ rows[f] = "")}
    IN  Restrict(rows, kept)

ApplyDBOverrides(cfg, rows) ==
    LET new == Overlay(Overrides(rows), cfg)
    IN  IF /\ cfg["flaresolverr_urls"] = {}
           /\ "flaresolverr_url" \in DOMAIN rows
           /\ rows["flaresolverr_url"] # ""
        THEN [new EXCEPT !["flaresolverr_urls"] = {rows["flaresolverr_url"]}]
        ELSE new

LoadedConfig(file, rows) == ApplyDBOverrides(LoadFile(file), rows)
=============================================================================
