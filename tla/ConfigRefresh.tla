---------------------------- MODULE ConfigRefresh ----------------------------
(* The live configuration and its two kinds of writers: PUTs of the admin    *)
(* console (snapshot, edit, upsert the rows, store the snapshot) and the     *)
(* Cloudflare refresh (ask a solver, update the live configuration, upsert   *)
(* the rows), and a crash or restart that loads file and rows.               *)
EXTENDS Config, Integers, FiniteSets

CONSTANTS
    Sessions,     \* requests of the console in flight at once
    Puts,       \* what they may ask
    MaxPuts,    \* bound: PUTs in a behaviour
    Files,      \* decoded configuration files
    Solves      \* cookies and user agents the solvers may answer

ASSUME ConfigAssumption ==
    /\ \A f \in Files : DOMAIN f = Fields
    /\ \A p \in Puts : DOMAIN p \subseteq Keys

VARIABLES
    file,   \* the file of this deployment
    rows,   \* config_entries
    current,    \* Runtime.current
    adm,    \* the requests of the console
    cf,     \* the refresh
    crossed,   \* history: fields changed across an older copy of the whole
    mixed,  \* history: a source named one of browser and user agent, or an empty agent
    puts    \* history: PUTs so far

configStore == <<file, rows, current>>
configHistory == <<crossed, mixed, puts>>
configVars == <<configStore, adm, cf, configHistory>>

NoPut == [pc |-> "idle", put |-> << >>, cfg |-> << >>, late |-> {}]
Waiting == [pc |-> "waiting", kvs |-> << >>, cfg |-> << >>, late |-> {}]

ConfigInit ==
    /\ file \in Files
    /\ rows = << >>
    /\ current = LoadedConfig(file, rows)
    /\ adm = [a \in Sessions |-> NoPut]
    /\ cf = Waiting
    /\ crossed = {} /\ mixed = FALSE /\ puts = 0

Active(a) == adm[a].pc # "idle"
Changed(f, g) == {x \in DOMAIN f \cup DOMAIN g :
                      IF x \in DOMAIN f \cap DOMAIN g THEN f[x] # g[x] ELSE TRUE}

(* The other requests learn (in the history) what a step changed. *)
Late(bs, fs) == [b \in Sessions |-> IF b \in bs /\ Active(b)
                                  THEN [adm[b] EXCEPT !.late = @ \cup fs] ELSE adm[b]]
LateRefresh(fs) == IF cf.pc = "saving" THEN [cf EXCEPT !.late = @ \cup fs] ELSE cf

---------------------------------------------------------------------------
(* PUT /admin/config *)
PutRead(a, put) ==
    /\ ~Active(a) /\ puts < MaxPuts
    /\ adm' = [adm EXCEPT ![a] = [pc |-> "editing", put |-> put, cfg |-> current, late |-> {}]]
    /\ puts' = puts + 1
    /\ UNCHANGED <<configStore, cf, crossed, mixed>>

(* 400, or 500 from a transaction that was rolled back: nothing is stored. *)
PutFails(a) ==
    /\ adm[a].pc = "editing"
    /\ adm' = [adm EXCEPT ![a] = NoPut]
    /\ UNCHANGED <<configStore, cf, configHistory>>

Names(put, f) == f \in DOMAIN Paired(put)
NamesOne(put) ==
    \/ Names(put, "browser") # Names(put, "user_agent")
    \/ Names(put, "user_agent") /\ Paired(put)["user_agent"] = ""

PutSave(a) ==
    LET put == adm[a].put
        new == Upserted(rows, DbUpdates(put))
    IN  /\ adm[a].pc = "editing" /\ Accepted(put)
        /\ rows' = new
        /\ adm' = [Late(Sessions \ {a}, Changed(rows, new)) EXCEPT ![a].pc = "stored"]
        /\ cf' = LateRefresh(Changed(rows, new))
        /\ mixed' = (mixed \/ NamesOne(put))
        /\ UNCHANGED <<file, current, crossed, puts>>

(* Runtime.Store of the whole snapshot, whatever happened since it was taken. *)
PutStore(a) ==
    LET put == adm[a].put
        new == Edited(adm[a].cfg, put)
    IN  /\ adm[a].pc = "stored"
        /\ current' = new
        /\ adm' = [Late(Sessions \ {a}, Changed(current, new)) EXCEPT ![a] = NoPut]
        /\ cf' = LateRefresh(Changed(current, new))
        /\ crossed' = (crossed \ DOMAIN DbUpdates(put)) \cup adm[a].late
        /\ UNCHANGED <<file, rows, mixed, puts>>

---------------------------------------------------------------------------
(* The refresh; when the loop attempts one is the matter of CFRefresh. *)
Enabled == current["enabled"] = "true" /\ current["flaresolverr_urls"] # {}

RefreshStarts ==
    /\ cf.pc = "waiting" /\ Enabled
    /\ cf' = [cf EXCEPT !.pc = "solving"]
    /\ UNCHANGED <<configStore, adm, configHistory>>

SolveFails ==
    /\ cf.pc = "solving"
    /\ cf' = Waiting
    /\ UNCHANGED <<configStore, adm, configHistory>>

(* extractBrowserProfile: a fallback when the answer names no Chrome. *)
BrowserProfile(ua) == IF ua = "" THEN "chrome120" ELSE "chrome9"
Answer(s) ==
    IF s.ua = "" THEN [cf_cookies |-> s.cookies, browser |-> BrowserProfile(s.ua)]
    ELSE [cf_cookies |-> s.cookies, browser |-> BrowserProfile(s.ua), user_agent |-> s.ua]

(* Runtime.Update: a clone of the live configuration is changed ...          *)
SolveReads(s) ==
    /\ cf.pc = "solving"
    /\ cf' = [cf EXCEPT !.pc = "updating", !.kvs = Answer(s), !.cfg = current]
    /\ UNCHANGED <<configStore, adm, configHistory>>

(* ... and stored; Update's mutex does not keep out the Store of a PUT, whose *)
(* changes since the clone are lost.                                         *)
SolveStores ==
    LET new == Overlay(cf.kvs, cf.cfg)
    IN  /\ cf.pc = "updating"
        /\ current' = new
        /\ cf' = [cf EXCEPT !.pc = "saving", !.cfg = << >>]
        /\ adm' = Late(Sessions, Changed(current, new))
        /\ crossed' = crossed \cup (Changed(current, new) \ DOMAIN cf.kvs)
        /\ mixed' = (mixed \/ "user_agent" \notin DOMAIN cf.kvs)
        /\ UNCHANGED <<file, rows, puts>>

RefreshSaves ==
    LET new == Upserted(rows, cf.kvs)
    IN  /\ cf.pc = "saving"
        /\ rows' = new
        /\ cf' = Waiting
        /\ adm' = Late(Sessions, Changed(rows, new))
        /\ crossed' = (crossed \ DOMAIN cf.kvs) \cup (cf.late \cap DOMAIN cf.kvs)
        /\ UNCHANGED <<file, current, mixed, puts>>

(* The rows could not be written: only logged. *)
RefreshSaveFails ==
    /\ cf.pc = "saving"
    /\ cf' = Waiting
    /\ crossed' = crossed \cup DOMAIN cf.kvs
    /\ UNCHANGED <<configStore, adm, mixed, puts>>

(* A crash, or the restart after a stop; "unread" when the rows cannot be    *)
(* loaded, which a start only logs.                                          *)
ConfigRestart(unread) ==
    /\ current' = IF unread THEN LoadFile(file) ELSE LoadedConfig(file, rows)
    /\ crossed' = IF unread THEN DOMAIN rows \cup {"flaresolverr_urls"} ELSE {}
    /\ adm' = [a \in Sessions |-> NoPut]
    /\ cf' = Waiting
    /\ UNCHANGED <<file, rows, mixed, puts>>

ConfigNext ==
    \/ \E a \in Sessions :
           \/ \E put \in Puts : PutRead(a, put)
           \/ PutFails(a) \/ PutSave(a) \/ PutStore(a)
    \/ RefreshStarts \/ SolveFails \/ SolveStores
    \/ \E s \in Solves : SolveReads(s)
    \/ RefreshSaves \/ RefreshSaveFails
    \/ \E unread \in BOOLEAN : ConfigRestart(unread)

ConfigSpec == ConfigInit /\ [][ConfigNext]_configVars

---------------------------------------------------------------------------
ConfigTypeOK ==
    /\ DOMAIN current = Fields /\ DOMAIN rows \subseteq Keys
    /\ \A a \in Sessions : adm[a].pc \in {"idle", "editing", "stored"}
    /\ cf.pc \in {"waiting", "solving", "updating", "saving"}
    /\ crossed \subseteq Fields

(* What a start may not restore although it was stored as the code stores    *)
(* it: an empty value that is skipped, a user agent once it was stored alone *)
(* (its row sleeps until a browser is stored, with or without another user   *)
(* agent) or while the stored browser is empty, and the list of URLs, which  *)
(* a start takes from the single one.                                        *)
Lossy(f) ==
    \/ f \in SkippedWhenEmpty /\ current[f] = ""
    \/ f = "user_agent" /\ (mixed \/ ("browser" \in DOMAIN rows /\ rows["browser"] = ""))
    \/ f = "flaresolverr_urls"

(* When no writer is between its two stores, the live configuration is what  *)
(* a start would load, except for fields that one writer changed while       *)
(* another held an older copy of the whole (a PUT's snapshot, a refresh's    *)
(* clone) and stored it after, that a refresh could not save, or that are    *)
(* lossy.                                                                    *)
ConfigAgreement ==
    (cf.pc # "saving" /\ \A a \in Sessions : adm[a].pc # "stored") =>
        \A f \in Fields \ crossed :
            Lossy(f) \/ current[f] = LoadedConfig(file, rows)[f]

Pair(b, u) == \/ b \in DOMAIN BrowserUAMap /\ u = BrowserUAMap[b]
              \/ \E s \in Solves : b = BrowserProfile(s.ua) /\ u = s.ua
              \/ \E p \in Puts : /\ {"browser", "user_agent"} \subseteq DOMAIN p
                               /\ b = p["browser"] /\ u = p["user_agent"]
              \/ b = file["browser"] /\ u = file["user_agent"]

(* "Browser and UA must always be used as a pair" (config/defaults.go): live *)
(* and after a start, however PUTs and refreshes interleave, unless a source *)
(* named one of the two alone or an empty user agent; without a stored       *)
(* browser a start uses the pair of the file.                                *)
AlwaysPaired ==
    LET l == LoadedConfig(file, rows)
    IN  /\ mixed \/ Pair(current["browser"], current["user_agent"])
        /\ (mixed /\ "browser" \in DOMAIN rows) \/ Pair(l["browser"], l["user_agent"])
=============================================================================
