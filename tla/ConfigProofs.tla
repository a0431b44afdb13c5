---------------------------- MODULE ConfigProofs ----------------------------
(***************************************************************************)
(* That browser and user agent stay a pair, for any files, any requests of *)
(* the console and any answers of the solvers.  A pair is made in three    *)
(* places (the file, a PUT, a refresh) and taken apart in none: a snapshot *)
(* and the live configuration hold a pair of one of them, and the rows     *)
(* have either no browser or a browser and the user agent it came with.    *)
(* And that what is live is what a start would load: each request and the  *)
(* refresh know, by the fields they were told to be late for, which of the *)
(* values they read or stored are still there when they store them again.  *)
(***************************************************************************)
EXTENDS ConfigRefresh, TLAPS

\* A pair of a PUT or of a refresh.
NewPair(b, u) ==
    \/ b \in DOMAIN BrowserUAMap /\ u = BrowserUAMap[b]
    \/ \E s \in Solves : b = BrowserProfile(s.ua) /\ u = s.ua
    \/ \E p \in Puts : /\ {"browser", "user_agent"} \subseteq DOMAIN p
                       /\ b = p["browser"] /\ u = p["user_agent"]
FilePair(f, b, u) == b = f["browser"] /\ u = f["user_agent"]

PairIn(f, cfg) ==
    \/ NewPair(cfg["browser"], cfg["user_agent"])
    \/ FilePair(f, cfg["browser"], cfg["user_agent"])

\* What an update sets: neither of the two, or both as a pair.
Stores(kvs) ==
    \/ "browser" \notin DOMAIN kvs /\ "user_agent" \notin DOMAIN kvs
    \/ /\ "browser" \in DOMAIN kvs /\ "user_agent" \in DOMAIN kvs
       /\ kvs["user_agent"] # "" /\ NewPair(kvs["browser"], kvs["user_agent"])

RowsPaired(r) ==
    "browser" \in DOMAIN r => /\ "user_agent" \in DOMAIN r /\ r["user_agent"] # ""
                              /\ NewPair(r["browser"], r["user_agent"])

\* A request: its snapshot has a pair, and what it stored keeps the rows paired.
EntryOK(e, f, m) ==
    /\ e = [pc |-> e.pc, put |-> e.put, cfg |-> e.cfg, late |-> e.late]
    /\ e.pc \in {"idle", "editing", "stored"} /\ e.late \subseteq Fields
    /\ e.pc # "idle" => e.put \in Puts /\ DOMAIN e.cfg = Fields /\ (m \/ PairIn(f, e.cfg))
    /\ e.pc = "stored" => m \/ Stores(DbUpdates(e.put))

\* The refresh: its clone has a pair, and what it stored keeps the rows paired.
RefreshOK(c, f, m) ==
    /\ c = [pc |-> c.pc, kvs |-> c.kvs, cfg |-> c.cfg, late |-> c.late]
    /\ c.pc \in {"waiting", "solving", "updating", "saving"} /\ c.late \subseteq Fields
    /\ c.pc = "updating" =>
         /\ DOMAIN c.kvs \subseteq Keys /\ ("user_agent" \in DOMAIN c.kvs => Stores(c.kvs))
         /\ DOMAIN c.cfg = Fields /\ (m \/ PairIn(f, c.cfg))
    /\ c.pc = "saving" => DOMAIN c.kvs \subseteq Keys /\ (m \/ Stores(c.kvs))

PairInv ==
    /\ file \in Files /\ mixed \in BOOLEAN /\ crossed \subseteq Fields
    /\ DOMAIN current = Fields /\ DOMAIN rows \subseteq Keys
    /\ mixed \/ (PairIn(file, current) /\ RowsPaired(rows))
    /\ DOMAIN adm = Sessions /\ \A a \in Sessions : EntryOK(adm[a], file, mixed)
    /\ RefreshOK(cf, file, mixed)

\* A request knows what happened to its snapshot and to the rows it stored.
EntryFollows(e, c, r) ==
    /\ e.pc # "idle" => \A f \in Fields \ e.late : e.cfg[f] = c[f]
    /\ e.pc = "stored" => \A f \in DOMAIN DbUpdates(e.put) \ e.late :
                             f \in DOMAIN r /\ r[f] = DbUpdates(e.put)[f]

RefreshFollows(s, c) == s.pc = "saving" => \A f \in DOMAIN s.kvs \ s.late : c[f] = s.kvs[f]

\* A writer has stored f in one of its two places and will store it in the other.
Pending(f) ==
    \/ cf.pc = "saving" /\ f \in DOMAIN cf.kvs
    \/ \E a \in Sessions : adm[a].pc = "stored" /\ f \in DOMAIN DbUpdates(adm[a].put)

AgreeInv ==
    /\ \A a \in Sessions : EntryFollows(adm[a], current, rows)
    /\ RefreshFollows(cf, current)
    /\ mixed \/ ("user_agent" \in DOMAIN rows => "browser" \in DOMAIN rows)
    /\ \A f \in Fields \ crossed :
         Lossy(f) \/ current[f] = LoadedConfig(file, rows)[f] \/ Pending(f)

-----------------------------------------------------------------------------
(* The operators of Config. *)

LEMMA OverlayOf ==
  ASSUME NEW f, NEW g
  PROVE  /\ DOMAIN Overlay(f, g) = DOMAIN f \cup DOMAIN g
         /\ \A x \in DOMAIN f : Overlay(f, g)[x] = f[x]
         /\ \A x \in DOMAIN g \ DOMAIN f : Overlay(f, g)[x] = g[x]
BY DEF Overlay

\* An update that stores a pair or none leaves a pair.
LEMMA OverlayPairs ==
  ASSUME NEW f, NEW kvs, NEW cfg, DOMAIN kvs \subseteq Keys, DOMAIN cfg = Fields
  PROVE  /\ DOMAIN Overlay(kvs, cfg) = Fields
         /\ Stores(kvs) /\ PairIn(f, cfg) => PairIn(f, Overlay(kvs, cfg))
<1>1. "browser" \in Fields /\ "user_agent" \in Fields /\ Keys \subseteq Fields
  BY DEF Fields, Keys
<1>0. /\ DOMAIN Overlay(kvs, cfg) = DOMAIN kvs \cup DOMAIN cfg
      /\ \A x \in DOMAIN kvs : Overlay(kvs, cfg)[x] = kvs[x]
      /\ \A x \in DOMAIN cfg \ DOMAIN kvs : Overlay(kvs, cfg)[x] = cfg[x]
  BY OverlayOf
<1>2. DOMAIN Overlay(kvs, cfg) = Fields
  BY <1>0, <1>1
<1>3. ASSUME Stores(kvs), PairIn(f, cfg) PROVE PairIn(f, Overlay(kvs, cfg))
  <2>1. CASE "browser" \notin DOMAIN kvs
    <3>1. /\ Overlay(kvs, cfg)["browser"] = cfg["browser"]
          /\ Overlay(kvs, cfg)["user_agent"] = cfg["user_agent"]
      BY <1>0, <1>1, <1>3, <2>1 DEF Stores
    <3> QED
      BY <1>3, <3>1 DEF PairIn
  <2>2. CASE "browser" \in DOMAIN kvs
    <3>1. /\ Overlay(kvs, cfg)["browser"] = kvs["browser"]
          /\ Overlay(kvs, cfg)["user_agent"] = kvs["user_agent"]
      BY <1>0, <1>3, <2>2 DEF Stores
    <3> QED
      BY <1>3, <2>2, <3>1 DEF Stores, PairIn
  <2> QED
    BY <2>1, <2>2
<1> QED
  BY <1>2, <1>3

LEMMA OverlayRows ==
  ASSUME NEW kvs, NEW r, Stores(kvs), RowsPaired(r)
  PROVE  RowsPaired(Overlay(kvs, r))
<1>0. /\ DOMAIN Overlay(kvs, r) = DOMAIN kvs \cup DOMAIN r
      /\ \A x \in DOMAIN kvs : Overlay(kvs, r)[x] = kvs[x]
      /\ \A x \in DOMAIN r \ DOMAIN kvs : Overlay(kvs, r)[x] = r[x]
  BY OverlayOf
<1>1. CASE "browser" \in DOMAIN kvs
  <2>1. /\ "user_agent" \in DOMAIN kvs
        /\ DOMAIN Overlay(kvs, r) = DOMAIN kvs \cup DOMAIN r
        /\ Overlay(kvs, r)["browser"] = kvs["browser"]
        /\ Overlay(kvs, r)["user_agent"] = kvs["user_agent"]
    BY <1>0, <1>1 DEF Stores
  <2> QED
    BY <1>1, <2>1 DEF Stores, RowsPaired
<1>2. CASE "browser" \notin DOMAIN kvs
  <2>1. ASSUME "browser" \in DOMAIN r
        PROVE  /\ "user_agent" \in DOMAIN Overlay(kvs, r)
               /\ Overlay(kvs, r)["browser"] = r["browser"]
               /\ Overlay(kvs, r)["user_agent"] = r["user_agent"]
    BY <1>0, <1>2, <2>1 DEF Stores, RowsPaired
  <2>2. "browser" \in DOMAIN Overlay(kvs, r) => "browser" \in DOMAIN r
    BY <1>0, <1>2
  <2> QED
    BY <2>1, <2>2 DEF RowsPaired
<1> QED
  BY <1>1, <1>2

\* A PUT that does not name one of the two alone stores a pair or neither.
LEMMA PutStores ==
  ASSUME NEW put \in Puts
  PROVE  /\ DOMAIN DbUpdates(put) \subseteq Keys
         /\ ~NamesOne(put) => Stores(DbUpdates(put))
<1> DEFINE u == Unmasked(put)
<1>1. /\ DOMAIN u \subseteq DOMAIN put /\ DOMAIN put \subseteq Keys
      /\ \A f \in {"browser", "user_agent"} : f \in DOMAIN u <=> f \in DOMAIN put
      /\ \A f \in DOMAIN u : u[f] = put[f]
  BY ConfigAssumption DEF Unmasked, Restrict, Secrets
<1> HIDE DEF u
<1>2. DbUpdates(put) = Paired(u)
  BY DEF DbUpdates, u
<1>3. \A b \in DOMAIN BrowserUAMap : BrowserUAMap[b] # ""
  BY DEF BrowserUAMap
<1>4. CASE /\ "browser" \in DOMAIN put /\ "user_agent" \notin DOMAIN put
           /\ put["browser"] \in DOMAIN BrowserUAMap
  <2> DEFINE own == [user_agent |-> BrowserUAMap[put["browser"]]]
  <2>1. Paired(u) = Overlay(u, own)
    BY <1>1, <1>4 DEF Paired
  <2>2. DOMAIN own = {"user_agent"} /\ own["user_agent"] = BrowserUAMap[put["browser"]]
    OBVIOUS
  <2> HIDE DEF own
  <2>4. /\ DOMAIN Overlay(u, own) = DOMAIN u \cup DOMAIN own
        /\ \A x \in DOMAIN u : Overlay(u, own)[x] = u[x]
        /\ \A x \in DOMAIN own \ DOMAIN u : Overlay(u, own)[x] = own[x]
    BY OverlayOf
  <2>3. /\ DOMAIN Paired(u) = DOMAIN u \cup {"user_agent"}
        /\ Paired(u)["user_agent"] = BrowserUAMap[put["browser"]]
        /\ Paired(u)["browser"] = put["browser"]
    BY <1>1, <1>4, <2>1, <2>2, <2>4
  <2>5. Stores(Paired(u))
    <3>1. NewPair(put["browser"], BrowserUAMap[put["browser"]])
      BY <1>4 DEF NewPair
    <3> QED
      BY <1>1, <1>3, <1>4, <2>3, <3>1 DEF Stores
  <2> QED
    BY <1>1, <1>2, <2>3, <2>5 DEF Keys
<1>5. CASE ~(/\ "browser" \in DOMAIN put /\ "user_agent" \notin DOMAIN put
             /\ put["browser"] \in DOMAIN BrowserUAMap)
  <2>1. Paired(u) = u /\ Paired(put) = put
    BY <1>1, <1>5 DEF Paired
  <2>2. ASSUME ~NamesOne(put) PROVE Stores(u)
    BY <1>1, <2>1, <2>2 DEF NamesOne, Names, Stores, NewPair
  <2> QED
    BY <1>1, <1>2, <2>1, <2>2
<1> QED
  BY <1>4, <1>5

LEMMA AnswerStores ==
  ASSUME NEW s \in Solves
  PROVE  DOMAIN Answer(s) \subseteq Keys /\ ("user_agent" \in DOMAIN Answer(s) => Stores(Answer(s)))
<1>1. CASE s.ua = ""
  BY <1>1 DEF Answer, Keys
<1>2. CASE s.ua # ""
  <2>1. /\ DOMAIN Answer(s) = {"cf_cookies", "browser", "user_agent"}
        /\ Answer(s)["browser"] = BrowserProfile(s.ua) /\ Answer(s)["user_agent"] = s.ua
    BY <1>2 DEF Answer
  <2> QED
    BY <1>2, <2>1 DEF Stores, NewPair, Keys
<1> QED
  BY <1>1, <1>2

\* What a start loads is the pair of the rows or that of the file.
LEMMA LoadPairs ==
  ASSUME NEW f \in Files, NEW r, DOMAIN r \subseteq Keys
  PROVE  /\ DOMAIN LoadFile(f) = Fields /\ PairIn(f, LoadFile(f))
         /\ DOMAIN LoadedConfig(f, r) = Fields
         /\ RowsPaired(r) => PairIn(f, LoadedConfig(f, r))
<1>0. DOMAIN f = Fields /\ "browser" \in Fields /\ "user_agent" \in Fields /\ Keys \subseteq Fields
      /\ "flaresolverr_urls" \notin {"browser", "user_agent"}
  BY ConfigAssumption DEF Fields, Keys
<1> DEFINE g == LoadFile(f)
           o == Overrides(r)
           n == Overlay(o, g)
<1>1. DOMAIN g = Fields /\ g["browser"] = f["browser"] /\ g["user_agent"] = f["user_agent"]
  BY <1>0 DEF LoadFile
<1>2. DOMAIN o \subseteq DOMAIN r /\ \A x \in DOMAIN o : o[x] = r[x]
  BY DEF Overrides, PairedRows, Restrict
<1>3. "browser" \in DOMAIN o <=> "browser" \in DOMAIN r /\ r["browser"] # ""
  BY DEF Overrides, PairedRows, Restrict, SkippedWhenEmpty
<1>4. "user_agent" \in DOMAIN o <=> /\ "browser" \in DOMAIN r /\ r["browser"] # ""
                                    /\ "user_agent" \in DOMAIN r /\ r["user_agent"] # ""
  BY DEF Overrides, PairedRows, Restrict, SkippedWhenEmpty
<1> HIDE DEF g, o, n
<1>8. /\ DOMAIN n = DOMAIN o \cup DOMAIN g
      /\ \A x \in DOMAIN o : n[x] = o[x]
      /\ \A x \in DOMAIN g \ DOMAIN o : n[x] = g[x]
  BY OverlayOf DEF n
<1>5. DOMAIN n = Fields
  BY <1>0, <1>1, <1>2, <1>8
<1>6. /\ DOMAIN LoadedConfig(f, r) = Fields
      /\ LoadedConfig(f, r)["browser"] = n["browser"]
      /\ LoadedConfig(f, r)["user_agent"] = n["user_agent"]
  BY <1>0, <1>5 DEF LoadedConfig, ApplyDBOverrides, n, g, o
<1>7. ASSUME RowsPaired(r) PROVE PairIn(f, n)
  <2>1. CASE "browser" \in DOMAIN o
    <3>1. "user_agent" \in DOMAIN o
      BY <1>3, <1>4, <1>7, <2>1 DEF RowsPaired
    <3>2. n["browser"] = r["browser"] /\ n["user_agent"] = r["user_agent"]
      BY <1>2, <1>8, <2>1, <3>1
    <3> QED
      BY <1>3, <1>7, <2>1, <3>2 DEF RowsPaired, PairIn
  <2>2. CASE "browser" \notin DOMAIN o
    <3>1. "user_agent" \notin DOMAIN o
      BY <1>3, <1>4, <2>2
    <3>2. n["browser"] = f["browser"] /\ n["user_agent"] = f["user_agent"]
      BY <1>0, <1>1, <1>8, <2>2, <3>1
    <3> QED
      BY <3>2 DEF PairIn, FilePair
  <2> QED
    BY <2>1, <2>2
<1> QED
  BY <1>1, <1>6, <1>7 DEF PairIn, FilePair, g

-----------------------------------------------------------------------------
(* The steps. *)

LEMMA WithLate ==
  ASSUME NEW e, NEW f, NEW m, NEW fs, EntryOK(e, f, m), fs \subseteq Fields
  PROVE  EntryOK([e EXCEPT !.late = @ \cup fs], f, m)
<1>1. PICK p, u, c, l : e = [pc |-> p, put |-> u, cfg |-> c, late |-> l]
  BY DEF EntryOK
<1>2. [e EXCEPT !.late = @ \cup fs] = [pc |-> p, put |-> u, cfg |-> c, late |-> l \cup fs]
  BY <1>1
<1> QED
  BY <1>1, <1>2 DEF EntryOK

\* Learning what changed disturbs neither the requests nor the refresh.
LEMMA LateKeeps ==
  ASSUME PairInv, NEW bs, NEW fs, fs \subseteq Fields
  PROVE  /\ DOMAIN Late(bs, fs) = Sessions
         /\ \A b \in Sessions : EntryOK(Late(bs, fs)[b], file, mixed)
         /\ RefreshOK(LateRefresh(fs), file, mixed)
<1>1. DOMAIN Late(bs, fs) = Sessions
  BY DEF Late
<1>2. ASSUME NEW b \in Sessions PROVE EntryOK(Late(bs, fs)[b], file, mixed)
  <2>1. EntryOK(adm[b], file, mixed)
    BY DEF PairInv
  <2>2. EntryOK([adm[b] EXCEPT !.late = @ \cup fs], file, mixed)
    BY <2>1, WithLate
  <2>3. Late(bs, fs)[b] \in {adm[b], [adm[b] EXCEPT !.late = @ \cup fs]}
    BY DEF Late
  <2> QED
    BY <2>1, <2>2, <2>3
<1>3. RefreshOK(LateRefresh(fs), file, mixed)
  <2>1. PICK p, k, w, l : cf = [pc |-> p, kvs |-> k, cfg |-> w, late |-> l]
    BY DEF PairInv, RefreshOK
  <2>2. [cf EXCEPT !.late = @ \cup fs] = [pc |-> p, kvs |-> k, cfg |-> w, late |-> l \cup fs]
    BY <2>1
  <2> QED
    BY <2>1, <2>2 DEF PairInv, RefreshOK, LateRefresh
<1> QED
  BY <1>1, <1>2, <1>3

\* Once a source named one of the two alone, nothing is promised any more.
LEMMA MixedIsWeaker ==
  ASSUME NEW e, NEW f, NEW c, NEW m \in BOOLEAN, NEW n \in BOOLEAN, m => n
  PROVE  (EntryOK(e, f, m) => EntryOK(e, f, n)) /\ (RefreshOK(c, f, m) => RefreshOK(c, f, n))
BY DEF EntryOK, RefreshOK

LEMMA FieldsChanged ==
  ASSUME NEW f, NEW g, DOMAIN f \subseteq Fields, DOMAIN g \subseteq Fields
  PROVE  Changed(f, g) \subseteq Fields
BY DEF Changed

LEMMA KeysAreFields == Keys \subseteq Fields
BY DEF Fields

LEMMA Resting ==
  ASSUME NEW f, NEW m
  PROVE  EntryOK(NoPut, f, m) /\ RefreshOK(Waiting, f, m)
BY DEF EntryOK, RefreshOK, NoPut, Waiting

LEMMA PairsAtStart == ASSUME ConfigInit PROVE PairInv
<1>1. file \in Files /\ rows = << >> /\ DOMAIN rows = {}
  BY DEF ConfigInit
<1>2. DOMAIN current = Fields /\ PairIn(file, current)
  BY <1>1, LoadPairs DEF ConfigInit, RowsPaired
<1>3. /\ DOMAIN adm = Sessions /\ \A a \in Sessions : EntryOK(adm[a], file, mixed)
      /\ RefreshOK(cf, file, mixed)
  BY Resting DEF ConfigInit
<1> QED
  BY <1>1, <1>2, <1>3 DEF ConfigInit, PairInv, RowsPaired

LEMMA PutReadKeeps ==
  ASSUME PairInv, NEW a \in Sessions, NEW put \in Puts, PutRead(a, put) PROVE PairInv'
<1>1. \A b \in Sessions : EntryOK(adm[b], file, mixed)
  BY DEF PairInv
<1>2. adm'[a] = [pc |-> "editing", put |-> put, cfg |-> current, late |-> {}]
  BY DEF PutRead, PairInv
<1>3. EntryOK(adm'[a], file, mixed)
  BY <1>2 DEF EntryOK, PairInv
<1>4. DOMAIN adm' = Sessions /\ \A b \in Sessions \ {a} : adm'[b] = adm[b]
  BY DEF PutRead, PairInv
<1> QED
  BY <1>1, <1>3, <1>4 DEF PutRead, PairInv, configStore

LEMMA PutFailsKeeps == ASSUME PairInv, NEW a \in Sessions, PutFails(a) PROVE PairInv'
<1>1. DOMAIN adm' = Sessions /\ adm'[a] = NoPut /\ \A b \in Sessions \ {a} : adm'[b] = adm[b]
  BY DEF PutFails, PairInv
<1> QED
  BY <1>1, Resting DEF PutFails, PairInv, configStore, configHistory

LEMMA PutSaveKeeps == ASSUME PairInv, NEW a \in Sessions, PutSave(a) PROVE PairInv'
<1> DEFINE put == adm[a].put
           new == Upserted(rows, DbUpdates(put))
           fs == Changed(rows, new)
<1>1. /\ EntryOK(adm[a], file, mixed) /\ put \in Puts /\ adm[a].pc = "editing"
  BY DEF PutSave, PairInv, EntryOK
<1>2. DOMAIN DbUpdates(put) \subseteq Keys /\ (~NamesOne(put) => Stores(DbUpdates(put)))
  BY <1>1, PutStores
<1>3. DOMAIN new \subseteq Keys
  <2>1. DOMAIN new = DOMAIN DbUpdates(put) \cup DOMAIN rows
    BY OverlayOf DEF Upserted
  <2> QED
    BY <1>2, <2>1 DEF PairInv
<1>4. Stores(DbUpdates(put)) /\ RowsPaired(rows) => RowsPaired(new)
  BY OverlayRows DEF Upserted
<1>5. fs \subseteq Fields
  BY <1>3, FieldsChanged, KeysAreFields DEF PairInv
<1>6. /\ DOMAIN Late(Sessions \ {a}, fs) = Sessions
      /\ \A b \in Sessions : EntryOK(Late(Sessions \ {a}, fs)[b], file, mixed)
      /\ RefreshOK(LateRefresh(fs), file, mixed)
  BY <1>5, LateKeeps
<1>7. /\ mixed' \in BOOLEAN /\ (mixed => mixed') /\ (mixed' \/ ~NamesOne(put))
      /\ rows' = new /\ file' = file /\ current' = current /\ crossed' = crossed
      /\ cf' = LateRefresh(fs)
      /\ adm' = [Late(Sessions \ {a}, fs) EXCEPT ![a].pc = "stored"]
  BY DEF PutSave, PairInv
<1>8. Late(Sessions \ {a}, fs)[a] = adm[a]
  BY DEF Late
<1> HIDE DEF new, fs
<1>9. /\ DOMAIN adm' = Sessions /\ adm'[a] = [adm[a] EXCEPT !.pc = "stored"]
      /\ \A b \in Sessions \ {a} : adm'[b] = Late(Sessions \ {a}, fs)[b]
  BY <1>6, <1>7, <1>8
<1>10. EntryOK(adm'[a], file, mixed')
  <2>1. PICK p, u, c, l : adm[a] = [pc |-> p, put |-> u, cfg |-> c, late |-> l]
    BY <1>1 DEF EntryOK
  <2>2. adm'[a] = [pc |-> "stored", put |-> u, cfg |-> c, late |-> l]
    BY <1>9, <2>1
  <2>3. mixed' \/ Stores(DbUpdates(u))
    BY <1>2, <1>7, <2>1
  <2>4. /\ adm'[a].pc = "stored" /\ adm'[a].put = u /\ adm'[a].cfg = c /\ adm'[a].late = l
        /\ l \subseteq Fields /\ u \in Puts /\ DOMAIN c = Fields /\ (mixed \/ PairIn(file, c))
    BY <1>1, <2>1, <2>2 DEF EntryOK
  <2> QED
    BY <1>7, <2>2, <2>3, <2>4 DEF EntryOK
<1>11. \A b \in Sessions \ {a} : EntryOK(adm'[b], file, mixed')
  <2>1. mixed \in BOOLEAN /\ mixed' \in BOOLEAN
    BY <1>7 DEF PairInv
  <2> QED
    BY <1>6, <1>7, <1>9, <2>1, MixedIsWeaker
<1>12. RefreshOK(cf', file, mixed')
  BY <1>6, <1>7, MixedIsWeaker DEF PairInv
<1>13. mixed' \/ (PairIn(file, current) /\ RowsPaired(new))
  BY <1>2, <1>4, <1>7 DEF PairInv
<1> QED
  BY <1>3, <1>7, <1>9, <1>10, <1>11, <1>12, <1>13 DEF PairInv

LEMMA PutStoreKeeps == ASSUME PairInv, NEW a \in Sessions, PutStore(a) PROVE PairInv'
<1> DEFINE put == adm[a].put
           new == Edited(adm[a].cfg, put)
           fs == Changed(current, new)
<1>1. /\ put \in Puts /\ DOMAIN adm[a].cfg = Fields /\ adm[a].late \subseteq Fields
      /\ mixed \/ (PairIn(file, adm[a].cfg) /\ Stores(DbUpdates(put)))
  BY DEF PutStore, PairInv, EntryOK
<1>2. DOMAIN DbUpdates(put) \subseteq Keys
  BY <1>1, PutStores
<1>3. new = Overlay(DbUpdates(put), adm[a].cfg)
  BY DEF Edited, DbUpdates
<1>4. DOMAIN new = Fields /\ (mixed \/ PairIn(file, new))
  BY <1>1, <1>2, <1>3, OverlayPairs
<1>5. fs \subseteq Fields
  BY <1>4, FieldsChanged DEF PairInv
<1>6. /\ DOMAIN Late(Sessions \ {a}, fs) = Sessions
      /\ \A b \in Sessions : EntryOK(Late(Sessions \ {a}, fs)[b], file, mixed)
      /\ RefreshOK(LateRefresh(fs), file, mixed)
  BY <1>5, LateKeeps
<1>7. /\ current' = new /\ cf' = LateRefresh(fs)
      /\ adm' = [Late(Sessions \ {a}, fs) EXCEPT ![a] = NoPut]
      /\ UNCHANGED <<file, rows, mixed>>
      /\ crossed' = (crossed \ DOMAIN DbUpdates(put)) \cup adm[a].late
  BY DEF PutStore
<1>8. crossed' \subseteq Fields
  BY <1>1, <1>7 DEF PairInv
<1> HIDE DEF new, fs
<1>9. /\ DOMAIN adm' = Sessions /\ adm'[a] = NoPut
      /\ \A b \in Sessions \ {a} : adm'[b] = Late(Sessions \ {a}, fs)[b]
  BY <1>6, <1>7
<1>10. \A b \in Sessions : EntryOK(adm'[b], file, mixed)
  BY <1>6, <1>9, Resting
<1> QED
  BY <1>4, <1>6, <1>7, <1>8, <1>9, <1>10 DEF PairInv

LEMMA RefreshKeeps ==
  ASSUME PairInv, RefreshStarts \/ SolveFails \/ RefreshSaveFails PROVE PairInv'
<1>1. CASE RefreshStarts
  <2>1. PICK p, k, w, l : cf = [pc |-> p, kvs |-> k, cfg |-> w, late |-> l]
    BY DEF PairInv, RefreshOK
  <2>2. cf' = [pc |-> "solving", kvs |-> k, cfg |-> w, late |-> l]
    BY <1>1, <2>1 DEF RefreshStarts
  <2>3. RefreshOK(cf', file, mixed)
    BY <2>1, <2>2 DEF PairInv, RefreshOK
  <2> QED
    BY <1>1, <2>3 DEF RefreshStarts, PairInv, configStore, configHistory
<1>2. CASE SolveFails
  BY <1>2, Resting DEF SolveFails, PairInv, configStore, configHistory
<1>3. CASE RefreshSaveFails
  <2>1. crossed' \subseteq Fields
    BY <1>3, KeysAreFields DEF RefreshSaveFails, PairInv, RefreshOK
  <2> QED
    BY <1>3, <2>1, Resting DEF RefreshSaveFails, PairInv, configStore
<1> QED
  BY <1>1, <1>2, <1>3

LEMMA SolveReadsKeeps == ASSUME PairInv, NEW s \in Solves, SolveReads(s) PROVE PairInv'
<1>1. DOMAIN Answer(s) \subseteq Keys /\ ("user_agent" \in DOMAIN Answer(s) => Stores(Answer(s)))
  BY AnswerStores
<1>2. RefreshOK(cf', file, mixed)
  <2>1. PICK p, k, w, l : cf = [pc |-> p, kvs |-> k, cfg |-> w, late |-> l]
    BY DEF PairInv, RefreshOK
  <2>2. cf' = [pc |-> "updating", kvs |-> Answer(s), cfg |-> current, late |-> l]
    BY <2>1 DEF SolveReads
  <2>3. l \subseteq Fields /\ DOMAIN current = Fields /\ (mixed \/ PairIn(file, current))
    BY <2>1 DEF PairInv, RefreshOK
  <2>4. cf'.pc = "updating" /\ cf'.kvs = Answer(s) /\ cf'.cfg = current /\ cf'.late = l
    BY <2>2
  <2>5. cf' = [pc |-> cf'.pc, kvs |-> cf'.kvs, cfg |-> cf'.cfg, late |-> cf'.late]
    BY <2>2, <2>4
  <2> QED
    BY <1>1, <2>3, <2>4, <2>5 DEF RefreshOK
<1> QED
  BY <1>2 DEF SolveReads, PairInv, configStore, configHistory

LEMMA SolveStoresKeeps == ASSUME PairInv, SolveStores PROVE PairInv'
<1> DEFINE new == Overlay(cf.kvs, cf.cfg)
           fs == Changed(current, new)
<1>1. /\ DOMAIN cf.kvs \subseteq Keys /\ ("user_agent" \in DOMAIN cf.kvs => Stores(cf.kvs))
      /\ DOMAIN cf.cfg = Fields /\ (mixed \/ PairIn(file, cf.cfg))
  BY DEF SolveStores, PairInv, RefreshOK
<1>2. DOMAIN new = Fields /\ (Stores(cf.kvs) /\ PairIn(file, cf.cfg) => PairIn(file, new))
  BY <1>1, OverlayPairs
<1>3. fs \subseteq Fields
  BY <1>2, FieldsChanged DEF PairInv
<1>4. /\ DOMAIN Late(Sessions, fs) = Sessions
      /\ \A b \in Sessions : EntryOK(Late(Sessions, fs)[b], file, mixed)
  BY <1>3, LateKeeps
<1>5. /\ current' = new /\ adm' = Late(Sessions, fs)
      /\ mixed' \in BOOLEAN /\ (mixed => mixed') /\ (mixed' \/ "user_agent" \in DOMAIN cf.kvs)
      /\ crossed' = crossed \cup (fs \ DOMAIN cf.kvs) /\ UNCHANGED <<file, rows>>
      /\ cf' = [cf EXCEPT !.pc = "saving", !.cfg = << >>]
  BY DEF SolveStores, PairInv
<1> HIDE DEF new, fs
<1>6. \A b \in Sessions : EntryOK(adm'[b], file, mixed')
  <2>1. mixed \in BOOLEAN /\ mixed' \in BOOLEAN
    BY <1>5 DEF PairInv
  <2> QED
    BY <1>4, <1>5, <2>1, MixedIsWeaker
<1>7. RefreshOK(cf', file, mixed')
  <2>1. PICK p, k, w, l : cf = [pc |-> p, kvs |-> k, cfg |-> w, late |-> l]
    BY DEF PairInv, RefreshOK
  <2>2. cf' = [pc |-> "saving", kvs |-> k, cfg |-> << >>, late |-> l] /\ k = cf.kvs
    BY <1>5, <2>1
  <2>3. l \subseteq Fields
    BY <2>1 DEF PairInv, RefreshOK
  <2>4. cf'.pc = "saving" /\ cf'.kvs = cf.kvs /\ cf'.cfg = << >> /\ cf'.late = l
    BY <2>2
  <2>5. cf' = [pc |-> cf'.pc, kvs |-> cf'.kvs, cfg |-> cf'.cfg, late |-> cf'.late]
    BY <2>2, <2>4
  <2>6. DOMAIN cf'.kvs \subseteq Keys /\ (mixed' \/ Stores(cf'.kvs))
    BY <1>1, <1>5, <2>4
  <2> QED
    BY <2>3, <2>4, <2>5, <2>6 DEF RefreshOK
<1>8. mixed' \/ (PairIn(file, new) /\ RowsPaired(rows))
  BY <1>1, <1>2, <1>5 DEF PairInv
<1>9. crossed' \subseteq Fields
  BY <1>3, <1>5 DEF PairInv
<1> QED
  BY <1>2, <1>4, <1>5, <1>6, <1>7, <1>8, <1>9 DEF PairInv

LEMMA RefreshSavesKeeps == ASSUME PairInv, RefreshSaves PROVE PairInv'
<1> DEFINE new == Upserted(rows, cf.kvs)
           fs == Changed(rows, new)
<1>1. DOMAIN cf.kvs \subseteq Keys /\ (mixed \/ Stores(cf.kvs)) /\ cf.late \subseteq Fields
  BY DEF RefreshSaves, PairInv, RefreshOK
<1>2. DOMAIN new \subseteq Keys
  <2>1. DOMAIN new = DOMAIN cf.kvs \cup DOMAIN rows
    BY OverlayOf DEF Upserted
  <2> QED
    BY <1>1, <2>1 DEF PairInv
<1>3. mixed \/ RowsPaired(new)
  BY <1>1, OverlayRows DEF Upserted, PairInv
<1>4. fs \subseteq Fields
  BY <1>2, FieldsChanged, KeysAreFields DEF PairInv
<1>5. /\ DOMAIN Late(Sessions, fs) = Sessions
      /\ \A b \in Sessions : EntryOK(Late(Sessions, fs)[b], file, mixed)
  BY <1>4, LateKeeps
<1>6. /\ rows' = new /\ adm' = Late(Sessions, fs) /\ cf' = Waiting
      /\ UNCHANGED <<file, current, mixed>>
      /\ crossed' = (crossed \ DOMAIN cf.kvs) \cup (cf.late \cap DOMAIN cf.kvs)
  BY DEF RefreshSaves
<1>7. crossed' \subseteq Fields
  BY <1>1, <1>6 DEF PairInv
<1> HIDE DEF new, fs
<1> QED
  BY <1>2, <1>3, <1>5, <1>6, <1>7, Resting DEF PairInv

LEMMA RestartKeeps ==
  ASSUME PairInv, NEW unread \in BOOLEAN, ConfigRestart(unread) PROVE PairInv'
<1>1. DOMAIN current' = Fields /\ (mixed \/ PairIn(file, current'))
  BY LoadPairs DEF ConfigRestart, PairInv
<1>2. crossed' \subseteq Fields
  BY KeysAreFields DEF ConfigRestart, PairInv, Fields
<1>3. DOMAIN adm' = Sessions /\ \A a \in Sessions : adm'[a] = NoPut
  BY DEF ConfigRestart
<1> QED
  BY <1>1, <1>2, <1>3, Resting DEF ConfigRestart, PairInv

LEMMA PairsKept == PairInv /\ [ConfigNext]_configVars => PairInv'
<1> SUFFICES ASSUME PairInv, [ConfigNext]_configVars PROVE PairInv'
  OBVIOUS
<1>1. ASSUME NEW a \in Sessions, NEW put \in Puts, PutRead(a, put) PROVE PairInv'
  BY <1>1, PutReadKeeps
<1>2. ASSUME NEW a \in Sessions, PutFails(a) \/ PutSave(a) \/ PutStore(a) PROVE PairInv'
  BY <1>2, PutFailsKeeps, PutSaveKeeps, PutStoreKeeps
<1>3. ASSUME NEW s \in Solves, SolveReads(s) PROVE PairInv'
  BY <1>3, SolveReadsKeeps
<1>4. CASE RefreshStarts \/ SolveFails \/ SolveStores \/ RefreshSaves \/ RefreshSaveFails
  BY <1>4, RefreshKeeps, SolveStoresKeeps, RefreshSavesKeeps
<1>5. ASSUME NEW unread \in BOOLEAN, ConfigRestart(unread) PROVE PairInv'
  BY <1>5, RestartKeeps
<1>6. CASE UNCHANGED configVars
  <2>1. UNCHANGED <<file, rows, current, adm, cf, crossed, mixed>>
    BY <1>6 DEF configVars, configStore, configHistory
  <2> QED
    BY <2>1 DEF PairInv
<1> QED
  BY <1>1, <1>2, <1>3, <1>4, <1>5, <1>6 DEF ConfigNext

-----------------------------------------------------------------------------
(* That the live configuration and the rows agree: what each writer knows of *)
(* the other, field by field, is enough to tell where its second store lands *)
(* on a field that nobody changed since the first.                           *)

\* A start takes the row of a field.
TakesRow(r, x) ==
    /\ x \in DOMAIN r /\ ~(x \in SkippedWhenEmpty /\ r[x] = "")
    /\ x = "user_agent" => "browser" \in DOMAIN r /\ r["browser"] # ""

LEMMA LoadOf ==
  ASSUME NEW f \in Files, NEW r, DOMAIN r \subseteq Keys,
         NEW x \in Fields, x # "flaresolverr_urls"
  PROVE  LoadedConfig(f, r)[x] = IF TakesRow(r, x) THEN r[x] ELSE LoadFile(f)[x]
<1> DEFINE g == LoadFile(f)
           o == Overrides(r)
           n == Overlay(o, g)
<1>1. DOMAIN g = Fields
  BY LoadPairs
<1>2. DOMAIN o \subseteq DOMAIN r /\ \A y \in DOMAIN o : o[y] = r[y]
  BY DEF Overrides, PairedRows, Restrict
<1>3. x \in DOMAIN o <=> TakesRow(r, x)
  <2>1. x \in DOMAIN PairedRows(r) <=>
          x \in DOMAIN r /\ (x = "user_agent" => "browser" \in DOMAIN r /\ r["browser"] # "")
    BY DEF PairedRows, Restrict
  <2>2. DOMAIN o = {y \in DOMAIN PairedRows(r) : ~(y \in SkippedWhenEmpty /\ r[y] = "")}
    BY DEF Overrides, Restrict
  <2> QED
    BY <2>1, <2>2 DEF TakesRow
<1> HIDE DEF g, o
<1>4. /\ DOMAIN n = DOMAIN o \cup DOMAIN g
      /\ \A y \in DOMAIN o : n[y] = o[y]
      /\ \A y \in DOMAIN g \ DOMAIN o : n[y] = g[y]
  BY OverlayOf
<1> HIDE DEF n
<1>5. LoadedConfig(f, r)[x] = n[x]
  BY <1>1, <1>4 DEF LoadedConfig, ApplyDBOverrides, n, o, g
<1> QED
  BY <1>1, <1>2, <1>3, <1>4, <1>5 DEF g

\* A field whose row did not change is loaded as before, unless the browser beside a
\* user agent did.
LEMMA LoadKeeps ==
  ASSUME NEW f \in Files, NEW r, NEW q, DOMAIN r \subseteq Keys, DOMAIN q \subseteq Keys,
         NEW x \in Fields, x # "flaresolverr_urls",
         x \in DOMAIN r <=> x \in DOMAIN q, x \in DOMAIN r => r[x] = q[x],
         x = "user_agent" => /\ "browser" \in DOMAIN r <=> "browser" \in DOMAIN q
                             /\ "browser" \in DOMAIN r => r["browser"] = q["browser"]
  PROVE  LoadedConfig(f, r)[x] = LoadedConfig(f, q)[x]
<1>1. TakesRow(r, x) <=> TakesRow(q, x)
  BY DEF TakesRow
<1>2. LoadedConfig(f, r)[x] = IF TakesRow(r, x) THEN r[x] ELSE LoadFile(f)[x]
  BY LoadOf
<1>3. LoadedConfig(f, q)[x] = IF TakesRow(q, x) THEN q[x] ELSE LoadFile(f)[x]
  BY LoadOf
<1>4. TakesRow(r, x) => r[x] = q[x]
  BY DEF TakesRow
<1> QED
  BY <1>1, <1>2, <1>3, <1>4

\* Lossy of a configuration, of rows and of whether a source named one of the two alone.
LossyIn(f, c, r, m) ==
    \/ f \in SkippedWhenEmpty /\ c[f] = ""
    \/ f = "user_agent" /\ (m \/ ("browser" \in DOMAIN r /\ r["browser"] = ""))
    \/ f = "flaresolverr_urls"

LEMMA LossyOf ==
  ASSUME NEW f
  PROVE  /\ Lossy(f) <=> LossyIn(f, current, rows, mixed)
         /\ Lossy(f)' <=> LossyIn(f, current', rows', mixed')
BY DEF Lossy, LossyIn, SkippedWhenEmpty

LEMMA ChangedOf ==
  ASSUME NEW f, NEW g, NEW x, x \notin Changed(f, g)
  PROVE  /\ x \in DOMAIN f <=> x \in DOMAIN g
         /\ x \in DOMAIN f => f[x] = g[x]
BY DEF Changed

\* A request that learns what changed still knows what it may rely on.
LEMMA LateFollows ==
  ASSUME PairInv, AgreeInv, NEW bs, NEW fs, NEW b \in bs, b \in Sessions, NEW c, NEW r,
         DOMAIN c = Fields, Changed(current, c) \subseteq fs, Changed(rows, r) \subseteq fs
  PROVE  EntryFollows(Late(bs, fs)[b], c, r)
<1>1. PICK p, u, g, l : adm[b] = [pc |-> p, put |-> u, cfg |-> g, late |-> l]
  BY DEF PairInv, EntryOK
<1>2. CASE p = "idle"
  <2>1. Late(bs, fs)[b] = adm[b]
    BY <1>1, <1>2 DEF Late, Active
  <2> QED
    BY <1>1, <1>2, <2>1 DEF EntryFollows
<1>3. CASE p # "idle"
  <2>1. Late(bs, fs)[b] = [pc |-> p, put |-> u, cfg |-> g, late |-> l \cup fs]
    <3>1. [adm[b] EXCEPT !.late = @ \cup fs] = [pc |-> p, put |-> u, cfg |-> g, late |-> l \cup fs]
      BY <1>1
    <3>2. Active(b)
      BY <1>1, <1>3 DEF Active
    <3>3. Late(bs, fs)[b] = [adm[b] EXCEPT !.late = @ \cup fs]
      BY <3>2 DEF Late
    <3> QED
      BY <3>1, <3>3
  <2>2. EntryFollows(adm[b], current, rows)
    BY DEF AgreeInv
  <2>3. ASSUME NEW f \in Fields \ (l \cup fs) PROVE g[f] = c[f]
    <3>1. g[f] = current[f]
      BY <1>1, <1>3, <2>2, <2>3 DEF EntryFollows
    <3>2. f \notin Changed(current, c)
      BY <2>3
    <3> QED
      BY <3>1, <3>2, ChangedOf DEF PairInv
  <2>4. ASSUME p = "stored", NEW f \in DOMAIN DbUpdates(u) \ (l \cup fs)
        PROVE  f \in DOMAIN r /\ r[f] = DbUpdates(u)[f]
    <3>1. f \in DOMAIN rows /\ rows[f] = DbUpdates(u)[f]
      BY <1>1, <2>2, <2>4 DEF EntryFollows
    <3>2. f \notin Changed(rows, r)
      BY <2>4
    <3> QED
      BY <3>1, <3>2, ChangedOf
  <2> QED
    BY <2>1, <2>3, <2>4 DEF EntryFollows
<1> QED
  BY <1>2, <1>3

LEMMA NothingChanged == ASSUME NEW f PROVE Changed(f, f) = {}
BY DEF Changed

-----------------------------------------------------------------------------
LEMMA AgreesAtStart == ASSUME ConfigInit PROVE AgreeInv
<1>1. EntryFollows(NoPut, current, rows) /\ RefreshFollows(Waiting, current)
  BY DEF EntryFollows, RefreshFollows, NoPut, Waiting
<1> QED
  BY <1>1 DEF ConfigInit, AgreeInv

\* A request reads the configuration or is answered with an error, the refresh starts,
\* fails or clones the configuration: what is live and what is stored stay.
LEMMA QuietAgrees ==
  ASSUME PairInv, AgreeInv, UNCHANGED <<configStore, mixed, crossed>>,
         \A a \in Sessions : \/ adm'[a] = adm[a]
                            \/ /\ adm[a].pc # "stored" /\ adm'[a].pc # "stored"
                               /\ EntryFollows(adm'[a], current, rows),
         \/ cf' = cf
         \/ cf.pc # "saving" /\ cf'.pc # "saving"
  PROVE  AgreeInv'
<1>1. UNCHANGED <<file, rows, current, mixed, crossed>>
  BY DEF configStore
<1>2. \A a \in Sessions : EntryFollows(adm'[a], current, rows)
  BY DEF AgreeInv
<1>3. RefreshFollows(cf', current)
  BY DEF AgreeInv, RefreshFollows
<1>4. ASSUME NEW f PROVE Pending(f) => Pending(f)'
  BY DEF Pending
<1>5. ASSUME NEW f PROVE Lossy(f) => Lossy(f)'
  BY <1>1, LossyOf
<1> QED
  BY <1>1, <1>2, <1>3, <1>4, <1>5 DEF AgreeInv

LEMMA PutReadAgrees ==
  ASSUME PairInv, AgreeInv, NEW a \in Sessions, NEW put \in Puts, PutRead(a, put) \/ PutFails(a)
  PROVE  AgreeInv'
<1>1. \A b \in Sessions \ {a} : adm'[b] = adm[b]
  BY DEF PutRead, PutFails, PairInv
<1>2. adm[a].pc # "stored"
  BY DEF PutRead, PutFails, Active
<1>3. adm'[a] \in {[pc |-> "editing", put |-> put, cfg |-> current, late |-> {}], NoPut}
  BY DEF PutRead, PutFails, PairInv
<1>4. adm'[a].pc # "stored" /\ EntryFollows(adm'[a], current, rows)
  BY <1>3 DEF EntryFollows, NoPut
<1>5. cf' = cf /\ UNCHANGED <<configStore, mixed, crossed>>
  BY DEF PutRead, PutFails, configHistory
<1> QED
  BY <1>1, <1>2, <1>4, <1>5, QuietAgrees

LEMMA SolvingAgrees ==
  ASSUME PairInv, AgreeInv, RefreshStarts \/ SolveFails \/ \E s \in Solves : SolveReads(s)
  PROVE  AgreeInv'
<1>1. cf.pc # "saving" /\ UNCHANGED <<configStore, mixed, crossed>> /\ adm' = adm
  BY DEF RefreshStarts, SolveFails, SolveReads, configHistory
<1>2. cf'.pc # "saving"
  <2>1. PICK p, k, w, l : cf = [pc |-> p, kvs |-> k, cfg |-> w, late |-> l]
    BY DEF PairInv, RefreshOK
  <2>2. \/ cf' \in {[pc |-> "solving", kvs |-> k, cfg |-> w, late |-> l], Waiting}
        \/ \E s \in Solves : cf' = [pc |-> "updating", kvs |-> Answer(s), cfg |-> current, late |-> l]
    BY <2>1 DEF RefreshStarts, SolveFails, SolveReads
  <2> QED
    BY <2>2 DEF Waiting
<1> QED
  BY <1>1, <1>2, QuietAgrees

\* The rows of an update: its own, and the others as they were.
LEMMA UpsertedRows ==
  ASSUME NEW kvs, NEW r
  PROVE  /\ DOMAIN Upserted(r, kvs) = DOMAIN kvs \cup DOMAIN r
         /\ \A x \in DOMAIN kvs : Upserted(r, kvs)[x] = kvs[x]
         /\ \A x \in DOMAIN r \ DOMAIN kvs : Upserted(r, kvs)[x] = r[x]
BY OverlayOf DEF Upserted

\* A field that an update does not name is loaded as before and as lossy as before,
\* unless the update names one of browser and user agent alone.
LEMMA OthersLoadAsBefore ==
  ASSUME NEW kvs, NEW m \in BOOLEAN, PairInv, DOMAIN kvs \subseteq Keys, mixed => m, m \/ Stores(kvs),
         NEW f \in Fields \ DOMAIN kvs, f # "user_agent" \/ ~m, f # "flaresolverr_urls"
  PROVE  /\ LoadedConfig(file, Upserted(rows, kvs))[f] = LoadedConfig(file, rows)[f]
         /\ f = "user_agent" =>
              /\ "browser" \in DOMAIN rows <=> "browser" \in DOMAIN Upserted(rows, kvs)
              /\ "browser" \in DOMAIN rows => Upserted(rows, kvs)["browser"] = rows["browser"]
<1> DEFINE new == Upserted(rows, kvs)
<1>1. /\ DOMAIN new = DOMAIN kvs \cup DOMAIN rows
      /\ \A x \in DOMAIN kvs : new[x] = kvs[x]
      /\ \A x \in DOMAIN rows \ DOMAIN kvs : new[x] = rows[x]
  BY UpsertedRows
<1> HIDE DEF new
<1>2. /\ f \in DOMAIN new <=> f \in DOMAIN rows
      /\ f \in DOMAIN new => new[f] = rows[f]
  BY <1>1
<1>3. f = "user_agent" => /\ "browser" \in DOMAIN rows <=> "browser" \in DOMAIN new
                          /\ "browser" \in DOMAIN rows => new["browser"] = rows["browser"]
  BY <1>1 DEF Stores
<1>4. DOMAIN new \subseteq Keys /\ DOMAIN rows \subseteq Keys /\ file \in Files
  BY <1>1 DEF PairInv
<1>5. LoadedConfig(file, new)[f] = LoadedConfig(file, rows)[f]
  BY <1>2, <1>3, <1>4, LoadKeeps
<1> QED
  BY <1>3, <1>5 DEF new

\* A field that is live as its row says is loaded, or lossy.
LEMMA RowIsLive ==
  ASSUME NEW g \in Files, NEW c, NEW r, NEW m, NEW f \in Fields, f \in DOMAIN r, c[f] = r[f],
         DOMAIN r \subseteq Keys, m \/ ("user_agent" \in DOMAIN r => "browser" \in DOMAIN r)
  PROVE  LossyIn(f, c, r, m) \/ c[f] = LoadedConfig(g, r)[f]
<1> SUFFICES ASSUME ~LossyIn(f, c, r, m) PROVE c[f] = LoadedConfig(g, r)[f]
  OBVIOUS
<1>1. TakesRow(r, f)
  BY DEF LossyIn, TakesRow
<1>2. f # "flaresolverr_urls"
  BY DEF LossyIn
<1> QED
  BY <1>1, <1>2, LoadOf

\* Learning what changed moves no writer on.
LEMMA LateMovesNobody ==
  ASSUME PairInv, NEW bs, NEW fs
  PROVE  /\ \A b \in Sessions : Late(bs, fs)[b].pc = adm[b].pc /\ Late(bs, fs)[b].put = adm[b].put
         /\ LateRefresh(fs).pc = cf.pc /\ LateRefresh(fs).kvs = cf.kvs
<1>1. ASSUME NEW b \in Sessions
      PROVE  Late(bs, fs)[b].pc = adm[b].pc /\ Late(bs, fs)[b].put = adm[b].put
  <2>1. PICK p, u, g, l : adm[b] = [pc |-> p, put |-> u, cfg |-> g, late |-> l]
    BY DEF PairInv, EntryOK
  <2>2. Late(bs, fs)[b] \in {adm[b], [pc |-> p, put |-> u, cfg |-> g, late |-> l \cup fs]}
    BY <2>1 DEF Late
  <2> QED
    BY <2>1, <2>2
<1>2. PICK p, k, w, l : cf = [pc |-> p, kvs |-> k, cfg |-> w, late |-> l]
  BY DEF PairInv, RefreshOK
<1>3. LateRefresh(fs) \in {cf, [pc |-> p, kvs |-> k, cfg |-> w, late |-> l \cup fs]}
  BY <1>2 DEF LateRefresh
<1>4. LateRefresh(fs).pc = cf.pc /\ LateRefresh(fs).kvs = cf.kvs
  BY <1>2, <1>3
<1> QED
  BY <1>1, <1>4

LEMMA RefreshLearns ==
  ASSUME PairInv, AgreeInv, NEW fs, NEW c, DOMAIN c = Fields, Changed(current, c) \subseteq fs
  PROVE  RefreshFollows(LateRefresh(fs), c)
<1>1. PICK p, k, w, l : cf = [pc |-> p, kvs |-> k, cfg |-> w, late |-> l]
  BY DEF PairInv, RefreshOK
<1>2. CASE p # "saving"
  BY <1>1, <1>2 DEF LateRefresh, RefreshFollows
<1>3. CASE p = "saving"
  <2>1. LateRefresh(fs) = [pc |-> p, kvs |-> k, cfg |-> w, late |-> l \cup fs]
    BY <1>1, <1>3 DEF LateRefresh
  <2>2. ASSUME NEW f \in DOMAIN k \ (l \cup fs) PROVE c[f] = k[f]
    <3>1. current[f] = k[f] /\ f \in Fields
      BY <1>1, <1>3, <2>2, KeysAreFields DEF AgreeInv, RefreshFollows, PairInv, RefreshOK
    <3>2. f \notin Changed(current, c)
      BY <2>2
    <3> QED
      BY <3>1, <3>2, ChangedOf DEF PairInv
  <2> QED
    BY <2>1, <2>2 DEF RefreshFollows
<1> QED
  BY <1>2, <1>3

\* The rows of a PUT are stored: its other half is pending.
LEMMA PutSaveAgrees ==
  ASSUME PairInv, AgreeInv, NEW a \in Sessions, PutSave(a), PairInv' PROVE AgreeInv'
<1> DEFINE put == adm[a].put
           kvs == DbUpdates(put)
           new == Upserted(rows, kvs)
           fs == Changed(rows, new)
<1>1. /\ DOMAIN kvs \subseteq Keys /\ (~NamesOne(put) => Stores(kvs)) /\ adm[a].pc = "editing"
      /\ mixed \in BOOLEAN
  BY PutStores DEF PutSave, PairInv, EntryOK
<1>2. /\ DOMAIN new = DOMAIN kvs \cup DOMAIN rows
      /\ \A x \in DOMAIN kvs : new[x] = kvs[x]
      /\ \A x \in DOMAIN rows \ DOMAIN kvs : new[x] = rows[x]
  BY UpsertedRows
<1>3. /\ rows' = new /\ cf' = LateRefresh(fs) /\ UNCHANGED <<file, current, crossed>>
      /\ mixed' = (mixed \/ NamesOne(put)) /\ adm' = [Late(Sessions \ {a}, fs) EXCEPT ![a].pc = "stored"]
  BY DEF PutSave
<1>4. Late(Sessions \ {a}, fs)[a] = adm[a] /\ DOMAIN Late(Sessions \ {a}, fs) = Sessions
  BY DEF Late
<1>5. PICK p, u, g, l : adm[a] = [pc |-> p, put |-> u, cfg |-> g, late |-> l]
  BY DEF PairInv, EntryOK
<1> HIDE DEF new, fs
<1>6. /\ adm'[a] = [pc |-> "stored", put |-> put, cfg |-> g, late |-> l]
      /\ \A b \in Sessions \ {a} : adm'[b] = Late(Sessions \ {a}, fs)[b]
  BY <1>3, <1>4, <1>5
<1>7. \A b \in Sessions : EntryFollows(adm'[b], current, new)
  <2>1. EntryFollows(adm'[a], current, new)
    <3>1. EntryFollows(adm[a], current, rows)
      BY DEF AgreeInv
    <3>2. \A f \in Fields \ l : g[f] = current[f]
      BY <1>1, <1>5, <3>1 DEF EntryFollows
    <3> QED
      BY <1>2, <1>6, <3>2 DEF EntryFollows
  <2>2. ASSUME NEW b \in Sessions \ {a} PROVE EntryFollows(adm'[b], current, new)
    <3>1. Changed(current, current) \subseteq fs /\ Changed(rows, new) \subseteq fs /\ DOMAIN current = Fields
      BY NothingChanged DEF fs, PairInv
    <3> QED
      BY <1>6, <3>1, LateFollows
  <2> QED
    BY <2>1, <2>2
<1>8. RefreshFollows(cf', current)
  BY <1>3, NothingChanged, RefreshLearns DEF PairInv
<1>9. mixed' \/ ("user_agent" \in DOMAIN new => "browser" \in DOMAIN new)
  BY <1>1, <1>2, <1>3 DEF AgreeInv, Stores
<1>10. ASSUME NEW f \in Fields \ crossed
       PROVE  LossyIn(f, current, new, mixed') \/ current[f] = LoadedConfig(file, new)[f] \/ Pending(f)'
  <2>1. CASE f \in DOMAIN kvs
    BY <1>6, <2>1 DEF Pending
  <2>2. CASE f \notin DOMAIN kvs
    <3>1. Lossy(f) \/ current[f] = LoadedConfig(file, rows)[f] \/ Pending(f)
      BY <1>10 DEF AgreeInv
    <3>2. Pending(f) => Pending(f)'
      BY <1>1, <1>3, <1>6, LateMovesNobody DEF Pending
    <3>3. CASE f = "flaresolverr_urls" \/ (f = "user_agent" /\ mixed')
      BY <3>3 DEF LossyIn
    <3>4. CASE f # "flaresolverr_urls" /\ (f # "user_agent" \/ ~mixed')
      <4>1. /\ LoadedConfig(file, new)[f] = LoadedConfig(file, rows)[f]
            /\ f = "user_agent" =>
                 /\ "browser" \in DOMAIN rows <=> "browser" \in DOMAIN new
                 /\ "browser" \in DOMAIN rows => new["browser"] = rows["browser"]
        BY <1>1, <1>3, <1>10, <2>2, <3>4, OthersLoadAsBefore DEF new
      <4>2. Lossy(f) => LossyIn(f, current, new, mixed')
        BY <1>3, <4>1, LossyOf DEF LossyIn
      <4> QED
        BY <3>1, <3>2, <4>1, <4>2
    <3> QED
      BY <3>3, <3>4
  <2> QED
    BY <2>1, <2>2
<1> QED
  BY <1>3, <1>7, <1>8, <1>9, <1>10, LossyOf DEF AgreeInv

\* The snapshot of a PUT goes live: what changed since it was taken is crossed.
LEMMA PutStoreAgrees ==
  ASSUME PairInv, AgreeInv, NEW a \in Sessions, PutStore(a), PairInv' PROVE AgreeInv'
<1> DEFINE put == adm[a].put
           kvs == DbUpdates(put)
           new == Edited(adm[a].cfg, put)
           fs == Changed(current, new)
<1>1. /\ EntryFollows(adm[a], current, rows) /\ adm[a].pc = "stored"
      /\ DOMAIN adm[a].cfg = Fields /\ DOMAIN rows \subseteq Keys /\ file \in Files
  BY DEF PutStore, AgreeInv, PairInv, EntryOK
<1>2. /\ DOMAIN new = DOMAIN kvs \cup DOMAIN adm[a].cfg
      /\ \A x \in DOMAIN kvs : new[x] = kvs[x]
      /\ \A x \in DOMAIN adm[a].cfg \ DOMAIN kvs : new[x] = adm[a].cfg[x]
  BY OverlayOf DEF Edited, DbUpdates
<1>3. /\ current' = new /\ cf' = LateRefresh(fs) /\ UNCHANGED <<file, rows, mixed>>
      /\ adm' = [Late(Sessions \ {a}, fs) EXCEPT ![a] = NoPut]
      /\ crossed' = (crossed \ DOMAIN kvs) \cup adm[a].late
  BY DEF PutStore
<1>4. DOMAIN new = Fields
  BY <1>3 DEF PairInv
<1> HIDE DEF new, fs
<1>5. adm'[a] = NoPut /\ \A b \in Sessions \ {a} : adm'[b] = Late(Sessions \ {a}, fs)[b]
  BY <1>3 DEF Late
<1>6. \A b \in Sessions : EntryFollows(adm'[b], new, rows)
  <2>1. EntryFollows(adm'[a], new, rows)
    BY <1>5 DEF EntryFollows, NoPut
  <2>2. ASSUME NEW b \in Sessions \ {a} PROVE EntryFollows(adm'[b], new, rows)
    <3>1. Changed(current, new) \subseteq fs /\ Changed(rows, rows) \subseteq fs
      BY NothingChanged DEF fs
    <3> QED
      BY <1>4, <1>5, <3>1, LateFollows
  <2> QED
    BY <2>1, <2>2
<1>7. RefreshFollows(cf', new)
  BY <1>3, <1>4, RefreshLearns DEF fs
<1>8. ASSUME NEW f \in Fields \ crossed'
      PROVE  LossyIn(f, new, rows, mixed) \/ new[f] = LoadedConfig(file, rows)[f] \/ Pending(f)'
  <2>1. CASE f \in DOMAIN kvs
    <3>1. f \in DOMAIN rows /\ rows[f] = kvs[f]
      BY <1>1, <1>3, <1>8, <2>1 DEF EntryFollows
    <3>2. new[f] = rows[f] /\ (mixed \/ ("user_agent" \in DOMAIN rows => "browser" \in DOMAIN rows))
      BY <1>2, <2>1, <3>1 DEF AgreeInv
    <3> QED
      BY <1>1, <1>8, <3>1, <3>2, RowIsLive
  <2>2. CASE f \notin DOMAIN kvs
    <3>1. new[f] = current[f]
      BY <1>1, <1>2, <1>3, <1>8, <2>2 DEF EntryFollows
    <3>2. LossyIn(f, current, rows, mixed) \/ current[f] = LoadedConfig(file, rows)[f] \/ Pending(f)
      BY <1>3, <1>8, <2>2, LossyOf DEF AgreeInv
    <3>3. Pending(f) => Pending(f)'
      BY <1>3, <1>5, <2>2, LateMovesNobody DEF Pending
    <3> QED
      BY <3>1, <3>2, <3>3 DEF LossyIn
  <2> QED
    BY <2>1, <2>2
<1> QED
  BY <1>3, <1>6, <1>7, <1>8, LossyOf DEF AgreeInv

\* The answer of a solver goes live, over the clone: its rows are pending, and what
\* changed otherwise since the clone is crossed.
LEMMA SolveStoresAgrees == ASSUME PairInv, AgreeInv, SolveStores, PairInv' PROVE AgreeInv'
<1> DEFINE kvs == cf.kvs
           new == Overlay(kvs, cf.cfg)
           fs == Changed(current, new)
<1>1. /\ DOMAIN kvs \subseteq Keys /\ cf.pc = "updating" /\ mixed \in BOOLEAN
      /\ DOMAIN current = Fields /\ DOMAIN cf.cfg = Fields
  BY DEF SolveStores, PairInv, RefreshOK
<1>2. /\ DOMAIN new = DOMAIN kvs \cup DOMAIN cf.cfg
      /\ \A x \in DOMAIN kvs : new[x] = kvs[x]
      /\ \A x \in DOMAIN cf.cfg \ DOMAIN kvs : new[x] = cf.cfg[x]
  BY OverlayOf
<1>3. /\ current' = new /\ adm' = Late(Sessions, fs) /\ UNCHANGED <<file, rows>>
      /\ crossed' = crossed \cup (fs \ DOMAIN kvs)
      /\ mixed => mixed'
  BY DEF SolveStores
<1>4. PICK l : cf' = [pc |-> "saving", kvs |-> kvs, cfg |-> << >>, late |-> l]
  <2>1. PICK p, k, w, l : cf = [pc |-> p, kvs |-> k, cfg |-> w, late |-> l]
    BY DEF PairInv, RefreshOK
  <2>2. cf' = [cf EXCEPT !.pc = "saving", !.cfg = << >>]
    BY DEF SolveStores
  <2>3. cf' = [pc |-> "saving", kvs |-> kvs, cfg |-> << >>, late |-> l]
    BY <2>1, <2>2
  <2> QED
    BY <2>3
<1> HIDE DEF new, fs, kvs
<1>5. DOMAIN new = Fields
  BY <1>3 DEF PairInv
<1>6. \A b \in Sessions : EntryFollows(adm'[b], new, rows)
  <2>1. Changed(current, new) \subseteq fs /\ Changed(rows, rows) \subseteq fs
    BY NothingChanged DEF fs
  <2> QED
    BY <1>3, <1>5, <2>1, LateFollows
<1>7. RefreshFollows(cf', new)
  BY <1>2, <1>4 DEF RefreshFollows
<1>8. mixed' \/ ("user_agent" \in DOMAIN rows => "browser" \in DOMAIN rows)
  BY <1>3 DEF AgreeInv
<1>9. ASSUME NEW f \in Fields \ crossed'
      PROVE  LossyIn(f, new, rows, mixed') \/ new[f] = LoadedConfig(file, rows)[f] \/ Pending(f)'
  <2>1. CASE f \in DOMAIN kvs
    BY <1>4, <2>1 DEF Pending
  <2>2. CASE f \notin DOMAIN kvs
    <3>1. new[f] = current[f]
      BY <1>1, <1>3, <1>5, <1>9, <2>2, ChangedOf DEF fs
    <3>2. LossyIn(f, current, rows, mixed) \/ current[f] = LoadedConfig(file, rows)[f] \/ Pending(f)
      BY <1>3, <1>9, LossyOf DEF AgreeInv
    <3>3. Pending(f) => Pending(f)'
      BY <1>1, <1>3, LateMovesNobody DEF Pending
    <3> QED
      BY <1>3, <3>1, <3>2, <3>3 DEF LossyIn
  <2> QED
    BY <2>1, <2>2
<1> QED
  BY <1>3, <1>6, <1>7, <1>8, <1>9, LossyOf DEF AgreeInv

\* The rows of the answer are stored.
LEMMA RefreshSavesAgrees == ASSUME PairInv, AgreeInv, RefreshSaves, PairInv' PROVE AgreeInv'
<1> DEFINE kvs == cf.kvs
           new == Upserted(rows, kvs)
           fs == Changed(rows, new)
<1>1. /\ DOMAIN kvs \subseteq Keys /\ (mixed \/ Stores(kvs)) /\ cf.pc = "saving"
      /\ mixed \in BOOLEAN /\ DOMAIN current = Fields /\ file \in Files
  BY DEF RefreshSaves, PairInv, RefreshOK
<1>2. /\ DOMAIN new = DOMAIN kvs \cup DOMAIN rows
      /\ \A x \in DOMAIN kvs : new[x] = kvs[x]
      /\ \A x \in DOMAIN rows \ DOMAIN kvs : new[x] = rows[x]
  BY UpsertedRows
<1>3. /\ rows' = new /\ adm' = Late(Sessions, fs) /\ cf' = Waiting /\ UNCHANGED <<file, current, mixed>>
      /\ crossed' = (crossed \ DOMAIN kvs) \cup (cf.late \cap DOMAIN kvs)
  BY DEF RefreshSaves
<1>4. DOMAIN new \subseteq Keys
  BY <1>3 DEF PairInv
<1> HIDE DEF new, fs
<1>5. \A b \in Sessions : EntryFollows(adm'[b], current, new)
  <2>1. Changed(current, current) \subseteq fs /\ Changed(rows, new) \subseteq fs
    BY NothingChanged DEF fs
  <2> QED
    BY <1>1, <1>3, <2>1, LateFollows
<1>6. RefreshFollows(cf', current)
  BY <1>3 DEF RefreshFollows, Waiting
<1>7. mixed \/ ("user_agent" \in DOMAIN new => "browser" \in DOMAIN new)
  BY <1>1, <1>2 DEF AgreeInv, Stores
<1>8. ASSUME NEW f \in Fields \ crossed'
      PROVE  LossyIn(f, current, new, mixed) \/ current[f] = LoadedConfig(file, new)[f] \/ Pending(f)'
  <2>1. CASE f \in DOMAIN kvs
    <3>1. f \in DOMAIN new /\ current[f] = new[f]
      BY <1>1, <1>2, <1>3, <1>8, <2>1 DEF AgreeInv, RefreshFollows
    <3> QED
      BY <1>1, <1>4, <1>7, <1>8, <3>1, RowIsLive
  <2>2. CASE f \notin DOMAIN kvs
    <3>1. Lossy(f) \/ current[f] = LoadedConfig(file, rows)[f] \/ Pending(f)
      BY <1>3, <1>8, <2>2 DEF AgreeInv
    <3>2. Pending(f) => Pending(f)'
      BY <1>3, <2>2, LateMovesNobody DEF Pending
    <3>3. CASE f = "flaresolverr_urls" \/ (f = "user_agent" /\ mixed)
      BY <3>3 DEF LossyIn
    <3>4. CASE f # "flaresolverr_urls" /\ (f # "user_agent" \/ ~mixed)
      <4>1. /\ LoadedConfig(file, new)[f] = LoadedConfig(file, rows)[f]
            /\ f = "user_agent" =>
                 /\ "browser" \in DOMAIN rows <=> "browser" \in DOMAIN new
                 /\ "browser" \in DOMAIN rows => new["browser"] = rows["browser"]
        BY <1>1, <1>8, <2>2, <3>4, OthersLoadAsBefore DEF new
      <4>2. Lossy(f) => LossyIn(f, current, new, mixed)
        BY <4>1, LossyOf DEF LossyIn
      <4> QED
        BY <3>1, <3>2, <4>1, <4>2
    <3> QED
      BY <3>3, <3>4
  <2> QED
    BY <2>1, <2>2
<1> QED
  BY <1>3, <1>5, <1>6, <1>7, <1>8, LossyOf DEF AgreeInv

\* The rows of the answer are lost: its fields are crossed.
LEMMA RefreshSaveFailsAgrees == ASSUME PairInv, AgreeInv, RefreshSaveFails PROVE AgreeInv'
<1>1. /\ UNCHANGED <<file, rows, current, mixed, adm>> /\ cf' = Waiting
      /\ crossed' = crossed \cup DOMAIN cf.kvs
  BY DEF RefreshSaveFails, configStore
<1>2. RefreshFollows(cf', current)
  BY <1>1 DEF RefreshFollows, Waiting
<1>3. ASSUME NEW f \in Fields \ crossed'
      PROVE  Lossy(f)' \/ current[f] = LoadedConfig(file, rows)[f] \/ Pending(f)'
  <2>1. Lossy(f) \/ current[f] = LoadedConfig(file, rows)[f] \/ Pending(f)
    BY <1>1, <1>3 DEF AgreeInv
  <2>2. Pending(f) => Pending(f)'
    BY <1>1, <1>3 DEF Pending
  <2> QED
    BY <1>1, <2>1, <2>2, LossyOf
<1> QED
  BY <1>1, <1>2, <1>3 DEF AgreeInv

\* A start loads what it loads, or only the file.
LEMMA RestartAgrees ==
  ASSUME PairInv, AgreeInv, NEW unread \in BOOLEAN, ConfigRestart(unread) PROVE AgreeInv'
<1>1. /\ UNCHANGED <<file, rows, mixed>> /\ cf' = Waiting /\ \A a \in Sessions : adm'[a] = NoPut
      /\ current' = IF unread THEN LoadFile(file) ELSE LoadedConfig(file, rows)
      /\ unread => "flaresolverr_urls" \in crossed' /\ DOMAIN rows \subseteq crossed'
  BY DEF ConfigRestart
<1>2. /\ \A a \in Sessions : EntryFollows(adm'[a], current', rows')
      /\ RefreshFollows(cf', current')
  BY <1>1 DEF EntryFollows, RefreshFollows, NoPut, Waiting
<1>3. ASSUME NEW f \in Fields \ crossed' PROVE current'[f] = LoadedConfig(file, rows)[f]
  <2>1. CASE unread
    <3>1. f \notin DOMAIN rows /\ f # "flaresolverr_urls"
      BY <1>1, <1>3, <2>1
    <3>2. LoadedConfig(file, rows)[f] = LoadFile(file)[f]
      <4>1. file \in Files /\ DOMAIN rows \subseteq Keys /\ ~TakesRow(rows, f)
        BY <3>1 DEF PairInv, TakesRow
      <4> QED
        BY <1>3, <3>1, <4>1, LoadOf
    <3> QED
      BY <1>1, <2>1, <3>2
  <2>2. CASE ~unread
    BY <1>1, <2>2
  <2> QED
    BY <2>1, <2>2
<1>4. mixed \/ ("user_agent" \in DOMAIN rows => "browser" \in DOMAIN rows)
  BY DEF AgreeInv
<1> QED
  BY <1>1, <1>2, <1>3, <1>4 DEF AgreeInv

LEMMA AgreementKept == PairInv /\ AgreeInv /\ [ConfigNext]_configVars => AgreeInv'
<1> SUFFICES ASSUME PairInv, AgreeInv, [ConfigNext]_configVars PROVE AgreeInv'
  OBVIOUS
<1>0. PairInv'
  BY PairsKept
<1>1. ASSUME NEW a \in Sessions, NEW put \in Puts, PutRead(a, put) PROVE AgreeInv'
  BY <1>1, PutReadAgrees
<1>2. ASSUME NEW a \in Sessions, PutFails(a) PROVE AgreeInv'
  <2>1. adm[a].pc = "editing" /\ adm[a].put \in Puts
    BY <1>2 DEF PutFails, PairInv, EntryOK
  <2> QED
    BY <1>2, <2>1, PutReadAgrees
<1>3. ASSUME NEW a \in Sessions, PutSave(a) \/ PutStore(a) PROVE AgreeInv'
  BY <1>0, <1>3, PutSaveAgrees, PutStoreAgrees
<1>4. CASE SolveStores \/ \E s \in Solves : SolveReads(s)
  BY <1>0, <1>4, SolveStoresAgrees, SolvingAgrees
<1>5. CASE RefreshStarts \/ SolveFails \/ RefreshSaves \/ RefreshSaveFails
  BY <1>0, <1>5, SolvingAgrees, RefreshSavesAgrees, RefreshSaveFailsAgrees
<1>6. ASSUME NEW unread \in BOOLEAN, ConfigRestart(unread) PROVE AgreeInv'
  BY <1>6, RestartAgrees
<1>7. CASE UNCHANGED configVars
  <2>1. UNCHANGED <<configStore, mixed, crossed, adm, cf>>
    BY <1>7 DEF configVars, configHistory
  <2> QED
    BY <2>1, QuietAgrees
<1> QED
  BY <1>1, <1>2, <1>3, <1>4, <1>5, <1>6, <1>7 DEF ConfigNext

-----------------------------------------------------------------------------
\* Live and after every start, browser and user agent are a pair of one source (the
\* file, a PUT or a refresh), however the PUTs of the console and the refresh
\* interleave and wherever the process is restarted, for any files, requests and
\* answers; unless a source named one of the two alone.
THEOREM BrowserAndAgentPaired == ConfigSpec => [](ConfigTypeOK /\ AlwaysPaired)
<1>1. ConfigInit => PairInv
  BY PairsAtStart
<1>2. PairInv /\ [ConfigNext]_configVars => PairInv'
  BY PairsKept
<1>3. PairInv => ConfigTypeOK /\ AlwaysPaired
  <2> SUFFICES ASSUME PairInv PROVE ConfigTypeOK /\ AlwaysPaired
    OBVIOUS
  <2>1. ConfigTypeOK
    BY DEF PairInv, ConfigTypeOK, EntryOK, RefreshOK
  <2>2. \A cfg : PairIn(file, cfg) => Pair(cfg["browser"], cfg["user_agent"])
    BY DEF PairIn, NewPair, FilePair, Pair
  <2>3. /\ mixed \/ PairIn(file, current)
        /\ (mixed /\ "browser" \in DOMAIN rows) \/ PairIn(file, LoadedConfig(file, rows))
    BY LoadPairs DEF PairInv, RowsPaired
  <2> QED
    BY <2>1, <2>2, <2>3 DEF AlwaysPaired
<1> QED
  BY <1>1, <1>2, <1>3, PTL DEF ConfigSpec

\* When no writer is between its two stores, the live configuration is what a start would
\* load, for any files, requests and answers and any number of sessions; except for a
\* field that one writer changed while another held an older copy of the whole (a PUT's
\* snapshot, or the clone of a refresh, which no mutex protects from a PUT's store), that
\* a refresh could not save, or whose value the code cannot bring back.
THEOREM ConfigsAgree == ConfigSpec => []ConfigAgreement
<1>1. ConfigInit => PairInv /\ AgreeInv
  BY PairsAtStart, AgreesAtStart
<1>2. (PairInv /\ AgreeInv) /\ [ConfigNext]_configVars => (PairInv /\ AgreeInv)'
  BY PairsKept, AgreementKept
<1>3. PairInv /\ AgreeInv => ConfigAgreement
  BY DEF AgreeInv, ConfigAgreement, Pending
<1> QED
  BY <1>1, <1>2, <1>3, PTL DEF ConfigSpec
=============================================================================
