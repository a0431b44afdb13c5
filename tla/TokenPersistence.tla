-------------------------- MODULE TokenPersistence --------------------------
(***************************************************************************)
(* The token manager's memory, the rows of the tokens table, and the three *)
(* parties that copy one to the other without a common lock: the persister *)
(* (memory to rows), the admin handlers (rows to memory, through           *)
(* SyncToken), and a restart, which loads every row.                       *)
(*                                                                         *)
(* The memory is DirtyTokens, which TokenManager implements.  A value is   *)
(* the columns of TokenSnapshot, which a flush saves, and the place: the   *)
(* other columns, of which a quota sync fills in pool and priority while   *)
(* they are empty.  Each action is one critical section of the manager or  *)
(* one statement or transaction of the database; any of them may fail      *)
(* where the code handles an error.                                        *)
(*                                                                         *)
(* torn, strayed and the torn fields are history: they never guard a step. *)
(* A party is torn on a token when someone else writes the token's memory  *)
(* or row while the party is between its read and its write; an import     *)
(* tears the token whose row it deletes, because nobody takes its object   *)
(* out of the memory.  A flush mends a torn token, but not a strayed one:  *)
(* it does not write the place.                                            *)
(***************************************************************************)
EXTENDS DirtyTokens, FiniteSets

CONSTANTS Columns,   \* status, quotas, baselines, cooling, failures, last use
          Places,    \* pool and priority, secret, remark
          Open,      \* the places without a pool or a priority
          NoRow,     \* the table has no row with this id
          Lifted,    \* the columns, with no baseline below its quota
          NoFlush,   \* no flush is running
          Admins,    \* admin handlers that may run at once
          NoEdit     \* the handler is idle

VARIABLES
  db,      \* the tokens table
  flush,   \* the running flush: its snapshot, and whether it is committed
  edit,    \* what each admin handler has done so far
  free,    \* ids the table has not handed out yet
  torn,    \* history: tokens whose last copy was overlapped
  strayed  \* history: tokens whose last reload was overlapped or failed

history == <<torn, strayed>>
pvars == <<mem, dirty, obj, db, flush, edit, free, history>>

\* The steps of a handler that holds no row, and of one that will put its row
\* into the memory.
Bare == {"got", "saved", "deleted"}
Holding == {"read", "removed", "created"}
Flush == [snap : [Tokens -> Columns \union {NoToken}], committed : BOOLEAN,
          torn : SUBSET Tokens]
Edit == [tok : Tokens, step : Bare, row : {NoRow}, torn : BOOLEAN]
          \union [tok : Tokens, step : Holding, row : Values, torn : BOOLEAN]

ASSUME ValueAssumption ==
  /\ Values = [saved : Columns, place : Places] /\ Open \subseteq Places
  /\ NoToken \notin Columns /\ Lifted \in [Columns -> Columns]

ASSUME AbsentRowAssumption ==
  /\ NoRow \notin Values
  /\ NoFlush \notin Flush
  /\ NoEdit \notin Edit

PTypeOK ==
  /\ TypeOK
  /\ db \in [Tokens -> Values \union {NoRow}]
  /\ flush \in Flush \union {NoFlush}
  /\ edit \in [Admins -> Edit \union {NoEdit}]
  /\ free \subseteq Tokens
  /\ torn \subseteq Tokens /\ strayed \subseteq Tokens
-----------------------------------------------------------------------------
HasRow(t) == db[t] # NoRow
InMemory(t) == mem[t] # NoToken

\* normalizeTokenQuotaBaselines: what AddToken makes of a row, unmarked.
Normalize(row) == [row EXCEPT !.saved = Lifted[@]]

\* What LoadTokens puts in memory.
Rows == [t \in Tokens |-> IF HasRow(t) THEN Normalize(db[t]) ELSE NoToken]

PInit == /\ db \in [Tokens -> Values \union {NoRow}]
         /\ mem = Rows
         /\ dirty = {}
         /\ obj = [t \in Tokens |-> FALSE]
         /\ flush = NoFlush
         /\ edit = [a \in Admins |-> NoEdit]
         /\ free = {t \in Tokens : ~HasRow(t)}
         /\ torn = {} /\ strayed = {}

\* The tokens the running flush holds a copy of.
Flushing(t) == flush # NoFlush /\ flush.snap[t] # NoToken

\* Handler a is between its last read of t and its last write of it.
Window(a, t) == /\ edit[a] # NoEdit /\ edit[a].tok = t
                /\ edit[a].step \in {"read", "removed", "deleted", "created"}

\* History: someone writes the tokens of S, in memory or in the table.
FlushAfter(S) ==
  IF flush = NoFlush THEN NoFlush
  ELSE [flush EXCEPT !.torn = @ \union {t \in S : flush.snap[t] # NoToken}]
EditAfter(b, S) ==
  IF \E t \in S : Window(b, t) THEN [edit[b] EXCEPT !.torn = TRUE] ELSE edit[b]
-----------------------------------------------------------------------------
(***************************************************************************)
(* The manager at work: requests, ticker, scheduler, quota syncs.          *)
(***************************************************************************)
Work(t, v) ==
  /\ InMemory(t) /\ v = Normalize(v)
  /\ v.place # mem[t].place => mem[t].place \in Open
  /\ mem' = [mem EXCEPT ![t] = v]
  /\ dirty' = dirty \union {t}
  /\ flush' = FlushAfter({t})
  /\ UNCHANGED <<obj, db, edit, free, history>>

\* A quota sync that ends after its token was replaced or removed.
MarkOnly(t) ==
  /\ dirty' = dirty \union {t}
  /\ UNCHANGED <<mem, obj, db, flush, edit, free, history>>

(***************************************************************************)
(* Persister.FlushDirty: copy the marked tokens, write them in one         *)
(* transaction, take the marks away.                                       *)
(***************************************************************************)
\* Mutant of GetDirtyTokens: the marks go with the snapshot.
GetDirtyTokensClears ==
  /\ flush = NoFlush
  /\ \E t \in dirty : InMemory(t)
  /\ flush' = [snap |-> [t \in Tokens |-> IF t \in dirty /\ InMemory(t) THEN mem[t].saved ELSE NoToken],
               committed |-> FALSE,
               torn |-> {}]
  /\ dirty' = {}
  /\ UNCHANGED <<mem, obj, db, edit, free, history>>

GetDirtyTokens ==
  /\ flush = NoFlush
  /\ \E t \in dirty : InMemory(t)
  /\ flush' = [snap |-> [t \in Tokens |-> IF t \in dirty /\ InMemory(t) THEN mem[t].saved ELSE NoToken],
               committed |-> FALSE,
               torn |-> {}]
  /\ UNCHANGED <<mem, obj, dirty, db, edit, free, history>>

\* Mutant of FlushCommit: an error of the transaction is not noticed.
FlushCommitIgnoresError ==
  /\ flush # NoFlush /\ ~flush.committed
  /\ flush' = [flush EXCEPT !.committed = TRUE]
  /\ UNCHANGED <<mem, obj, dirty, db, edit, free, history>>

\* An UPDATE of a row that is gone is no error.
FlushCommit ==
  LET written == {t \in Tokens : Flushing(t) /\ HasRow(t)}
      missing == {t \in Tokens : Flushing(t) /\ ~HasRow(t)} IN
  /\ flush # NoFlush /\ ~flush.committed
  /\ db' = [t \in Tokens |->
       IF t \in written THEN [db[t] EXCEPT !.saved = flush.snap[t]] ELSE db[t]]
  /\ flush' = [flush EXCEPT !.committed = TRUE, !.torn = @ \union missing]
  /\ edit' = [b \in Admins |-> EditAfter(b, written)]
  /\ UNCHANGED <<mem, obj, dirty, free, history>>

\* The transaction is rolled back; every mark stays.
FlushFails ==
  /\ flush # NoFlush /\ ~flush.committed
  /\ flush' = NoFlush
  /\ UNCHANGED <<mem, obj, dirty, db, edit, free, history>>

\* Mutant of ClearDirty: the marks stay.
ClearDirtySkipped ==
  LET ids == {t \in Tokens : Flushing(t)} IN
  /\ flush # NoFlush /\ flush.committed
  /\ flush' = NoFlush
  /\ torn' = (torn \ ids) \union flush.torn
  /\ UNCHANGED <<mem, obj, dirty, db, edit, free, strayed>>

ClearDirty ==
  LET ids == {t \in Tokens : Flushing(t)} IN
  /\ flush # NoFlush /\ flush.committed
  /\ Clear(ids)
  /\ flush' = NoFlush
  /\ torn' = (torn \ ids) \union flush.torn
  /\ UNCHANGED <<db, edit, free, strayed>>
-----------------------------------------------------------------------------
(***************************************************************************)
(* Admin handlers.                                                         *)
(***************************************************************************)
Begin(a, t, step, row) ==
  /\ edit[a] = NoEdit
  /\ edit' = [b \in Admins |->
       IF b = a THEN [tok |-> t, step |-> step, row |-> row, torn |-> FALSE]
       ELSE IF step = "got" THEN edit[b] ELSE EditAfter(b, {t})]

At(a, step) == edit[a] # NoEdit /\ edit[a].step = step
Leave(a) == edit' = [edit EXCEPT ![a] = NoEdit]
Finish(a) ==
  LET after(S) == IF edit[a].torn THEN S \union {edit[a].tok} ELSE S \ {edit[a].tok} IN
  /\ Leave(a)
  /\ torn' = after(torn) /\ strayed' = after(strayed)

\* Update and replace: read the row, change it, save it.
UpdateGet(a, t) ==
  /\ HasRow(t)
  /\ Begin(a, t, "got", NoRow)
  /\ UNCHANGED <<mem, obj, dirty, db, flush, free, history>>

\* Save writes every column of the row read, and inserts the row if it is gone.
UpdateSave(a, v) ==
  /\ At(a, "got")
  /\ LET t == edit[a].tok IN
       /\ db' = [db EXCEPT ![t] = v]
       /\ edit' = [b \in Admins |->
            IF b = a THEN [edit[a] EXCEPT !.step = "saved"]
            ELSE EditAfter(b, {t})]
       /\ flush' = FlushAfter({t})
  /\ UNCHANGED <<mem, obj, dirty, free, history>>

\* The body is refused, or the database is.
UpdateFails(a) ==
  /\ At(a, "got")
  /\ Leave(a)
  /\ UNCHANGED <<mem, obj, dirty, db, flush, free, history>>

\* Batch enable and disable: the columns of the row as it is now.
BatchUpdate(a, t, v) ==
  /\ HasRow(t)
  /\ db' = [db EXCEPT ![t] = v]
  /\ Begin(a, t, "saved", NoRow)
  /\ flush' = FlushAfter({t})
  /\ UNCHANGED <<mem, obj, dirty, free, history>>

\* SyncToken reads the row again, ...
SyncRead(a) ==
  /\ At(a, "saved") /\ HasRow(edit[a].tok)
  /\ edit' = [edit EXCEPT ![a].step = "read", ![a].row = db[edit[a].tok]]
  /\ UNCHANGED <<mem, obj, dirty, db, flush, free, history>>

\* ... which fails, for a row that is gone or for the database's reasons, and
\* is only logged, ...
SyncReadFails(a) ==
  /\ At(a, "saved")
  /\ Leave(a)
  /\ LET left == {t \in {edit[a].tok} : HasRow(t)} IN
       torn' = torn \union left /\ strayed' = strayed \union left
  /\ UNCHANGED <<mem, obj, dirty, db, flush, free>>

\* ... takes the old object out of the memory ...
SyncRemove(a) ==
  /\ At(a, "read")
  /\ LET t == edit[a].tok IN
       /\ IF InMemory(t) THEN Remove(t) ELSE UNCHANGED vars
       /\ flush' = FlushAfter({t})
  /\ edit' = [edit EXCEPT ![a].step = "removed"]
  /\ UNCHANGED <<db, free, history>>

\* ... and puts the row read in, normalized.
AddRow(a) ==
  /\ LET t == edit[a].tok IN
       /\ mem' = [mem EXCEPT ![t] = Normalize(edit[a].row)]
       /\ obj' = [obj EXCEPT ![t] = InMemory(t) /\ ~@]
  /\ flush' = FlushAfter({edit[a].tok})
  /\ Finish(a)
  /\ UNCHANGED <<dirty, db, free>>

SyncAdd(a) == At(a, "removed") /\ AddRow(a)

\* Delete: the row, then the object.
DeleteRow(a, t) ==
  /\ HasRow(t)
  /\ Begin(a, t, "deleted", NoRow)
  /\ db' = [db EXCEPT ![t] = NoRow]
  /\ flush' = FlushAfter({t})
  /\ UNCHANGED <<mem, obj, dirty, free, history>>

DeleteRemove(a) ==
  /\ At(a, "deleted")
  /\ LET t == edit[a].tok IN
       /\ IF InMemory(t) THEN Remove(t) ELSE UNCHANGED vars
       /\ flush' = FlushAfter({t})
  /\ Finish(a)
  /\ UNCHANGED <<db, free>>

\* Import, per token: first the row that holds the same secret is deleted, be it
\* one of a token in memory, in a statement of its own whose result nobody reads;
CleanUp(a, t) ==
  /\ edit[a] = NoEdit /\ HasRow(t)
  /\ db' = [db EXCEPT ![t] = NoRow]
  /\ edit' = [b \in Admins |-> EditAfter(b, {t})]
  /\ flush' = FlushAfter({t})
  /\ torn' = torn \union {t}
  /\ UNCHANGED <<mem, obj, dirty, free, strayed>>

\* then a row with a new id is created, and the object.
CreateRow(a, t, v) ==
  /\ t \in free
  /\ Begin(a, t, "created", v)
  /\ db' = [db EXCEPT ![t] = v]
  /\ free' = free \ {t}
  /\ UNCHANGED <<mem, obj, dirty, flush, history>>

CreateAdd(a) == At(a, "created") /\ AddRow(a)
-----------------------------------------------------------------------------
\* The process ends at any point and starts again: LoadTokens.
Restart ==
  /\ mem' = Rows
  /\ dirty' = {}
  /\ obj' = [t \in Tokens |-> FALSE]
  /\ flush' = NoFlush
  /\ edit' = [a \in Admins |-> NoEdit]
  /\ torn' = {} /\ strayed' = {}
  /\ UNCHANGED <<db, free>>

AdminStep == \E a \in Admins :
  \/ \E t \in Tokens : UpdateGet(a, t) \/ DeleteRow(a, t) \/ CleanUp(a, t)
  \/ \E t \in Tokens, v \in Values : BatchUpdate(a, t, v) \/ CreateRow(a, t, v)
  \/ \E v \in Values : UpdateSave(a, v)
  \/ UpdateFails(a)
  \/ SyncRead(a) \/ SyncReadFails(a) \/ SyncRemove(a) \/ SyncAdd(a)
  \/ DeleteRemove(a) \/ CreateAdd(a)

FlushStep == GetDirtyTokens \/ FlushCommit \/ FlushFails \/ ClearDirty

PNext == \/ \E t \in Tokens : MarkOnly(t) \/ \E v \in Values : Work(t, v)
         \/ FlushStep
         \/ AdminStep
         \/ Restart

PSpec == PInit /\ [][PNext]_pvars

\* The persister's ticker runs for as long as the process does, and the database
\* does not fail for ever.
PFairSpec == PSpec /\ WF_pvars(GetDirtyTokens) /\ SF_pvars(FlushCommit)
                   /\ WF_pvars(ClearDirty)
-----------------------------------------------------------------------------
\* Nobody holds a copy of t that it has still to write.
Quiet(t) == /\ ~Flushing(t)
            /\ \A a \in Admins : edit[a] # NoEdit /\ edit[a].tok = t => At(a, "got")

\* The row has the columns of TokenSnapshot that the memory has, or those the
\* memory was loaded from.
Persisted(t) == mem[t].saved \in {db[t].saved, Lifted[db[t].saved]}

\* The memory and the table agree on every token whose last copy nobody
\* overlapped and whose row no import deleted: both have it or neither, and an
\* unmarked token's snapshot columns are persisted.  The place is the row's,
\* unless the row left it open, if the last reload went through.  So only an
\* overlap, a failed reload or a second import can lose an update; the next
\* undisturbed flush or reload repairs the columns, a reload the place.
Agreement == \A t \in Tokens : Quiet(t) =>
  /\ t \notin torn => /\ InMemory(t) <=> HasRow(t)
                      /\ InMemory(t) /\ t \notin dirty => Persisted(t)
  /\ t \notin strayed /\ InMemory(t) /\ HasRow(t) =>
       mem[t].place = db[t].place \/ db[t].place \in Open

\* What the comments of FlushDirty and SyncQuota promise: the pool and priority
\* that a sync assigned, and marked, are persisted when the mark is gone.
PlaceIsPersisted == \A t \in Tokens :
  Quiet(t) /\ t \notin strayed /\ InMemory(t) /\ HasRow(t) /\ t \notin dirty =>
    mem[t].place = db[t].place

\* What the comment of CreateToken says: the row an import cleans up is one that
\* was soft-deleted, so a token in memory keeps its row unless it is being
\* deleted.
NoOrphans == \A t \in Tokens : Quiet(t) /\ InMemory(t) => HasRow(t)

\* What the comments of FlushDirty promise: a token whose mark is gone has been
\* persisted.
CleanIsPersisted == \A t \in Tokens :
  Quiet(t) /\ InMemory(t) /\ HasRow(t) /\ t \notin dirty => Persisted(t)

\* A running flush that was not overlapped writes what the memory holds now in
\* the columns of TokenSnapshot, and its marks are still there: a failure loses
\* nothing.
FlushIsCurrent == \A t \in Tokens :
  Flushing(t) /\ t \notin flush.torn =>
    /\ InMemory(t) /\ mem[t].saved = flush.snap[t]
    /\ t \in dirty
    /\ flush.committed => HasRow(t) /\ db[t].saved = mem[t].saved

\* A marked token in memory does not stay marked for ever: a flush that failed
\* is repeated until one succeeds.
MarksAreFlushed == \A t \in Tokens :
  InMemory(t) /\ t \in dirty ~> ~InMemory(t) \/ t \notin dirty
=============================================================================
