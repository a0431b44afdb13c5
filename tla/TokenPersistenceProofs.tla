----------------------- MODULE TokenPersistenceProofs -----------------------
(***************************************************************************)
(* Proofs about TokenPersistence, for any tokens, values and admins.       *)
(*                                                                         *)
(* Agreement is not inductive: it speaks of tokens nobody holds a copy of. *)
(* The invariant says what a copy in somebody's hands is worth (Current,   *)
(* FlushIsCurrent), and weakens the agreement of memory and table as far   *)
(* as handlers and flush are still to make it good.                        *)
(***************************************************************************)
EXTENDS TokenPersistence, TLAPS

Editing(a, t) == edit[a] # NoEdit /\ edit[a].tok = t

\* An id the table has not handed out is nowhere.
FreeUnused(t) == t \in free =>
  /\ ~HasRow(t) /\ ~InMemory(t) /\ ~Flushing(t)
  /\ \A a \in Admins : ~Editing(a, t)

\* A handler nobody overlapped holds what the table has.
Current(a) ==
  edit[a] # NoEdit /\ ~edit[a].torn =>
    /\ edit[a].step \in Holding => db[edit[a].tok] = edit[a].row
    /\ edit[a].step = "deleted" => ~HasRow(edit[a].tok)

\* The flush has written an old copy over the row; its end makes the token torn.
Overwritten(t) == Flushing(t) /\ flush.committed /\ t \in flush.torn

Agrees(t) ==
  /\ InMemory(t) <=> HasRow(t)
  /\ InMemory(t) /\ t \notin dirty => Persisted(t) \/ Overwritten(t)

\* While no handler is in its window, a token without a row is not in memory; once
\* no handler has to reload it either, memory and table agree.
Settled(t) ==
  t \notin torn /\ (\A a \in Admins : ~Window(a, t)) =>
    /\ ~HasRow(t) => ~InMemory(t)
    /\ (\A a \in Admins : Editing(a, t) => edit[a].step # "saved") => Agrees(t)

\* The same of the place, which no flush writes.
Placed(t) == InMemory(t) /\ HasRow(t) => mem[t].place = db[t].place \/ db[t].place \in Open

PlaceSettled(t) ==
  /\ t \notin strayed
  /\ \A a \in Admins : ~Window(a, t)
  /\ \A a \in Admins : Editing(a, t) => edit[a].step # "saved"
  => Placed(t)

FlushCurrent(t) ==
  Flushing(t) /\ t \notin flush.torn =>
    /\ InMemory(t) /\ mem[t].saved = flush.snap[t]
    /\ t \in dirty
    /\ flush.committed => HasRow(t) /\ db[t].saved = mem[t].saved

Good(t) == FreeUnused(t) /\ FlushCurrent(t) /\ Settled(t) /\ PlaceSettled(t)

PInv ==
  /\ PTypeOK
  /\ \A t \in Tokens : Good(t)
  /\ \A a \in Admins : Current(a)

-----------------------------------------------------------------------------
(***************************************************************************)
(* What a step does to the copies in other hands.                          *)
(***************************************************************************)

\* NoFlush and NoEdit are no records.
LEMMA Absent == /\ NoFlush \notin Flush /\ NoEdit \notin Edit /\ NoRow \notin Values
                /\ NoToken \notin Values /\ NoToken \notin Columns
BY AbsentRowAssumption, NoTokenAssumption, ValueAssumption

\* A value has its two parts; normalizing it leaves the place alone, ...
LEMMA Parts ==
  ASSUME NEW v \in Values
  PROVE  /\ v.saved \in Columns /\ v.place \in Places
         /\ Normalize(v) \in Values /\ Normalize(v).saved = Lifted[v.saved]
         /\ Normalize(v).place = v.place
BY ValueAssumption DEF Normalize

\* ... and so does writing the columns of a snapshot over it.
LEMMA Rewritten ==
  ASSUME NEW v \in Values, NEW c \in Columns, NEW w, w = [v EXCEPT !.saved = c]
  PROVE  w \in Values /\ w.saved = c /\ w.place = v.place
BY ValueAssumption

\* What a handler has in its hands, and that a torn handler is still one.
LEMMA EditParts ==
  ASSUME NEW e \in Edit
  PROVE  /\ e.tok \in Tokens /\ e.step \in Bare \union Holding /\ e.torn \in BOOLEAN
         /\ e.step \in Bare => e.row = NoRow
         /\ e.step \in Holding => e.row \in Values
         /\ [e EXCEPT !.torn = TRUE] \in Edit
<1>1. CASE e \in [tok : Tokens, step : Bare, row : {NoRow}, torn : BOOLEAN]
  BY <1>1 DEF Edit, Bare, Holding
<1>2. CASE e \in [tok : Tokens, step : Holding, row : Values, torn : BOOLEAN]
  BY <1>2 DEF Edit, Bare, Holding
<1> QED
  BY <1>1, <1>2 DEF Edit

\* The two forms of what a handler may have in its hands.
LEMMA EditForms ==
  ASSUME NEW t \in Tokens, NEW step, NEW row, NEW b \in BOOLEAN,
         (step \in Bare /\ row = NoRow) \/ (step \in Holding /\ row \in Values)
  PROVE  [tok |-> t, step |-> step, row |-> row, torn |-> b] \in Edit
BY DEF Edit

\* The flush is the same, but torn on the tokens of S.
FlushTears(S) ==
  /\ flush' \in Flush \union {NoFlush}
  /\ flush' = NoFlush <=> flush = NoFlush
  /\ flush # NoFlush =>
       /\ flush'.snap = flush.snap /\ flush'.committed = flush.committed
       /\ flush'.torn = flush.torn \union {t \in S : flush.snap[t] # NoToken}

LEMMA FlushAfterTears ==
  ASSUME PTypeOK, NEW S \in SUBSET Tokens, flush' = FlushAfter(S)
  PROVE  FlushTears(S)
<1>1. CASE flush = NoFlush
  BY <1>1 DEF FlushAfter, FlushTears
<1>2. CASE flush # NoFlush
  <2>1. flush \in Flush
    BY <1>2 DEF PTypeOK
  <2>2. flush' = [flush EXCEPT !.torn = flush.torn \union {t \in S : flush.snap[t] # NoToken}]
    BY <1>2 DEF FlushAfter
  <2>3. flush' \in Flush
    BY <2>1, <2>2 DEF Flush
  <2> QED
    BY <1>2, <2>1, <2>2, <2>3, Absent DEF FlushTears, Flush
<1> QED
  BY <1>1, <1>2

\* Handler b is the same, but torn if it is in its window on a token of S.
EditTears(b, S) ==
  /\ edit'[b] \in Edit \union {NoEdit}
  /\ edit'[b] = NoEdit <=> edit[b] = NoEdit
  /\ edit[b] # NoEdit =>
       /\ edit'[b].tok = edit[b].tok /\ edit'[b].step = edit[b].step /\ edit'[b].row = edit[b].row
       /\ edit'[b].torn = (edit[b].torn \/ \E t \in S : Window(b, t))

LEMMA EditAfterTears ==
  ASSUME PTypeOK, NEW S \in SUBSET Tokens, NEW b \in Admins, edit'[b] = EditAfter(b, S)
  PROVE  EditTears(b, S)
<1>0. edit[b] \in Edit \union {NoEdit}
  BY DEF PTypeOK
<1>1. CASE ~ \E t \in S : Window(b, t)
  <2>1. edit'[b] = edit[b]
    BY <1>1 DEF EditAfter
  <2>2. edit[b] # NoEdit => edit[b].torn \in BOOLEAN
    BY <1>0, EditParts
  <2> QED
    BY <1>0, <1>1, <2>1, <2>2 DEF EditTears
<1>2. CASE \E t \in S : Window(b, t)
  <2>1. edit[b] \in Edit /\ edit[b] # NoEdit
    BY <1>0, <1>2 DEF Window
  <2>2. edit'[b] = [edit[b] EXCEPT !.torn = TRUE]
    BY <1>2 DEF EditAfter
  <2>3. edit'[b] \in Edit
    BY <2>1, <2>2, EditParts
  <2>4. edit'[b].torn = TRUE /\ edit'[b].tok = edit[b].tok /\ edit'[b].step = edit[b].step
        /\ edit'[b].row = edit[b].row
    BY <2>1, <2>2 DEF Edit
  <2> QED
    BY <1>2, <2>1, <2>3, <2>4, Absent DEF EditTears
<1> QED
  BY <1>1, <1>2

-----------------------------------------------------------------------------
(***************************************************************************)
(* Types.                                                                  *)
(***************************************************************************)

\* A handler that begins, and the others as they were or torn.
LEMMA BeginTyped ==
  ASSUME PTypeOK, NEW a \in Admins, NEW t \in Tokens, NEW step, NEW row,
         (step \in Bare /\ row = NoRow) \/ (step \in Holding /\ row \in Values),
         Begin(a, t, step, row)
  PROVE  /\ edit' \in [Admins -> Edit \union {NoEdit}]
         /\ edit[a] = NoEdit /\ edit'[a] = [tok |-> t, step |-> step, row |-> row, torn |-> FALSE]
         /\ edit'[a] \in Edit /\ edit'[a] # NoEdit
         /\ \A b \in Admins \ {a} : step # "got" => EditTears(b, {t})
         /\ \A b \in Admins \ {a} : step = "got" => edit'[b] = edit[b]
<1> DEFINE new == [tok |-> t, step |-> step, row |-> row, torn |-> FALSE]
<1>1. new \in Edit /\ new # NoEdit
  <2>1. new \in Edit
    BY EditForms
  <2> HIDE DEF new
  <2> QED
    BY <2>1, Absent
<1>2. /\ edit[a] = NoEdit
      /\ edit' = [b \in Admins |->
           IF b = a THEN new ELSE IF step = "got" THEN edit[b] ELSE EditAfter(b, {t})]
  BY DEF Begin
<1> HIDE DEF new
<1>3. edit'[a] = new
  BY <1>2
<1>4. ASSUME NEW b \in Admins \ {a}, step # "got" PROVE EditTears(b, {t})
  <2>1. edit'[b] = EditAfter(b, {t})
    BY <1>2, <1>4
  <2> QED
    BY <2>1, EditAfterTears
<1>5. ASSUME NEW b \in Admins \ {a}, step = "got" PROVE edit'[b] = edit[b]
  BY <1>2, <1>5
<1>6. ASSUME NEW b \in Admins PROVE edit'[b] \in Edit \union {NoEdit}
  BY <1>1, <1>3, <1>4, <1>5 DEF EditTears, PTypeOK
<1>7. edit' \in [Admins -> Edit \union {NoEdit}]
  BY <1>2, <1>6
<1> QED
  BY <1>1, <1>2, <1>3, <1>4, <1>5, <1>7 DEF new

\* What a handler that is under way has in its hands.
LEMMA AtTyped ==
  ASSUME PTypeOK, NEW a \in Admins, edit[a] # NoEdit
  PROVE  /\ edit[a] \in Edit /\ edit[a].tok \in Tokens
         /\ edit[a].step \in Holding => edit[a].row \in Values
         /\ edit[a].torn \in BOOLEAN /\ edit[a].step \in Bare \union Holding
<1>1. edit[a] \in Edit
  BY DEF PTypeOK
<1> QED
  BY <1>1, EditParts

LEMMA LeaveTyped ==
  ASSUME PTypeOK, NEW a \in Admins, Leave(a)
  PROVE  /\ edit' \in [Admins -> Edit \union {NoEdit}] /\ edit'[a] = NoEdit
         /\ \A b \in Admins \ {a} : edit'[b] = edit[b]
BY DEF PTypeOK, Leave

LEMMA FinishTyped ==
  ASSUME PTypeOK, NEW a \in Admins, Finish(a), edit[a] # NoEdit
  PROVE  /\ torn' \subseteq Tokens /\ strayed' \subseteq Tokens
         /\ \A u \in Tokens \ {edit[a].tok} : /\ u \in torn' <=> u \in torn
                                              /\ u \in strayed' <=> u \in strayed
         /\ edit[a].tok \in torn' <=> edit[a].torn
         /\ edit[a].tok \in strayed' <=> edit[a].torn
BY AtTyped DEF PTypeOK, Finish

\* One statement on one row, or one change of one object.
LEMMA OneRow ==
  ASSUME PTypeOK, NEW t \in Tokens, NEW v \in Values \union {NoRow}, db' = [db EXCEPT ![t] = v]
  PROVE  /\ db' \in [Tokens -> Values \union {NoRow}] /\ db'[t] = v
         /\ \A u \in Tokens \ {t} : db'[u] = db[u]
BY DEF PTypeOK

LEMMA OneObject ==
  ASSUME PTypeOK, NEW t \in Tokens, NEW v \in Values, mem' = [mem EXCEPT ![t] = v]
  PROVE  /\ mem' \in [Tokens -> Values \union {NoToken}] /\ mem'[t] = v
         /\ \A u \in Tokens \ {t} : mem'[u] = mem[u]
BY DEF PTypeOK, TypeOK

\* The object of t leaves the memory, or was not there.
Gone(t) ==
  /\ mem' \in [Tokens -> Values \union {NoToken}] /\ mem'[t] = NoToken
  /\ dirty' \subseteq Tokens /\ obj' \in [Tokens -> BOOLEAN]
  /\ \A u \in Tokens \ {t} : mem'[u] = mem[u] /\ (u \in dirty' <=> u \in dirty)

LEMMA RemoveGone ==
  ASSUME PTypeOK, NEW t \in Tokens, IF InMemory(t) THEN Remove(t) ELSE UNCHANGED vars
  PROVE  Gone(t)
<1>1. CASE InMemory(t)
  BY <1>1 DEF PTypeOK, TypeOK, Remove, Gone
<1>2. CASE ~InMemory(t)
  BY <1>2 DEF PTypeOK, TypeOK, InMemory, vars, Gone
<1> QED
  BY <1>1, <1>2

\* The row read becomes the object.
Loads(a) ==
  LET t == edit[a].tok IN
  /\ mem' \in [Tokens -> Values \union {NoToken}] /\ mem'[t] = Normalize(edit[a].row)
  /\ obj' \in [Tokens -> BOOLEAN]
  /\ \A u \in Tokens \ {t} : mem'[u] = mem[u]
  /\ FlushTears({t})
  /\ edit' \in [Admins -> Edit \union {NoEdit}] /\ edit'[a] = NoEdit
  /\ \A b \in Admins \ {a} : edit'[b] = edit[b]
  /\ torn' \subseteq Tokens /\ strayed' \subseteq Tokens
  /\ \A u \in Tokens \ {t} : (u \in torn' <=> u \in torn) /\ (u \in strayed' <=> u \in strayed)
  /\ (t \in torn' <=> edit[a].torn) /\ (t \in strayed' <=> edit[a].torn)
  /\ UNCHANGED <<dirty, db, free>>

LEMMA AddRowLoads ==
  ASSUME PTypeOK, NEW a \in Admins, edit[a] # NoEdit, edit[a].step \in Holding, AddRow(a)
  PROVE  Loads(a)
<1> DEFINE t == edit[a].tok
<1>1. t \in Tokens /\ edit[a].row \in Values
  BY AtTyped
<1>v. Normalize(edit[a].row) \in Values
  BY <1>1, Parts
<1> HIDE DEF t
<1>2. /\ mem' = [mem EXCEPT ![t] = Normalize(edit[a].row)]
      /\ obj' = [obj EXCEPT ![t] = InMemory(t) /\ ~obj[t]]
      /\ flush' = FlushAfter({t}) /\ Finish(a) /\ UNCHANGED <<dirty, db, free>>
  BY DEF AddRow, t
<1>3. FlushTears({t})
  BY <1>1, <1>2, FlushAfterTears
<1>4. /\ mem' \in [Tokens -> Values \union {NoToken}] /\ mem'[t] = Normalize(edit[a].row)
      /\ \A u \in Tokens \ {t} : mem'[u] = mem[u]
  BY <1>1, <1>v, <1>2, OneObject
<1>5. obj' \in [Tokens -> BOOLEAN]
  BY <1>1, <1>2 DEF PTypeOK, TypeOK
<1>6. /\ edit' \in [Admins -> Edit \union {NoEdit}] /\ edit'[a] = NoEdit
      /\ \A b \in Admins \ {a} : edit'[b] = edit[b]
  BY <1>2, LeaveTyped DEF Finish
<1>7. /\ torn' \subseteq Tokens /\ strayed' \subseteq Tokens
      /\ \A u \in Tokens \ {t} : (u \in torn' <=> u \in torn) /\ (u \in strayed' <=> u \in strayed)
      /\ (t \in torn' <=> edit[a].torn) /\ (t \in strayed' <=> edit[a].torn)
  BY <1>2, FinishTyped DEF t
<1> QED
  BY <1>2, <1>3, <1>4, <1>5, <1>6, <1>7 DEF Loads, t

-----------------------------------------------------------------------------
(***************************************************************************)
(* Frames: the tokens and the handlers that a step is not about.           *)
(***************************************************************************)

SameFlush(t) ==
  /\ Flushing(t)' <=> Flushing(t)
  /\ Flushing(t) =>
       /\ flush'.snap[t] = flush.snap[t] /\ flush'.committed = flush.committed
       /\ t \in flush'.torn <=> t \in flush.torn

SameEdits(t) ==
  \A b \in Admins :
    /\ Editing(b, t)' <=> Editing(b, t)
    /\ Editing(b, t) => edit'[b].step = edit[b].step

Untouched(t) ==
  /\ mem'[t] = mem[t] /\ db'[t] = db[t]
  /\ t \in dirty' <=> t \in dirty
  /\ t \in torn' <=> t \in torn
  /\ t \in strayed' <=> t \in strayed
  /\ t \in free' => t \in free
  /\ SameFlush(t) /\ SameEdits(t)

LEMMA SameWindows ==
  ASSUME NEW t \in Tokens, SameEdits(t)
  PROVE  \A b \in Admins : Window(b, t)' <=> Window(b, t)
BY DEF SameEdits, Window, Editing

LEMMA UntouchedGood ==
  ASSUME NEW t \in Tokens, Good(t), Untouched(t)
  PROVE  Good(t)'
<1>1. /\ mem'[t] = mem[t] /\ db'[t] = db[t]
      /\ t \in dirty' <=> t \in dirty
      /\ t \in torn' <=> t \in torn
      /\ t \in strayed' <=> t \in strayed
      /\ t \in free' => t \in free
  BY DEF Untouched
<1>2. (HasRow(t)' <=> HasRow(t)) /\ (InMemory(t)' <=> InMemory(t))
  BY <1>1 DEF HasRow, InMemory
<1>3. SameFlush(t) /\ SameEdits(t)
  BY DEF Untouched
<1>4. FreeUnused(t)'
  BY <1>1, <1>2, <1>3 DEF Good, FreeUnused, SameFlush, SameEdits
<1>5. FlushCurrent(t)'
  BY <1>1, <1>2, <1>3 DEF Good, FlushCurrent, SameFlush
<1>6. Overwritten(t)' <=> Overwritten(t)
  BY <1>3 DEF Overwritten, SameFlush
<1>7. (Agrees(t)' <=> Agrees(t)) /\ (Placed(t)' <=> Placed(t))
  BY <1>1, <1>2, <1>6 DEF Agrees, Persisted, Placed
<1>8. Settled(t)' /\ PlaceSettled(t)'
  <2>1. \A b \in Admins : Window(b, t)' <=> Window(b, t)
    BY <1>3, SameWindows
  <2>2. \A b \in Admins : (Editing(b, t)' => edit'[b].step # "saved")
                            <=> (Editing(b, t) => edit[b].step # "saved")
    BY <1>3 DEF SameEdits
  <2> QED
    BY <2>1, <2>2, <1>1, <1>2, <1>7 DEF Good, Settled, PlaceSettled
<1> QED
  BY <1>4, <1>5, <1>8 DEF Good

LEMMA TearsSameFlush ==
  ASSUME PTypeOK, NEW S \in SUBSET Tokens, FlushTears(S), NEW t \in Tokens
  PROVE  /\ Flushing(t)' <=> Flushing(t)
         /\ t \notin S => SameFlush(t)
         /\ t \in S /\ Flushing(t) => t \in flush'.torn
         /\ Flushing(t) => flush'.snap[t] = flush.snap[t] /\ flush'.committed = flush.committed
BY DEF FlushTears, Flushing, SameFlush

LEMMA SameFlushes == ASSUME UNCHANGED flush, NEW t \in Tokens PROVE SameFlush(t)
BY DEF SameFlush, Flushing

LEMMA TearsSameEdit ==
  ASSUME NEW S, NEW b \in Admins, EditTears(b, S), NEW t \in Tokens
  PROVE  /\ Editing(b, t)' <=> Editing(b, t)
         /\ Editing(b, t) => edit'[b].step = edit[b].step
BY DEF EditTears, Editing

LEMMA UnchangedTears ==
  ASSUME PTypeOK, NEW b \in Admins, edit'[b] = edit[b]
  PROVE  EditTears(b, {})
BY AtTyped DEF PTypeOK, EditTears

LEMMA CurrentKept ==
  ASSUME PTypeOK, NEW S \in SUBSET Tokens, NEW b \in Admins, Current(b), EditTears(b, S),
         \A u \in Tokens \ S : db'[u] = db[u]
  PROVE  Current(b)'
<1> SUFFICES ASSUME edit'[b] # NoEdit, ~edit'[b].torn
             PROVE /\ edit'[b].step \in Holding => db'[edit'[b].tok] = edit'[b].row
                   /\ edit'[b].step = "deleted" => db'[edit'[b].tok] = NoRow
  BY DEF Current, HasRow
<1>1. /\ edit[b] # NoEdit /\ edit'[b].tok = edit[b].tok /\ edit'[b].step = edit[b].step
      /\ edit'[b].row = edit[b].row /\ edit[b].tok \in Tokens
      /\ ~edit[b].torn /\ ~ \E t \in S : Window(b, t)
  BY AtTyped DEF EditTears
<1>2. CASE edit[b].tok \in S
  <2>1. edit[b].step \notin {"read", "removed", "deleted", "created"}
    BY <1>1, <1>2 DEF Window
  <2> QED
    BY <2>1, <1>1 DEF Holding
<1>3. CASE edit[b].tok \notin S
  <2>1. db'[edit[b].tok] = db[edit[b].tok]
    BY <1>1, <1>3
  <2>2. /\ edit[b].step \in Holding => db[edit[b].tok] = edit[b].row
        /\ edit[b].step = "deleted" => ~HasRow(edit[b].tok)
    BY <1>1 DEF Current
  <2> QED
    BY <2>1, <2>2, <1>1 DEF HasRow
<1> QED
  BY <1>2, <1>3

\* The steps of the manager and of the flush leave the handlers alone.
LEMMA EditsSame ==
  ASSUME PTypeOK, UNCHANGED edit
  PROVE  \A t \in Tokens : SameEdits(t)
BY DEF SameEdits, Editing

-----------------------------------------------------------------------------
(***************************************************************************)
(* The manager and the flush.                                              *)
(***************************************************************************)

LEMMA WorkKeeps ==
  ASSUME PInv, NEW t \in Tokens, NEW v \in Values, Work(t, v) PROVE PInv'
<1> USE DEF PInv
<1>1. /\ InMemory(t) /\ mem' = [mem EXCEPT ![t] = v] /\ dirty' = dirty \union {t}
      /\ v.place # mem[t].place => mem[t].place \in Open
      /\ UNCHANGED <<obj, db, edit, free, torn, strayed>>
      /\ FlushTears({t})
  BY FlushAfterTears DEF Work, history
<1>2. /\ mem' \in [Tokens -> Values \union {NoToken}] /\ mem'[t] = v
      /\ \A u \in Tokens \ {t} : mem'[u] = mem[u]
  BY <1>1, OneObject
<1>3. PTypeOK'
  BY <1>1, <1>2 DEF PTypeOK, TypeOK, FlushTears
<1>4. \A b \in Admins : Current(b)'
  BY <1>1, UnchangedTears, CurrentKept
<1>5. ASSUME NEW u \in Tokens, u # t PROVE Good(u)'
  <2>1. SameFlush(u) /\ SameEdits(u)
    BY <1>1, <1>5, TearsSameFlush, EditsSame
  <2> QED
    BY <2>1, <1>1, <1>2, <1>5, UntouchedGood DEF Untouched
<1>6. Good(t)'
  <2>1. SameEdits(t) /\ (Flushing(t)' => t \in flush'.torn)
    BY <1>1, TearsSameFlush, EditsSame
  <2>2. InMemory(t)' /\ t \in dirty' /\ (HasRow(t)' <=> HasRow(t))
    BY <1>1, <1>2, Absent DEF InMemory, HasRow
  <2>3. FreeUnused(t)' /\ FlushCurrent(t)'
    BY <2>1, <1>1 DEF Good, FreeUnused, FlushCurrent
  <2>4. Settled(t)'
    BY <2>1, <2>2, <1>1, SameWindows DEF Good, Settled, Agrees, SameEdits
  <2>5. Placed(t) => Placed(t)'
    BY <2>2, <1>1, <1>2 DEF Placed
  <2>6. PlaceSettled(t)'
    BY <2>1, <2>5, <1>1, SameWindows DEF Good, PlaceSettled, SameEdits
  <2> QED
    BY <2>3, <2>4, <2>6 DEF Good
<1> QED
  BY <1>3, <1>4, <1>5, <1>6

LEMMA MarkOnlyKeeps ==
  ASSUME PInv, NEW t \in Tokens, MarkOnly(t) PROVE PInv'
<1> USE DEF PInv
<1>1. dirty' = dirty \union {t} /\ UNCHANGED <<mem, obj, db, flush, edit, free, torn, strayed>>
  BY DEF MarkOnly, history
<1>2. PTypeOK' /\ \A b \in Admins : Current(b)'
  BY <1>1, UnchangedTears, CurrentKept DEF PTypeOK, TypeOK
<1>3. ASSUME NEW u \in Tokens PROVE Good(u)'
  BY <1>1 DEF Good, FreeUnused, FlushCurrent, Settled, PlaceSettled, Agrees, Persisted, Placed,
     Overwritten, Flushing, Editing, Window, HasRow, InMemory
<1> QED
  BY <1>2, <1>3

LEMMA GetDirtyKeeps ==
  ASSUME PInv, GetDirtyTokens PROVE PInv'
<1> USE DEF PInv
<1> DEFINE new == [snap |-> [t \in Tokens |-> IF t \in dirty /\ InMemory(t) THEN mem[t].saved ELSE NoToken],
                   committed |-> FALSE, torn |-> {}]
<1>1. flush = NoFlush /\ flush' = new /\ UNCHANGED <<mem, obj, dirty, db, edit, free, torn, strayed>>
  BY DEF GetDirtyTokens, history
<1>2. new \in Flush
  <2>1. \A u \in Tokens : InMemory(u) => mem[u].saved \in Columns
    BY Parts DEF PTypeOK, TypeOK, InMemory
  <2> QED
    BY <2>1 DEF Flush
<1>3. /\ \A u \in Tokens :
            flush'.snap[u] = IF u \in dirty /\ InMemory(u) THEN mem[u].saved ELSE NoToken
      /\ flush'.committed = FALSE /\ flush'.torn = {}
  BY <1>1
<1> HIDE DEF new
<1>4. PTypeOK' /\ \A b \in Admins : Current(b)'
  BY <1>1, <1>2, UnchangedTears, CurrentKept DEF PTypeOK, TypeOK
<1>5. ASSUME NEW u \in Tokens PROVE Good(u)'
  <2>1. ~Flushing(u) /\ ~Overwritten(u) /\ ~Overwritten(u)'
    BY <1>1, <1>3 DEF Flushing, Overwritten
  <2>2. FreeUnused(u)'
    BY <1>1, <1>3 DEF Good, FreeUnused, Flushing, HasRow, InMemory, Editing
  <2>3. FlushCurrent(u)'
    BY <1>1, <1>3 DEF FlushCurrent, Flushing, InMemory
  <2>4. Settled(u)' /\ PlaceSettled(u)'
    BY <1>1, <2>1 DEF Good, Settled, PlaceSettled, Agrees, Persisted, Placed, HasRow, InMemory,
       Editing, Window
  <2> QED
    BY <2>2, <2>3, <2>4 DEF Good
<1> QED
  BY <1>4, <1>5

LEMMA FlushFailsKeeps ==
  ASSUME PInv, FlushFails PROVE PInv'
<1> USE DEF PInv
<1>1. flush # NoFlush /\ ~flush.committed /\ flush' = NoFlush
      /\ UNCHANGED <<mem, obj, dirty, db, edit, free, torn, strayed>>
  BY DEF FlushFails, history
<1>2. PTypeOK' /\ \A b \in Admins : Current(b)'
  BY <1>1, UnchangedTears, CurrentKept DEF PTypeOK, TypeOK
<1>3. ASSUME NEW u \in Tokens PROVE Good(u)'
  BY <1>1 DEF Good, FreeUnused, FlushCurrent, Settled, PlaceSettled, Agrees, Persisted, Placed,
     Overwritten, Flushing, Editing, Window, HasRow, InMemory
<1> QED
  BY <1>2, <1>3

LEMMA FlushCommitKeeps ==
  ASSUME PInv, FlushCommit PROVE PInv'
<1> USE DEF PInv
<1> DEFINE written == {t \in Tokens : Flushing(t) /\ HasRow(t)}
           missing == {t \in Tokens : Flushing(t) /\ ~HasRow(t)}
<1>1. /\ flush # NoFlush /\ ~flush.committed
      /\ db' = [t \in Tokens |->
                  IF t \in written THEN [db[t] EXCEPT !.saved = flush.snap[t]] ELSE db[t]]
      /\ flush' = [flush EXCEPT !.committed = TRUE, !.torn = flush.torn \union missing]
      /\ edit' = [b \in Admins |-> EditAfter(b, written)]
      /\ UNCHANGED <<mem, obj, dirty, free, torn, strayed>>
  BY DEF FlushCommit, history
<1>2. /\ flush' \in Flush /\ flush' # NoFlush /\ flush'.snap = flush.snap
      /\ flush'.committed = TRUE /\ flush'.torn = flush.torn \union missing
  <2>1. flush \in Flush
    BY <1>1 DEF PTypeOK
  <2>2. flush' \in Flush /\ flush'.snap = flush.snap
        /\ flush'.committed = TRUE /\ flush'.torn = flush.torn \union missing
    BY <2>1, <1>1 DEF Flush
  <2> QED
    BY <2>2, Absent
<1>3. \A b \in Admins : EditTears(b, written)
  BY <1>1, EditAfterTears
<1>4. \A u \in Tokens : /\ u \in written => /\ db'[u] \in Values /\ db'[u].saved = flush.snap[u]
                                            /\ db'[u].place = db[u].place
                        /\ u \notin written => db'[u] = db[u]
  <2>1. \A u \in written : db[u] \in Values /\ flush.snap[u] \in Columns
    BY <1>1 DEF PTypeOK, Flush, Flushing, HasRow
  <2>2. /\ \A u \in written : db'[u] = [db[u] EXCEPT !.saved = flush.snap[u]]
        /\ \A u \in Tokens : u \notin written => db'[u] = db[u]
    BY <1>1
  <2>3. ASSUME NEW u \in written
        PROVE  db'[u] \in Values /\ db'[u].saved = flush.snap[u] /\ db'[u].place = db[u].place
    <3>1. /\ db[u] \in Values /\ flush.snap[u] \in Columns
          /\ db'[u] = [db[u] EXCEPT !.saved = flush.snap[u]]
      BY <2>1, <2>2, <2>3
    <3> QED
      BY <3>1, Rewritten
  <2> HIDE DEF written
  <2> QED
    BY <2>2, <2>3
<1>5. PTypeOK'
  <2>1. db' \in [Tokens -> Values \union {NoRow}]
    <3>1. db' = [u \in Tokens |-> db'[u]] /\ \A u \in Tokens : db[u] \in Values \union {NoRow}
      BY <1>1 DEF PTypeOK
    <3> QED
      BY <3>1, <1>4
  <2>2. edit' \in [Admins -> Edit \union {NoEdit}]
    BY <1>1, <1>3 DEF EditTears
  <2> QED
    BY <2>1, <2>2, <1>1, <1>2 DEF PTypeOK, TypeOK
<1>6. \A b \in Admins : Current(b)'
  BY <1>3, <1>4, CurrentKept
<1>7. ASSUME NEW u \in Tokens PROVE Good(u)'
  <2>1. /\ SameEdits(u) /\ (HasRow(u)' <=> HasRow(u)) /\ (InMemory(u)' <=> InMemory(u))
        /\ Flushing(u)' <=> Flushing(u)
    <3>1. SameEdits(u)
      BY <1>3, TearsSameEdit DEF SameEdits
    <3>2. HasRow(u)' <=> HasRow(u)
      BY <1>4, Absent DEF HasRow, Flushing
    <3> QED
      BY <3>1, <3>2, <1>1, <1>2 DEF InMemory, Flushing
  <2>2. FreeUnused(u)'
    BY <2>1, <1>1 DEF Good, FreeUnused, SameEdits
  <2>3. FlushCurrent(u)'
    <3>1. ASSUME Flushing(u), u \notin flush'.torn
          PROVE  HasRow(u) /\ u \notin flush.torn
      BY <3>1, <1>2
    <3> QED
      BY <3>1, <2>1, <1>1, <1>2, <1>4 DEF Good, FlushCurrent, InMemory
  <2>4. Agrees(u) => Agrees(u)'
    <3>1. CASE ~Flushing(u)
      <4>1. db'[u] = db[u] /\ ~Overwritten(u)
        BY <3>1, <1>4 DEF Overwritten
      <4> QED
        BY <4>1, <2>1, <1>1 DEF Agrees, Persisted
    <3>2. CASE Flushing(u)
      <4>1. u \in flush'.torn => Overwritten(u)'
        BY <3>2, <2>1, <1>2 DEF Overwritten
      <4>2. u \notin flush'.torn => u \in dirty
        BY <3>2, <2>1, <2>3, <1>1 DEF FlushCurrent
      <4> QED
        BY <4>1, <4>2, <2>1, <1>1 DEF Agrees
    <3> QED
      BY <3>1, <3>2
  <2>5. Placed(u) => Placed(u)'
    BY <2>1, <1>1, <1>4 DEF Placed
  <2>6. Settled(u)' /\ PlaceSettled(u)'
    BY <2>1, <2>4, <2>5, <1>1, SameWindows DEF Good, Settled, PlaceSettled, SameEdits
  <2> QED
    BY <2>2, <2>3, <2>6 DEF Good
<1> QED
  BY <1>5, <1>6, <1>7

LEMMA ClearDirtyKeeps ==
  ASSUME PInv, ClearDirty PROVE PInv'
<1> USE DEF PInv
<1> DEFINE ids == {t \in Tokens : Flushing(t)}
<1>1. /\ flush # NoFlush /\ flush.committed /\ flush' = NoFlush
      /\ dirty' = dirty \ ids /\ torn' = (torn \ ids) \union flush.torn
      /\ UNCHANGED <<mem, obj, db, edit, free, strayed>>
  BY DEF ClearDirty, Clear
<1>2. PTypeOK' /\ \A b \in Admins : Current(b)'
  <2>1. flush.torn \subseteq Tokens
    BY <1>1 DEF PTypeOK, Flush
  <2> QED
    BY <2>1, <1>1, UnchangedTears, CurrentKept DEF PTypeOK, TypeOK
<1>3. ASSUME NEW u \in Tokens PROVE Good(u)'
  <2>1. /\ SameEdits(u) /\ (HasRow(u)' <=> HasRow(u)) /\ (InMemory(u)' <=> InMemory(u))
        /\ ~Flushing(u)'
    BY <1>1, EditsSame DEF HasRow, InMemory, Flushing
  <2>2. FreeUnused(u)' /\ FlushCurrent(u)'
    BY <2>1, <1>1 DEF Good, FreeUnused, FlushCurrent, SameEdits
  <2>p. PlaceSettled(u)'
    BY <2>1, <1>1, SameWindows DEF Good, PlaceSettled, Placed, SameEdits
  <2>3. CASE u \in flush.torn
    BY <2>2, <2>p, <2>3, <1>1 DEF Good, Settled
  <2>4. CASE Flushing(u) /\ u \notin flush.torn
    <3>1. InMemory(u) /\ HasRow(u) /\ mem[u].saved = db[u].saved
      BY <2>4, <1>1 DEF Good, FlushCurrent
    <3> QED
      BY <3>1, <2>1, <2>2, <2>p, <1>1 DEF Good, Settled, Agrees, Persisted
  <2>5. CASE ~Flushing(u) /\ u \notin flush.torn
    <3>1. ~Overwritten(u) /\ (u \in dirty' <=> u \in dirty) /\ (u \in torn' <=> u \in torn)
      BY <2>5, <1>1 DEF Overwritten
    <3>2. Agrees(u) => Agrees(u)'
      BY <3>1, <2>1, <1>1 DEF Agrees, Persisted
    <3> QED
      BY <3>1, <3>2, <2>1, <2>2, <2>p, SameWindows DEF Good, Settled, SameEdits
  <2> QED
    BY <2>3, <2>4, <2>5
<1> QED
  BY <1>2, <1>3

-----------------------------------------------------------------------------
(***************************************************************************)
(* The handlers.                                                           *)
(***************************************************************************)

\* A handler that begins disturbs no other token.
LEMMA BeginSame ==
  ASSUME PTypeOK, NEW a \in Admins, NEW t \in Tokens, edit[a] = NoEdit, edit'[a] # NoEdit,
         edit'[a].tok = t, \A b \in Admins \ {a} : EditTears(b, {t}) \/ edit'[b] = edit[b]
  PROVE  /\ \A u \in Tokens \ {t} : SameEdits(u)
         /\ \A b \in Admins \ {a} : Editing(b, t)' <=> Editing(b, t)
         /\ \A b \in Admins \ {a} : Editing(b, t) => edit'[b].step = edit[b].step
BY TearsSameEdit, UnchangedTears DEF SameEdits, Editing

\* A step of a handler under way disturbs no other token.
LEMMA StepSame ==
  ASSUME PTypeOK, NEW a \in Admins, NEW t \in Tokens, edit[a] # NoEdit, edit[a].tok = t,
         edit'[a] # NoEdit => edit'[a].tok = t,
         \A b \in Admins \ {a} : EditTears(b, {t}) \/ edit'[b] = edit[b]
  PROVE  /\ \A u \in Tokens \ {t} : SameEdits(u)
         /\ \A b \in Admins \ {a} : Editing(b, t)' <=> Editing(b, t)
         /\ \A b \in Admins \ {a} : Editing(b, t) => edit'[b].step = edit[b].step
BY TearsSameEdit, UnchangedTears DEF SameEdits, Editing

LEMMA UpdateGetKeeps ==
  ASSUME PInv, NEW a \in Admins, NEW t \in Tokens, UpdateGet(a, t) PROVE PInv'
<1> USE DEF PInv
<1>1. HasRow(t) /\ Begin(a, t, "got", NoRow)
      /\ UNCHANGED <<mem, obj, dirty, db, flush, free, torn, strayed>>
  BY DEF UpdateGet, history
<1>2. "got" \in Bare
  BY DEF Bare
<1>3. /\ edit' \in [Admins -> Edit \union {NoEdit}] /\ edit[a] = NoEdit
      /\ edit'[a] = [tok |-> t, step |-> "got", row |-> NoRow, torn |-> FALSE] /\ edit'[a] # NoEdit
      /\ \A b \in Admins \ {a} : edit'[b] = edit[b]
  BY <1>1, <1>2, BeginTyped
<1>4. edit'[a].tok = t /\ edit'[a].step = "got"
  BY <1>3
<1>5. /\ \A u \in Tokens \ {t} : SameEdits(u)
      /\ \A b \in Admins \ {a} : Editing(b, t)' <=> Editing(b, t)
      /\ \A b \in Admins \ {a} : Editing(b, t) => edit'[b].step = edit[b].step
  BY <1>3, <1>4, BeginSame
<1>6. PTypeOK'
  BY <1>1, <1>3 DEF PTypeOK, TypeOK
<1>7. ASSUME NEW b \in Admins PROVE Current(b)'
  BY <1>1, <1>3, <1>4, UnchangedTears, CurrentKept DEF Current, Holding
<1>8. ASSUME NEW u \in Tokens, u # t PROVE Good(u)'
  BY <1>1, <1>5, <1>8, SameFlushes, UntouchedGood DEF Untouched
<1>9. Good(t)'
  <2>1. (\A b \in Admins : Window(b, t)' <=> Window(b, t)) /\ ~Editing(a, t)
    BY <1>3, <1>4, <1>5 DEF Window, Editing
  <2>2. FreeUnused(t)' /\ FlushCurrent(t)'
    BY <1>1 DEF Good, FreeUnused, FlushCurrent, Flushing, InMemory, HasRow
  <2>3. (Agrees(t)' <=> Agrees(t)) /\ (Placed(t)' <=> Placed(t))
    BY <1>1 DEF Agrees, Persisted, Placed, Overwritten, Flushing, InMemory, HasRow
  <2>4. Settled(t)' /\ PlaceSettled(t)'
    BY <2>1, <2>3, <1>1, <1>4, <1>5 DEF Good, Settled, PlaceSettled, HasRow, InMemory, Editing
  <2> QED
    BY <2>2, <2>4 DEF Good
<1> QED
  BY <1>6, <1>7, <1>8, <1>9

LEMMA UpdateSaveKeeps ==
  ASSUME PInv, NEW a \in Admins, NEW v \in Values, UpdateSave(a, v) PROVE PInv'
<1> USE DEF PInv
<1>0. edit[a] # NoEdit /\ edit[a] \in Edit /\ edit[a].tok \in Tokens
  BY AtTyped DEF UpdateSave, At
<1>t. PICK t \in Tokens : t = edit[a].tok
  BY <1>0
<1>1. edit[a] # NoEdit /\ t = edit[a].tok /\ edit[a] \in Edit
  BY <1>0, <1>t
<1>2. /\ db' = [db EXCEPT ![t] = v] /\ flush' = FlushAfter({t})
      /\ edit' = [b \in Admins |-> IF b = a THEN [edit[a] EXCEPT !.step = "saved"]
                                            ELSE EditAfter(b, {t})]
      /\ UNCHANGED <<mem, obj, dirty, free, torn, strayed>>
  BY <1>t DEF UpdateSave, history
<1>3. /\ edit'[a] \in Edit /\ edit'[a] # NoEdit /\ edit'[a].tok = t /\ edit'[a].step = "saved"
  <2>1. edit'[a] = [edit[a] EXCEPT !.step = "saved"]
    BY <1>2
  <2>2. edit[a] \in [tok : Tokens, step : Bare, row : {NoRow}, torn : BOOLEAN]
    BY <1>1 DEF UpdateSave, At, Edit, Bare, Holding
  <2>3. edit'[a] \in Edit /\ edit'[a].tok = t /\ edit'[a].step = "saved"
    BY <2>1, <2>2, <1>1 DEF Edit, Bare
  <2> QED
    BY <2>3, Absent
<1>4. \A b \in Admins \ {a} : EditTears(b, {t})
  BY <1>1, <1>2, EditAfterTears
<1>5. /\ \A u \in Tokens \ {t} : SameEdits(u)
  BY <1>1, <1>3, <1>4, StepSame
<1>6. FlushTears({t})
  BY <1>1, <1>2, FlushAfterTears
<1>7. /\ db' \in [Tokens -> Values \union {NoRow}] /\ db'[t] = v
      /\ \A u \in Tokens \ {t} : db'[u] = db[u]
  BY <1>1, <1>2, OneRow
<1>8. PTypeOK'
  <2>1. edit' \in [Admins -> Edit \union {NoEdit}]
    BY <1>2, <1>3, <1>4 DEF EditTears
  <2> QED
    BY <2>1, <1>2, <1>6, <1>7 DEF PTypeOK, TypeOK, FlushTears
<1>9. ASSUME NEW b \in Admins PROVE Current(b)'
  <2>1. CASE b = a
    BY <2>1, <1>3 DEF Current, Holding
  <2>2. CASE b # a
    BY <2>2, <1>1, <1>4, <1>7, CurrentKept
  <2> QED
    BY <2>1, <2>2
<1>10. ASSUME NEW u \in Tokens, u # t PROVE Good(u)'
  BY <1>1, <1>2, <1>5, <1>6, <1>7, <1>10, TearsSameFlush, UntouchedGood DEF Untouched
<1>11. Good(t)'
  <2>1. FreeUnused(t)' /\ FlushCurrent(t)'
    BY <1>1, <1>2, <1>6, TearsSameFlush DEF Good, FreeUnused, FlushCurrent, Editing
  <2>2. HasRow(t)' /\ Editing(a, t)'
    BY <1>3, <1>7, Absent DEF HasRow, Editing
  <2>3. Settled(t)' /\ PlaceSettled(t)'
    BY <2>2, <1>3 DEF Settled, PlaceSettled
  <2> QED
    BY <2>1, <2>3 DEF Good
<1> QED
  BY <1>1, <1>8, <1>9, <1>10, <1>11

LEMMA UpdateFailsKeeps ==
  ASSUME PInv, NEW a \in Admins, UpdateFails(a) PROVE PInv'
<1> USE DEF PInv
<1> DEFINE t == edit[a].tok
<1>1. edit[a] # NoEdit /\ t \in Tokens /\ edit[a].step = "got"
  BY AtTyped DEF UpdateFails, At
<1>2. /\ edit' \in [Admins -> Edit \union {NoEdit}] /\ edit'[a] = NoEdit
      /\ \A b \in Admins \ {a} : edit'[b] = edit[b]
      /\ UNCHANGED <<mem, obj, dirty, db, flush, free, torn, strayed>>
  BY LeaveTyped DEF UpdateFails, history
<1>3. PTypeOK'
  BY <1>2 DEF PTypeOK, TypeOK
<1>4. ASSUME NEW b \in Admins PROVE Current(b)'
  BY <1>2, UnchangedTears, CurrentKept DEF Current
<1>5. ASSUME NEW u \in Tokens PROVE Good(u)'
  <2>1. /\ \A b \in Admins : Window(b, u)' <=> Window(b, u)
        /\ \A b \in Admins : (Editing(b, u)' => edit'[b].step # "saved")
                               <=> (Editing(b, u) => edit[b].step # "saved")
        /\ \A b \in Admins : Editing(b, u)' => Editing(b, u)
    BY <1>1, <1>2 DEF Window, Editing
  <2>2. FreeUnused(u)' /\ FlushCurrent(u)'
    BY <2>1, <1>2 DEF Good, FreeUnused, FlushCurrent, Flushing, HasRow, InMemory
  <2>3. (Agrees(u)' <=> Agrees(u)) /\ (Placed(u)' <=> Placed(u))
    BY <1>2 DEF Agrees, Persisted, Placed, Overwritten, Flushing, InMemory, HasRow
  <2>4. Settled(u)' /\ PlaceSettled(u)'
    BY <2>1, <2>3, <1>2 DEF Good, Settled, PlaceSettled, HasRow, InMemory
  <2> QED
    BY <2>2, <2>4 DEF Good
<1> QED
  BY <1>3, <1>4, <1>5

\* A handler that begins with a statement on the row.
Writes(a, t, step, row, v) ==
  /\ Begin(a, t, step, row) /\ db' = [db EXCEPT ![t] = v]
  /\ (step \in Bare \ {"got"} /\ row = NoRow) \/ (step \in Holding /\ row \in Values)
  /\ step \in Holding => v = row
  /\ step = "deleted" => v = NoRow
  /\ step = "saved" => v # NoRow
  /\ FlushTears({t}) \/ (UNCHANGED flush /\ ~Flushing(t))
  /\ free' \subseteq free /\ t \notin free'
  /\ UNCHANGED <<mem, obj, dirty, torn, strayed>>

LEMMA BeginWrites ==
  ASSUME PInv, NEW a \in Admins, NEW t \in Tokens, NEW step, NEW row,
         NEW v \in Values \union {NoRow}, Writes(a, t, step, row, v)
  PROVE  PInv'
<1> USE DEF PInv
<1>0. /\ Begin(a, t, step, row) /\ db' = [db EXCEPT ![t] = v]
      /\ (step \in Bare \ {"got"} /\ row = NoRow) \/ (step \in Holding /\ row \in Values)
      /\ step \in Holding => v = row
      /\ step = "deleted" => v = NoRow
      /\ step = "saved" => v # NoRow
      /\ FlushTears({t}) \/ (UNCHANGED flush /\ ~Flushing(t))
      /\ free' \subseteq free /\ t \notin free'
      /\ UNCHANGED <<mem, obj, dirty, torn, strayed>>
  BY DEF Writes
<1>1. /\ edit' \in [Admins -> Edit \union {NoEdit}] /\ edit[a] = NoEdit
      /\ edit'[a] = [tok |-> t, step |-> step, row |-> row, torn |-> FALSE] /\ edit'[a] # NoEdit
      /\ \A b \in Admins \ {a} : EditTears(b, {t})
  <2>1. step # "got"
    BY <1>0 DEF Holding
  <2> QED
    BY <2>1, <1>0, BeginTyped
<1>2. edit'[a].tok = t /\ edit'[a].step = step /\ edit'[a].row = row
  BY <1>1
<1>3. \A u \in Tokens \ {t} : SameEdits(u)
  BY <1>1, <1>2, BeginSame
<1>4. /\ db' \in [Tokens -> Values \union {NoRow}] /\ db'[t] = v
      /\ \A u \in Tokens \ {t} : db'[u] = db[u]
  BY <1>0, OneRow
<1>5. PTypeOK'
  BY <1>0, <1>1, <1>4 DEF PTypeOK, TypeOK, FlushTears
<1>6. ASSUME NEW b \in Admins PROVE Current(b)'
  <2>1. CASE b = a
    BY <2>1, <1>0, <1>2, <1>4 DEF Current, HasRow
  <2>2. CASE b # a
    BY <2>2, <1>0, <1>1, <1>4, CurrentKept
  <2> QED
    BY <2>1, <2>2
<1>7. ASSUME NEW u \in Tokens, u # t PROVE Good(u)'
  <2>1. SameFlush(u)
    BY <1>0, <1>7, TearsSameFlush, SameFlushes
  <2> QED
    BY <2>1, <1>0, <1>3, <1>4, <1>7, UntouchedGood DEF Untouched
<1>8. Good(t)'
  <2>1. FreeUnused(t)'
    BY <1>0 DEF FreeUnused
  <2>2. FlushCurrent(t)'
    BY <1>0, TearsSameFlush DEF FlushCurrent, Flushing
  <2>3. Settled(t)' /\ PlaceSettled(t)'
    <3>1. CASE step = "saved"
      BY <3>1, <1>0, <1>1, <1>2, <1>4 DEF Settled, PlaceSettled, HasRow, Editing
    <3>2. CASE step # "saved"
      <4>1. step \in {"read", "removed", "deleted", "created"}
        BY <3>2, <1>0 DEF Bare, Holding
      <4>2. Window(a, t)'
        BY <4>1, <1>1, <1>2 DEF Window
      <4> QED
        BY <4>2 DEF Settled, PlaceSettled
    <3> QED
      BY <3>1, <3>2
  <2> QED
    BY <2>1, <2>2, <2>3 DEF Good
<1> QED
  BY <1>5, <1>6, <1>7, <1>8

\* Which of the steps a handler begins with hold a row.
LEMMA Steps ==
  /\ "saved" \in Bare \ {"got"} /\ "deleted" \in Bare \ {"got"} /\ "created" \in Holding
  /\ "saved" \notin Holding /\ "deleted" \notin Holding
BY DEF Bare, Holding

LEMMA BeginKeeps ==
  ASSUME PInv, NEW a \in Admins, NEW t \in Tokens, NEW v \in Values,
         BatchUpdate(a, t, v) \/ DeleteRow(a, t) \/ CreateRow(a, t, v)
  PROVE  PInv'
<1>1. CASE BatchUpdate(a, t, v)
  <2>1. HasRow(t) /\ db' = [db EXCEPT ![t] = v] /\ Begin(a, t, "saved", NoRow)
        /\ flush' = FlushAfter({t}) /\ UNCHANGED <<mem, obj, dirty, free, torn, strayed>>
    BY <1>1 DEF BatchUpdate, history
  <2>2. FlushTears({t}) /\ t \notin free' /\ v # NoRow /\ free' \subseteq free
    BY <2>1, FlushAfterTears, Absent DEF PInv, Good, FreeUnused
  <2>3. Writes(a, t, "saved", NoRow, v)
    BY <2>1, <2>2, Steps DEF Writes
  <2> QED
    BY <2>3, BeginWrites
<1>2. CASE DeleteRow(a, t)
  <2>1. HasRow(t) /\ db' = [db EXCEPT ![t] = NoRow] /\ Begin(a, t, "deleted", NoRow)
        /\ flush' = FlushAfter({t}) /\ UNCHANGED <<mem, obj, dirty, free, torn, strayed>>
    BY <1>2 DEF DeleteRow, history
  <2>2. FlushTears({t}) /\ t \notin free' /\ free' \subseteq free
    BY <2>1, FlushAfterTears DEF PInv, Good, FreeUnused
  <2>3. Writes(a, t, "deleted", NoRow, NoRow)
    BY <2>1, <2>2, Steps DEF Writes
  <2> QED
    BY <2>3, BeginWrites
<1>3. CASE CreateRow(a, t, v)
  <2>1. t \in free /\ db' = [db EXCEPT ![t] = v] /\ Begin(a, t, "created", v)
        /\ free' = free \ {t} /\ UNCHANGED <<mem, obj, dirty, flush, torn, strayed>>
    BY <1>3 DEF CreateRow, history
  <2>2. ~Flushing(t) /\ t \notin free' /\ free' \subseteq free
    BY <2>1 DEF PInv, Good, FreeUnused
  <2>3. Writes(a, t, "created", v, v)
    BY <2>1, <2>2, Steps DEF Writes
  <2> QED
    BY <2>3, BeginWrites
<1> QED
  BY <1>1, <1>2, <1>3

\* A handler under way that takes a step and stays in its window: whoever reads
\* the token sees that nothing is settled.
LEMMA WindowGood ==
  ASSUME NEW t \in Tokens, Good(t), NEW a \in Admins, Editing(a, t), Window(a, t)',
         free' = free, \/ FlushTears({t}) /\ PTypeOK
                       \/ UNCHANGED <<mem, db, dirty, flush>>
  PROVE  Good(t)'
<1>1. FreeUnused(t)'
  BY DEF Good, FreeUnused
<1>2. FlushCurrent(t)'
  BY TearsSameFlush DEF Good, FlushCurrent, Flushing, InMemory, HasRow
<1>3. Settled(t)' /\ PlaceSettled(t)'
  BY DEF Settled, PlaceSettled
<1> QED
  BY <1>1, <1>2, <1>3 DEF Good

LEMMA SyncReadKeeps ==
  ASSUME PInv, NEW a \in Admins, SyncRead(a) PROVE PInv'
<1> USE DEF PInv
<1>0. edit[a] # NoEdit /\ edit[a] \in Edit /\ edit[a].tok \in Tokens
  BY AtTyped DEF SyncRead, At
<1>t. PICK t \in Tokens : t = edit[a].tok
  BY <1>0
<1>1. /\ edit[a] # NoEdit /\ t = edit[a].tok /\ edit[a] \in Edit
      /\ HasRow(t) /\ db[t] \in Values
  BY <1>0, <1>t DEF SyncRead, HasRow, PTypeOK
<1>2. /\ edit' = [edit EXCEPT ![a] = [edit[a] EXCEPT !.step = "read", !.row = db[t]]]
      /\ UNCHANGED <<mem, obj, dirty, db, flush, free, torn, strayed>>
  BY <1>1, <1>t DEF SyncRead, PTypeOK, history
<1>3. /\ edit'[a] \in Edit /\ edit'[a] # NoEdit /\ edit'[a].tok = t
      /\ edit'[a].step = "read" /\ edit'[a].row = db[t]
  <2>1. edit'[a] = [edit[a] EXCEPT !.step = "read", !.row = db[t]]
    BY <1>2 DEF PTypeOK
  <2>2. edit'[a] = [tok |-> t, step |-> "read", row |-> db[t], torn |-> edit[a].torn]
    BY <2>1, <1>1 DEF Edit
  <2>3. edit[a].torn \in BOOLEAN /\ "read" \in Holding
    BY <1>1, EditParts DEF Holding
  <2>4. edit'[a] \in Edit
    BY <2>2, <2>3, <1>1, EditForms
  <2> QED
    BY <2>2, <2>4, Absent
<1>4. \A b \in Admins \ {a} : edit'[b] = edit[b]
  BY <1>2 DEF PTypeOK
<1>5. \A u \in Tokens \ {t} : SameEdits(u)
  BY <1>1, <1>3, <1>4, StepSame
<1>6. PTypeOK'
  <2>1. edit' \in [Admins -> Edit \union {NoEdit}]
    BY <1>2, <1>3 DEF PTypeOK
  <2> QED
    BY <2>1, <1>2 DEF PTypeOK, TypeOK
<1>7. ASSUME NEW b \in Admins PROVE Current(b)'
  <2>1. CASE b = a
    BY <2>1, <1>2, <1>3 DEF Current
  <2>2. CASE b # a
    BY <2>2, <1>2, <1>4, UnchangedTears, CurrentKept
  <2> QED
    BY <2>1, <2>2
<1>8. ASSUME NEW u \in Tokens, u # t PROVE Good(u)'
  BY <1>2, <1>5, <1>8, SameFlushes, UntouchedGood DEF Untouched
<1>9. Good(t)'
  <2>1. Editing(a, t) /\ Window(a, t)'
    BY <1>1, <1>3 DEF Editing, Window
  <2> QED
    BY <2>1, <1>2, WindowGood
<1> QED
  BY <1>6, <1>7, <1>8, <1>9

\* A reload that fails leaves a token torn and strayed, unless its row is gone: then there is
\* nothing to reload, and the memory has no object either once the others are done.
LEMMA SyncReadFailsKeeps ==
  ASSUME PInv, NEW a \in Admins, SyncReadFails(a) PROVE PInv'
<1> USE DEF PInv
<1>0. edit[a] # NoEdit /\ edit[a] \in Edit /\ edit[a].tok \in Tokens
  BY AtTyped DEF SyncReadFails, At
<1>t. PICK t \in Tokens : t = edit[a].tok
  BY <1>0
<1>1. edit[a] # NoEdit /\ t = edit[a].tok /\ edit[a].step = "saved"
  BY <1>0, <1>t DEF SyncReadFails, At
<1>2. /\ edit' \in [Admins -> Edit \union {NoEdit}] /\ edit'[a] = NoEdit
      /\ \A b \in Admins \ {a} : edit'[b] = edit[b]
      /\ torn' = torn \union {u \in {t} : HasRow(u)}
      /\ strayed' = strayed \union {u \in {t} : HasRow(u)}
      /\ UNCHANGED <<mem, obj, dirty, db, flush, free>>
  BY <1>t, LeaveTyped DEF SyncReadFails
<1>3. /\ \A u \in Tokens \ {t} : SameEdits(u)
      /\ \A b \in Admins \ {a} : Editing(b, t)' <=> Editing(b, t)
  BY <1>1, <1>2, StepSame
<1>4. PTypeOK'
  BY <1>2 DEF PTypeOK, TypeOK
<1>5. ASSUME NEW b \in Admins PROVE Current(b)'
  BY <1>2, UnchangedTears, CurrentKept DEF Current
<1>6. ASSUME NEW u \in Tokens, u # t PROVE Good(u)'
  BY <1>2, <1>3, <1>6, SameFlushes, UntouchedGood DEF Untouched
<1>7. Good(t)'
  <2>1. /\ \A b \in Admins : Window(b, t)' <=> Window(b, t)
        /\ \A b \in Admins : Editing(b, t)' => Editing(b, t)
        /\ (HasRow(t)' <=> HasRow(t)) /\ (InMemory(t)' <=> InMemory(t))
    BY <1>1, <1>2 DEF Window, Editing, HasRow, InMemory
  <2>2. FreeUnused(t)' /\ FlushCurrent(t)'
    BY <2>1, <1>2 DEF Good, FreeUnused, FlushCurrent, Flushing
  <2>3. Settled(t)' /\ PlaceSettled(t)'
    <3>1. CASE HasRow(t)
      BY <3>1, <1>2 DEF Settled, PlaceSettled
    <3>2. CASE ~HasRow(t)
      BY <3>2, <2>1, <1>2 DEF Good, Settled, Agrees, PlaceSettled, Placed
    <3> QED
      BY <3>1, <3>2
  <2> QED
    BY <2>2, <2>3 DEF Good
<1> QED
  BY <1>4, <1>5, <1>6, <1>7

LEMMA SyncRemoveKeeps ==
  ASSUME PInv, NEW a \in Admins, SyncRemove(a) PROVE PInv'
<1> USE DEF PInv
<1>0. edit[a] # NoEdit /\ edit[a] \in Edit /\ edit[a].tok \in Tokens
  BY AtTyped DEF SyncRemove, At
<1>t. PICK t \in Tokens : t = edit[a].tok
  BY <1>0
<1>1. edit[a] # NoEdit /\ t = edit[a].tok /\ edit[a] \in Edit /\ edit[a].step = "read"
  BY <1>0, <1>t DEF SyncRemove, At
<1>2. /\ IF InMemory(t) THEN Remove(t) ELSE UNCHANGED vars
      /\ flush' = FlushAfter({t})
      /\ edit' = [edit EXCEPT ![a] = [edit[a] EXCEPT !.step = "removed"]]
      /\ UNCHANGED <<db, free, torn, strayed>>
  BY <1>t DEF SyncRemove, PTypeOK, history
<1>3. /\ edit'[a] \in Edit /\ edit'[a] # NoEdit /\ edit'[a].tok = t /\ edit'[a].step = "removed"
      /\ edit'[a].row = edit[a].row /\ edit'[a].torn = edit[a].torn
  <2>1. edit'[a] = [edit[a] EXCEPT !.step = "removed"]
    BY <1>2 DEF PTypeOK
  <2>2. edit'[a] = [tok |-> t, step |-> "removed", row |-> edit[a].row, torn |-> edit[a].torn]
    BY <2>1, <1>1 DEF Edit
  <2>3. edit[a].torn \in BOOLEAN /\ "removed" \in Holding /\ edit[a].row \in Values
    BY <1>1, EditParts DEF Holding
  <2>4. edit'[a] \in Edit
    BY <2>2, <2>3, <1>1, EditForms
  <2> QED
    BY <2>2, <2>4, Absent
<1>4. \A b \in Admins \ {a} : edit'[b] = edit[b]
  BY <1>2 DEF PTypeOK
<1>5. \A u \in Tokens \ {t} : SameEdits(u)
  BY <1>1, <1>3, <1>4, StepSame
<1>6. Gone(t) /\ FlushTears({t})
  BY <1>2, RemoveGone, FlushAfterTears
<1>7. PTypeOK'
  <2>1. edit' \in [Admins -> Edit \union {NoEdit}]
    BY <1>2, <1>3 DEF PTypeOK
  <2> QED
    BY <2>1, <1>2, <1>6 DEF PTypeOK, TypeOK, Gone, FlushTears
<1>8. ASSUME NEW b \in Admins PROVE Current(b)'
  <2>1. CASE b = a
    BY <2>1, <1>1, <1>2, <1>3 DEF Current, HasRow, Holding
  <2>2. CASE b # a
    BY <2>2, <1>2, <1>4, UnchangedTears, CurrentKept
  <2> QED
    BY <2>1, <2>2
<1>9. ASSUME NEW u \in Tokens, u # t PROVE Good(u)'
  BY <1>2, <1>5, <1>6, <1>9, TearsSameFlush, UntouchedGood DEF Untouched, Gone
<1>10. Good(t)'
  <2>1. Editing(a, t) /\ Window(a, t)'
    BY <1>1, <1>3 DEF Editing, Window
  <2> QED
    BY <2>1, <1>2, <1>6, WindowGood
<1> QED
  BY <1>7, <1>8, <1>9, <1>10

\* SyncAdd and CreateAdd: a handler nobody overlapped puts in what the table has.
LEMMA AddRowKeeps ==
  ASSUME PInv, NEW a \in Admins, SyncAdd(a) \/ CreateAdd(a) PROVE PInv'
<1> USE DEF PInv
<1>0. edit[a] # NoEdit /\ edit[a] \in Edit /\ edit[a].tok \in Tokens /\ edit[a].row \in Values
      /\ edit[a].step \in Holding
  BY AtTyped DEF SyncAdd, CreateAdd, At, Holding
<1>t. PICK t \in Tokens : t = edit[a].tok
  BY <1>0
<1>1. /\ edit[a] # NoEdit /\ t = edit[a].tok /\ edit[a].step \in {"removed", "created"}
      /\ AddRow(a)
  BY <1>0, <1>t DEF SyncAdd, CreateAdd, At
<1>2. Loads(a)
  BY <1>0, <1>1, AddRowLoads
<1>3. /\ mem' \in [Tokens -> Values \union {NoToken}] /\ mem'[t] = Normalize(edit[a].row)
      /\ obj' \in [Tokens -> BOOLEAN]
      /\ \A u \in Tokens \ {t} : mem'[u] = mem[u]
      /\ FlushTears({t})
      /\ edit' \in [Admins -> Edit \union {NoEdit}] /\ edit'[a] = NoEdit
      /\ \A b \in Admins \ {a} : edit'[b] = edit[b]
      /\ torn' \subseteq Tokens /\ strayed' \subseteq Tokens
      /\ \A u \in Tokens \ {t} : (u \in torn' <=> u \in torn) /\ (u \in strayed' <=> u \in strayed)
      /\ (t \in torn' <=> edit[a].torn) /\ (t \in strayed' <=> edit[a].torn)
      /\ UNCHANGED <<dirty, db, free>>
  BY <1>2, <1>t DEF Loads
<1>4. \A u \in Tokens \ {t} : SameEdits(u)
  BY <1>1, <1>3, StepSame
<1>5. PTypeOK'
  BY <1>3 DEF PTypeOK, TypeOK, FlushTears
<1>6. ASSUME NEW b \in Admins PROVE Current(b)'
  BY <1>3, UnchangedTears, CurrentKept DEF Current
<1>7. ASSUME NEW u \in Tokens, u # t PROVE Good(u)'
  BY <1>3, <1>4, <1>7, TearsSameFlush, UntouchedGood DEF Untouched
<1>8. Good(t)'
  <2>1. Editing(a, t) /\ t \notin free'
    BY <1>1, <1>3 DEF Editing, Good, FreeUnused
  <2>2. FreeUnused(t)' /\ FlushCurrent(t)'
    BY <2>1, <1>3, TearsSameFlush DEF FreeUnused, FlushCurrent
  <2>3. Settled(t)' /\ PlaceSettled(t)'
    <3>1. CASE edit[a].torn
      BY <3>1, <1>3 DEF Settled, PlaceSettled
    <3>2. CASE ~edit[a].torn
      <4>1. db'[t] = edit[a].row
        BY <3>2, <1>0, <1>1, <1>3 DEF Current
      <4>2. HasRow(t)' /\ InMemory(t)'
        BY <4>1, <1>0, <1>3, Parts, Absent DEF HasRow, InMemory
      <4>3. mem'[t].saved = Lifted[db'[t].saved] /\ mem'[t].place = db'[t].place
        BY <4>1, <1>0, <1>3, Parts
      <4> QED
        BY <4>2, <4>3 DEF Settled, Agrees, Persisted, PlaceSettled, Placed
    <3> QED
      BY <3>1, <3>2
  <2> QED
    BY <2>2, <2>3 DEF Good
<1> QED
  BY <1>5, <1>6, <1>7, <1>8

LEMMA DeleteRemoveKeeps ==
  ASSUME PInv, NEW a \in Admins, DeleteRemove(a) PROVE PInv'
<1> USE DEF PInv
<1>0. edit[a] # NoEdit /\ edit[a] \in Edit /\ edit[a].tok \in Tokens
  BY AtTyped DEF DeleteRemove, At
<1>t. PICK t \in Tokens : t = edit[a].tok
  BY <1>0
<1>1. edit[a] # NoEdit /\ t = edit[a].tok /\ edit[a].step = "deleted"
  BY <1>0, <1>t DEF DeleteRemove, At
<1>2. /\ IF InMemory(t) THEN Remove(t) ELSE UNCHANGED vars
      /\ flush' = FlushAfter({t}) /\ Finish(a) /\ UNCHANGED <<db, free>>
  BY <1>t DEF DeleteRemove
<1>3. Gone(t) /\ FlushTears({t})
  BY <1>2, RemoveGone, FlushAfterTears
<1>4. /\ edit' \in [Admins -> Edit \union {NoEdit}] /\ edit'[a] = NoEdit
      /\ \A b \in Admins \ {a} : edit'[b] = edit[b]
  BY <1>2, LeaveTyped DEF Finish
<1>5. /\ torn' \subseteq Tokens /\ strayed' \subseteq Tokens
      /\ \A u \in Tokens \ {t} : (u \in torn' <=> u \in torn) /\ (u \in strayed' <=> u \in strayed)
      /\ (t \in torn' <=> edit[a].torn) /\ (t \in strayed' <=> edit[a].torn)
  BY <1>1, <1>2, FinishTyped
<1>6. \A u \in Tokens \ {t} : SameEdits(u)
  BY <1>1, <1>4, StepSame
<1>7. PTypeOK'
  BY <1>2, <1>3, <1>4, <1>5 DEF PTypeOK, TypeOK, Gone, FlushTears
<1>8. ASSUME NEW b \in Admins PROVE Current(b)'
  BY <1>2, <1>4, UnchangedTears, CurrentKept DEF Current
<1>9. ASSUME NEW u \in Tokens, u # t PROVE Good(u)'
  BY <1>2, <1>3, <1>5, <1>6, <1>9, TearsSameFlush, UntouchedGood DEF Untouched, Gone
<1>10. Good(t)'
  <2>1. Editing(a, t) /\ t \notin free'
    BY <1>1, <1>2 DEF Editing, Good, FreeUnused
  <2>2. FreeUnused(t)' /\ FlushCurrent(t)'
    BY <2>1, <1>3, TearsSameFlush DEF FreeUnused, FlushCurrent
  <2>3. Settled(t)' /\ PlaceSettled(t)'
    <3>1. CASE edit[a].torn
      BY <3>1, <1>5 DEF Settled, PlaceSettled
    <3>2. CASE ~edit[a].torn
      <4>1. ~HasRow(t)' /\ ~InMemory(t)'
        BY <3>2, <1>1, <1>2, <1>3 DEF Current, HasRow, InMemory, Gone
      <4> QED
        BY <4>1 DEF Settled, Agrees, PlaceSettled, Placed
    <3> QED
      BY <3>1, <3>2
  <2> QED
    BY <2>2, <2>3 DEF Good
<1> QED
  BY <1>7, <1>8, <1>9, <1>10

LEMMA CleanUpKeeps ==
  ASSUME PInv, NEW a \in Admins, NEW t \in Tokens, CleanUp(a, t) PROVE PInv'
<1> USE DEF PInv
<1>1. /\ HasRow(t) /\ db' = [db EXCEPT ![t] = NoRow]
      /\ edit' = [b \in Admins |-> EditAfter(b, {t})]
      /\ flush' = FlushAfter({t}) /\ torn' = torn \union {t}
      /\ UNCHANGED <<mem, obj, dirty, free, strayed>>
  BY DEF CleanUp
<1>2. \A b \in Admins : EditTears(b, {t})
  BY <1>1, EditAfterTears
<1>3. FlushTears({t})
  BY <1>1, FlushAfterTears
<1>4. /\ db' \in [Tokens -> Values \union {NoRow}] /\ db'[t] = NoRow
      /\ \A u \in Tokens \ {t} : db'[u] = db[u]
  BY <1>1, OneRow
<1>5. PTypeOK'
  <2>1. edit' \in [Admins -> Edit \union {NoEdit}]
    BY <1>1, <1>2 DEF EditTears
  <2> QED
    BY <2>1, <1>1, <1>3, <1>4 DEF PTypeOK, TypeOK, FlushTears
<1>6. \A b \in Admins : Current(b)'
  BY <1>2, <1>4, CurrentKept
<1>7. ASSUME NEW u \in Tokens, u # t PROVE Good(u)'
  <2>1. SameEdits(u)
    BY <1>2, TearsSameEdit DEF SameEdits
  <2> QED
    BY <2>1, <1>1, <1>3, <1>4, <1>7, TearsSameFlush, UntouchedGood DEF Untouched
<1>8. Good(t)'
  <2>1. t \notin free' /\ t \in torn' /\ ~HasRow(t)'
    BY <1>1, <1>4 DEF Good, FreeUnused, HasRow
  <2> QED
    BY <2>1, <1>3, TearsSameFlush DEF Good, FreeUnused, FlushCurrent, Settled, PlaceSettled, Placed
<1> QED
  BY <1>5, <1>6, <1>7, <1>8

LEMMA RestartKeeps == ASSUME PInv, Restart PROVE PInv'
<1> USE DEF PInv
<1>1. /\ mem' = Rows /\ dirty' = {} /\ obj' = [t \in Tokens |-> FALSE] /\ flush' = NoFlush
      /\ edit' = [b \in Admins |-> NoEdit] /\ torn' = {} /\ strayed' = {}
      /\ UNCHANGED <<db, free>>
  BY DEF Restart
<1>2. \A u \in Tokens : mem'[u] = IF HasRow(u) THEN Normalize(db[u]) ELSE NoToken
  BY <1>1 DEF Rows
<1>3. PTypeOK'
  <2>1. mem' \in [Tokens -> Values \union {NoToken}]
    BY <1>1, Parts DEF Rows, HasRow, PTypeOK
  <2> QED
    BY <2>1, <1>1 DEF PTypeOK, TypeOK
<1>4. \A b \in Admins : Current(b)'
  BY <1>1 DEF Current
<1>5. ASSUME NEW u \in Tokens PROVE Good(u)'
  <2>1. ~Flushing(u)' /\ \A b \in Admins : ~Editing(b, u)'
    BY <1>1 DEF Flushing, Editing
  <2>2. /\ HasRow(u)' <=> HasRow(u)
        /\ InMemory(u)' <=> HasRow(u)
        /\ HasRow(u) => mem'[u].saved = Lifted[db'[u].saved] /\ mem'[u].place = db'[u].place
    BY <1>1, <1>2, Parts, Absent DEF HasRow, InMemory, PTypeOK
  <2>3. FreeUnused(u)' /\ FlushCurrent(u)'
    BY <2>1, <2>2, <1>1 DEF Good, FreeUnused, FlushCurrent
  <2>4. Settled(u)' /\ PlaceSettled(u)'
    BY <2>2 DEF Settled, Agrees, Persisted, PlaceSettled, Placed
  <2> QED
    BY <2>3, <2>4 DEF Good
<1> QED
  BY <1>3, <1>4, <1>5

-----------------------------------------------------------------------------
(***************************************************************************)
(* The invariant of the specification, and what follows from it.           *)
(***************************************************************************)

LEMMA PInvInit == ASSUME PInit PROVE PInv
<1>1. /\ db \in [Tokens -> Values \union {NoRow}] /\ mem = Rows /\ dirty = {}
      /\ obj = [t \in Tokens |-> FALSE] /\ flush = NoFlush
      /\ edit = [a \in Admins |-> NoEdit] /\ free = {t \in Tokens : ~HasRow(t)}
      /\ torn = {} /\ strayed = {}
  BY DEF PInit
<1>2. \A u \in Tokens : mem[u] = IF HasRow(u) THEN Normalize(db[u]) ELSE NoToken
  BY <1>1 DEF Rows
<1>3. PTypeOK
  <2>1. mem \in [Tokens -> Values \union {NoToken}]
    BY <1>1, Parts DEF Rows, HasRow
  <2> QED
    BY <2>1, <1>1 DEF PTypeOK, TypeOK
<1>4. \A b \in Admins : Current(b)
  BY <1>1 DEF Current
<1>5. ASSUME NEW u \in Tokens PROVE Good(u)
  <2>1. ~Flushing(u) /\ \A b \in Admins : ~Editing(b, u)
    BY <1>1 DEF Flushing, Editing
  <2>2. /\ InMemory(u) <=> HasRow(u)
        /\ HasRow(u) => mem[u].saved = Lifted[db[u].saved] /\ mem[u].place = db[u].place
    BY <1>1, <1>2, Parts, Absent DEF HasRow, InMemory
  <2>3. FreeUnused(u) /\ FlushCurrent(u)
    BY <2>1, <2>2, <1>1 DEF FreeUnused, FlushCurrent
  <2>4. Settled(u) /\ PlaceSettled(u)
    BY <2>2 DEF Settled, Agrees, Persisted, PlaceSettled, Placed
  <2> QED
    BY <2>3, <2>4 DEF Good
<1> QED
  BY <1>3, <1>4, <1>5 DEF PInv

LEMMA AdminKeeps == ASSUME PInv, AdminStep PROVE PInv'
<1>1. PICK a \in Admins :
        \/ \E t \in Tokens : UpdateGet(a, t) \/ DeleteRow(a, t) \/ CleanUp(a, t)
        \/ \E t \in Tokens, v \in Values : BatchUpdate(a, t, v) \/ CreateRow(a, t, v)
        \/ \E v \in Values : UpdateSave(a, v)
        \/ UpdateFails(a)
        \/ SyncRead(a) \/ SyncReadFails(a) \/ SyncRemove(a) \/ SyncAdd(a)
        \/ DeleteRemove(a) \/ CreateAdd(a)
  BY DEF AdminStep
<1>2. CASE \E t \in Tokens : UpdateGet(a, t) \/ CleanUp(a, t)
  BY <1>2, UpdateGetKeeps, CleanUpKeeps
<1>3. CASE \E t \in Tokens : DeleteRow(a, t)
  <2>1. PICK t \in Tokens : DeleteRow(a, t)
    BY <1>3
  <2>2. \E v : v \in Values
    BY <2>1 DEF DeleteRow, HasRow, PInv, PTypeOK
  <2> QED
    BY <2>1, <2>2, BeginKeeps
<1>4. CASE \E t \in Tokens, v \in Values : BatchUpdate(a, t, v) \/ CreateRow(a, t, v)
  BY <1>4, BeginKeeps
<1>5. CASE \E v \in Values : UpdateSave(a, v)
  BY <1>5, UpdateSaveKeeps
<1>6. CASE UpdateFails(a) \/ SyncRead(a) \/ SyncReadFails(a) \/ SyncRemove(a)
  BY <1>6, UpdateFailsKeeps, SyncReadKeeps, SyncReadFailsKeeps, SyncRemoveKeeps
<1>7. CASE SyncAdd(a) \/ DeleteRemove(a) \/ CreateAdd(a)
  BY <1>7, AddRowKeeps, DeleteRemoveKeeps
<1> QED
  BY <1>1, <1>2, <1>3, <1>4, <1>5, <1>6, <1>7

LEMMA StutterKeeps == ASSUME PInv, UNCHANGED pvars PROVE PInv'
<1>1. UNCHANGED <<mem, dirty, obj, db, flush, edit, free, torn, strayed>>
  BY DEF pvars, history
<1>2. PTypeOK' /\ \A b \in Admins : Current(b)'
  BY <1>1 DEF PInv, PTypeOK, TypeOK, Current, HasRow
<1>3. ASSUME NEW u \in Tokens PROVE Good(u)'
  BY <1>1 DEF PInv, Good, FreeUnused, FlushCurrent, Settled, PlaceSettled, Agrees, Persisted,
     Placed, Overwritten, Flushing, Editing, Window, HasRow, InMemory
<1> QED
  BY <1>2, <1>3 DEF PInv

LEMMA PInvNext == ASSUME PInv, [PNext]_pvars PROVE PInv'
<1>1. CASE \E t \in Tokens : MarkOnly(t) \/ \E v \in Values : Work(t, v)
  BY <1>1, MarkOnlyKeeps, WorkKeeps
<1>2. CASE FlushStep
  BY <1>2, GetDirtyKeeps, FlushCommitKeeps, FlushFailsKeeps, ClearDirtyKeeps DEF FlushStep
<1>3. CASE AdminStep
  BY <1>3, AdminKeeps
<1>4. CASE Restart
  BY <1>4, RestartKeeps
<1>5. CASE UNCHANGED pvars
  BY <1>5, StutterKeeps
<1> QED
  BY <1>1, <1>2, <1>3, <1>4, <1>5 DEF PNext

\* What is known of every reachable state: types, the worth of every copy in
\* somebody's hands, and the agreement up to what is still to be written.
THEOREM CopiesAreAccounted == PSpec => []PInv
<1>1. PInit => PInv
  BY PInvInit
<1>2. PInv /\ [PNext]_pvars => PInv'
  BY PInvNext
<1> QED
  BY <1>1, <1>2, PTL DEF PSpec

\* Memory, table, the flush's snapshot and the handlers' copies keep their types.
THEOREM PersistenceTypes == PSpec => []PTypeOK
<1>1. PInv => PTypeOK
  BY DEF PInv
<1> QED
  BY <1>1, CopiesAreAccounted, PTL

\* A flush that nobody overlapped writes what the memory holds now in the columns
\* of TokenSnapshot, and its marks are still there when the transaction fails
\* (FlushDirty, persist.go).
THEOREM FlushesAreCurrent == PSpec => []FlushIsCurrent
<1>1. PInv => FlushIsCurrent
  BY DEF PInv, Good, FlushCurrent, FlushIsCurrent
<1> QED
  BY <1>1, CopiesAreAccounted, PTL

\* Only an overlap of two copies, a reload that fails, or an import that deletes
\* the row of a token in memory can make the manager and the tokens table
\* disagree on a quiet token: on its existence, on the columns of TokenSnapshot
\* when it is not marked, or on its place, except that the memory may have filled
\* a place that the row leaves open, which no flush writes (SyncQuota, quota.go).
THEOREM MemoryAgreesWithTable == PSpec => []Agreement
<1>1. ASSUME PInv PROVE Agreement
  <2>1. ASSUME NEW t \in Tokens, Quiet(t)
        PROVE  /\ ~Overwritten(t)
               /\ \A b \in Admins : ~Window(b, t) /\ (Editing(b, t) => edit[b].step # "saved")
    BY <2>1 DEF Quiet, Overwritten, Window, Editing, At
  <2>2. ASSUME NEW t \in Tokens, Quiet(t), t \notin torn
        PROVE  /\ InMemory(t) <=> HasRow(t)
               /\ InMemory(t) /\ t \notin dirty => Persisted(t)
    <3>1. Agrees(t)
      BY <2>1, <2>2, <1>1 DEF PInv, Good, Settled
    <3> QED
      BY <3>1, <2>1, <2>2 DEF Agrees
  <2>3. ASSUME NEW t \in Tokens, Quiet(t), t \notin strayed, InMemory(t), HasRow(t)
        PROVE  mem[t].place = db[t].place \/ db[t].place \in Open
    <3>1. Placed(t)
      BY <2>1, <2>3, <1>1 DEF PInv, Good, PlaceSettled
    <3> QED
      BY <3>1, <2>3 DEF Placed
  <2> QED
    BY <2>2, <2>3 DEF Agreement
<1> QED
  BY <1>1, CopiesAreAccounted, PTL
=============================================================================
