------------------------ MODULE StrategyCacheProofs ------------------------
(***************************************************************************)
(* Theorems about StrategyCache, for any number of strategies, edits and   *)
(* webhooks, any TTL, and with a Redis that may fail: its types, that it   *)
(* implements BoundedStaleness, why an entry may be stale, and its slugs.  *)
(***************************************************************************)
EXTENDS StrategyCache, FiniteSetTheorems, WellFoundedInduction, TLAPS

USE CacheAssumption

-----------------------------------------------------------------------------
(* TypeOK in the parts that change together.                               *)
RowTypes ==
    /\ db \in [Strategies -> Rows] /\ refs \in [Strategies -> Nat]
    /\ \A s \in Strategies : refs[s] > 0 => HasRow(s)

EntryTypes == cached \in Lists \cup {NoList} /\ left \in 0 .. Ttl /\ excused \in BOOLEAN

EditTypes ==
    /\ epc \in [Editors -> {"idle", "purge", "commit", "del"}]
    /\ edit \in [Editors -> Edits \cup {NoEdit}]
    /\ \A e \in Editors : epc[e] # "idle" => edit[e] \in Edits

HookTypes ==
    /\ hpc \in [Hooks -> {"idle", "get", "select", "set", "run", "targeted"}]
    /\ list \in [Hooks -> Lists]
    /\ fill \in [Hooks -> 0 .. MaxFill]

PastTypes == past \subseteq (Lists \X (0 .. Bound))
Counts    == edits \in 0 .. MaxEdits /\ hooks \in 0 .. MaxHooks

Types == RowTypes /\ EntryTypes /\ EditTypes /\ HookTypes /\ PastTypes /\ Counts

LEMMA ActiveIsList == Active \in Lists
BY DEF Active, Lists

LEMMA RowIsRow == \A g \in Slugs : Row(g) \in Rows /\ Row(g).row = "row"
BY DEF Row, Rows, Present

LEMMA EditShape ==
  ASSUME NEW r \in Edits
  PROVE  /\ r.op \in {"create", "rename", "activate", "deactivate", "delete"}
         /\ r.strategy \in Strategies /\ r.slug \in Slugs /\ r.refs \in Nat
BY DEF Edits

LEMMA InitTypes == Init => Types
<1> SUFFICES ASSUME Init PROVE Types
  OBVIOUS
<1> USE DEF Init
<1>1. RowTypes
  BY DEF RowTypes, Rows, Present, New
<1>2. EntryTypes
  <2>1. cached \in Lists \cup {NoList} /\ left \in 0 .. Ttl
    OBVIOUS
  <2>2. excused \in BOOLEAN
    BY Zenon
  <2>. QED BY <2>1, <2>2, Zenon DEF EntryTypes
<1>c. PastTypes /\ Counts
  BY DEF PastTypes, Counts
<1>3. EditTypes
  BY DEF EditTypes
<1>4. HookTypes
  BY DEF HookTypes, Lists
<1>. QED BY <1>1, <1>2, <1>c, <1>3, <1>4 DEF Types

LEMMA BeginTypes ==
  ASSUME Types, NEW e \in Editors, BeginCreate(e) \/ BeginUpdate(e) \/ BeginDelete(e)
  PROVE  Types'
<1> USE DEF Types
<1>1. PICK op \in {"create", "rename", "activate", "deactivate", "delete"},
           s \in Strategies, g \in Slugs, step \in {"purge", "commit"} :
              Begin(e, op, s, g, step)
  <2>1. CASE BeginCreate(e)
    BY <2>1 DEF BeginCreate, FreeSlug, Slugs
  <2>2. CASE BeginUpdate(e)
    <3>1. \A s \in Strategies : HasRow(s) => db[s].slug \in Slugs
      BY DEF RowTypes, HasRow, Rows, Present
    <3>. QED BY <2>2, <3>1 DEF BeginUpdate, FreeSlug, Slugs
  <2>3. CASE BeginDelete(e)
    <3>1. \A s \in Strategies : HasRow(s) => db[s].slug \in Slugs
      BY DEF RowTypes, HasRow, Rows, Present
    <3>. QED BY <2>3, <3>1 DEF BeginDelete
  <2>. QED BY <2>1, <2>2, <2>3
<1> DEFINE r == [op |-> op, strategy |-> s, slug |-> g, refs |-> 0]
<1>2. r \in Edits
  BY DEF Edits
<1>3. /\ edit' = [edit EXCEPT ![e] = r] /\ epc' = [epc EXCEPT ![e] = step]
      /\ edits < MaxEdits /\ edits' = edits + 1
      /\ UNCHANGED <<db, refs, cached, left, hpc, list, fill, past, excused, hooks>>
  BY <1>1 DEF Begin, EditAt, rows, entry, hooking, history
<1> HIDE DEF r
<1>4. EditTypes'
  BY <1>2, <1>3 DEF EditTypes
<1>5. RowTypes' /\ EntryTypes' /\ HookTypes' /\ PastTypes'
  BY <1>3 DEF RowTypes, EntryTypes, HookTypes, PastTypes, HasRow
<1>6. Counts'
  BY <1>3 DEF Counts
<1>. QED BY <1>4, <1>5, <1>6

LEMMA OverTypes ==
  ASSUME Types, NEW e \in Editors, Over(e) PROVE EditTypes'
BY DEF Types, EditTypes, Over, EditAt

LEMMA NewRowTypes ==
  ASSUME Types, NEW e \in Editors, edit[e] \in Edits, ~Refused(e)
  PROVE  NewRow(e) \in Rows /\ (edit[e].op # "delete" => NewRow(e).row = "row")
<1> DEFINE s == edit[e].strategy
<1>1. /\ s \in Strategies /\ edit[e].slug \in Slugs /\ db[s] \in Rows
      /\ edit[e].op \in {"create", "rename", "activate", "deactivate", "delete"}
  BY EditShape DEF Types, RowTypes
<1>2. edit[e].op \notin {"create", "delete"} => db[s].row = "row"
  BY DEF Refused, HasRow
<1>3. ASSUME db[s].row = "row"
      PROVE  /\ \A g \in Slugs : [db[s] EXCEPT !.slug = g] \in Rows /\ [db[s] EXCEPT !.slug = g].row = "row"
             /\ \A a \in BOOLEAN : [db[s] EXCEPT !.active = a] \in Rows /\ [db[s] EXCEPT !.active = a].row = "row"
  BY <1>1, <1>3 DEF Rows, Present
<1>4. CASE edit[e].op = "create"
  BY <1>1, <1>4, RowIsRow DEF NewRow
<1>5. CASE edit[e].op = "rename"
  BY <1>1, <1>2, <1>3, <1>5 DEF NewRow
<1>6. CASE edit[e].op \in {"activate", "deactivate"}
  BY <1>1, <1>2, <1>3, <1>6 DEF NewRow
<1>7. CASE edit[e].op = "delete"
  BY <1>7 DEF NewRow, Deleted, Rows
<1>. QED BY <1>1, <1>4, <1>5, <1>6, <1>7

LEMMA CommitTypes ==
  ASSUME Types, NEW e \in Editors, Commit(e)
  PROVE  Types'
<1> USE DEF Types
<1> DEFINE s == edit[e].strategy
           r == NewRow(e)
<1>1. edit[e] \in Edits /\ s \in Strategies
  BY EditShape DEF EditTypes, Commit
<1>2. r \in Rows /\ (edit[e].op # "delete" => r.row = "row")
  BY <1>1, NewRowTypes DEF Commit
<1> HIDE DEF r
<1>3. /\ db' = [db EXCEPT ![s] = r]
      /\ refs' = IF edit[e].op = "delete" THEN [refs EXCEPT ![s] = 0] ELSE refs
      /\ past' = past \cup {<<Active, 0>>}
      /\ epc' = [epc EXCEPT ![e] = "del"] /\ epc[e] = "commit"
      /\ UNCHANGED <<cached, left, edit, hpc, list, fill, excused, edits, hooks>>
  BY DEF Commit, AfterCommit, EditAt, entry, hooking, count, r
<1>4. RowTypes'
  <2>1. db' \in [Strategies -> Rows] /\ refs' \in [Strategies -> Nat]
    BY <1>1, <1>2, <1>3 DEF RowTypes
  <2>2. ASSUME NEW t \in Strategies, refs'[t] > 0 PROVE db'[t].row = "row"
    <3>1. CASE t = s
      BY <3>1, <2>2, <1>1, <1>2, <1>3 DEF RowTypes
    <3>2. CASE t # s
      BY <3>2, <2>2, <1>1, <1>3 DEF RowTypes, HasRow
    <3>. QED BY <3>1, <3>2
  <2>. QED BY <2>1, <2>2 DEF RowTypes, HasRow
<1>5. EditTypes'
  BY <1>1, <1>3 DEF EditTypes
<1>6. PastTypes'
  BY <1>3, ActiveIsList DEF PastTypes, Bound
<1>7. EntryTypes' /\ HookTypes' /\ Counts'
  BY <1>3 DEF EntryTypes, HookTypes, Counts
<1>. QED BY <1>4, <1>5, <1>6, <1>7

(* The deletion of a connection changes one field of rows that exist.      *)
LEMMA Unlinks ==
  ASSUME Types, DeleteConnection
  PROVE  /\ db' \in [Strategies -> Rows]
         /\ \A s \in Strategies : /\ db'[s].row = "row" <=> HasRow(s)
                                  /\ HasRow(s) => db'[s].slug = db[s].slug
<1>1. PICK used \in SUBSET {s \in Strategies : HasRow(s) /\ db[s].broker} :
        db' = [s \in Strategies |-> IF s \in used THEN [db[s] EXCEPT !.broker = FALSE]
                                                  ELSE db[s]]
  BY DEF DeleteConnection
<1>2. ASSUME NEW s \in Strategies
      PROVE  /\ db'[s] \in Rows /\ (db'[s].row = "row" <=> HasRow(s))
             /\ HasRow(s) => db'[s].slug = db[s].slug
  <2>1. db[s] \in Rows
    BY DEF Types, RowTypes
  <2>2. CASE s \in used
    <3>1. db[s] \in Present /\ db'[s] = [db[s] EXCEPT !.broker = FALSE]
      BY <1>1, <2>1, <2>2 DEF HasRow, Rows
    <3>2. db'[s] \in Present /\ db'[s].slug = db[s].slug
      BY <3>1 DEF Present
    <3>. QED BY <3>1, <3>2 DEF HasRow, Rows, Present
  <2>3. CASE s \notin used
    BY <1>1, <2>1, <2>3 DEF HasRow
  <2>. QED BY <2>2, <2>3
<1>. QED BY <1>1, <1>2

LEMMA DeletionTypes ==
  ASSUME Types, DeleteConnection
  PROVE  Types'
<1> USE DEF Types
<1>1. /\ past' = past \cup {<<Active, 0>>} /\ excused' = (excused \/ cached # NoList)
      /\ edits < MaxEdits /\ edits' = edits + 1
      /\ UNCHANGED <<refs, cached, left, epc, edit, hpc, list, fill, hooks>>
  BY DEF DeleteConnection, entry, editing, hooking
<1>2. RowTypes'
  <2>1. /\ db' \in [Strategies -> Rows]
        /\ \A s \in Strategies : db'[s].row = "row" <=> HasRow(s)
    BY Unlinks
  <2>2. \A s \in Strategies : refs'[s] > 0 => db'[s].row = "row"
    BY <1>1, <2>1 DEF RowTypes
  <2>. QED BY <1>1, <2>1, <2>2 DEF RowTypes, HasRow
<1>3. PastTypes'
  BY <1>1, ActiveIsList DEF PastTypes, Bound
<1>4. EntryTypes'
  <2>1. excused' \in BOOLEAN
    BY <1>1, Zenon
  <2>2. cached' \in Lists \cup {NoList} /\ left' \in 0 .. Ttl
    BY <1>1 DEF EntryTypes
  <2>. QED BY <2>1, <2>2, Zenon DEF EntryTypes
<1>5. Counts'
  BY <1>1 DEF Counts
<1>. QED BY <1>1, <1>2, <1>3, <1>4, <1>5 DEF EditTypes, HookTypes

LEMMA EditStep ==
  ASSUME Types, NEW e \in Editors, Edit(e)
  PROVE  Types'
<1> USE DEF Types
<1>1. CASE Purge(e)
  <2>1. edit[e] \in Edits /\ edit[e].strategy \in Strategies
    BY <1>1, EditShape DEF Purge, EditTypes
  <2>2. [edit[e] EXCEPT !.refs = refs[edit[e].strategy]] \in Edits
    BY <2>1 DEF Edits, RowTypes
  <2>3. EditTypes'
    BY <1>1, <2>2 DEF EditTypes, Purge, EditAt
  <2>4. UNCHANGED <<db, refs, cached, left, hpc, list, fill, past, excused, edits, hooks>>
    BY <1>1 DEF Purge, rows, entry, hooking, history, count
  <2>. QED BY <2>3, <2>4 DEF RowTypes, EntryTypes, HookTypes, PastTypes, Counts, HasRow
<1>2. CASE Rollback(e)
  <2>1. UNCHANGED <<db, refs, cached, left, hpc, list, fill, past, excused, edits, hooks>>
    BY <1>2 DEF Rollback, rows, entry, hooking, count
  <2>2. EditTypes'
    BY <1>2, OverTypes DEF Rollback
  <2>. QED BY <2>1, <2>2 DEF RowTypes, EntryTypes, HookTypes, PastTypes, Counts, HasRow
<1>3. CASE Invalidate(e)
  <2>1. UNCHANGED <<db, refs, hpc, list, fill, past, edits, hooks>>
    BY <1>3 DEF Invalidate, rows, hooking, count
  <2>2. EditTypes'
    BY <1>3, OverTypes DEF Invalidate
  <2>3. EntryTypes'
    <3>1. cached' \in Lists \cup {NoList} /\ left' \in 0 .. Ttl
      <4>1. (cached' = NoList /\ left' = 0) \/ UNCHANGED <<cached, left>>
        BY <1>3 DEF Invalidate, entry
      <4>. QED BY <4>1 DEF EntryTypes
    <3>2. excused' \in BOOLEAN
      BY <1>3, Zenon DEF Invalidate
    <3>. QED BY <3>1, <3>2, Zenon DEF EntryTypes
  <2>. QED BY <2>1, <2>2, <2>3 DEF RowTypes, HookTypes, PastTypes, Counts, HasRow
<1>. QED BY <1>1, <1>2, <1>3, BeginTypes, CommitTypes DEF Edit

LEMMA HookStep ==
  ASSUME Types, NEW h \in Hooks, Handle(h)
  PROVE  Types'
<1> USE DEF Types, rows, entry, editing, history, count
<1>1. CASE Receive(h) \/ ReceiveTargeted(h) \/ Get(h) \/ Select(h)
  <2>1. UNCHANGED <<db, refs, cached, left, epc, edit, past, excused, fill, edits>>
    BY <1>1 DEF Receive, ReceiveTargeted, Get, Select
  <2>2. HookTypes'
    <3>1. PICK l \in Lists, step \in {"get", "select", "set", "run", "targeted"} :
             (list' = list \/ Found(h, l)) /\ HookAt(h, step)
      <4>1. CASE Receive(h)
        BY <4>1 DEF Receive, Lists
      <4>2. CASE ReceiveTargeted(h)
        BY <4>2, ActiveIsList DEF ReceiveTargeted, Lists
      <4>3. CASE Get(h)
        BY <4>3, ActiveIsList DEF Get, EntryTypes
      <4>4. CASE Select(h)
        BY <4>4, ActiveIsList DEF Select
      <4>. QED BY <1>1, <4>1, <4>2, <4>3, <4>4
    <3>. QED BY <2>1, <3>1 DEF HookTypes, HookAt, Found
  <2>3. Counts'
    BY <1>1, <2>1 DEF Counts, Receive, ReceiveTargeted, Get, Select
  <2>. QED BY <2>1, <2>2, <2>3 DEF RowTypes, EntryTypes, EditTypes, PastTypes, HasRow
<1>2. CASE Set(h)
  <2>1. UNCHANGED <<db, refs, epc, edit, list, past, edits, hooks>>
    BY <1>2 DEF Set
  <2>2. HookTypes'
    BY <1>2, <2>1 DEF Set, HookTypes, HookAt
  <2>3. EntryTypes'
    <3>1. list[h] \in Lists
      BY DEF HookTypes
    <3>2. cached' \in Lists \cup {NoList} /\ left' \in 0 .. Ttl
      <4>1. (cached' = list[h] /\ left' = Ttl) \/ UNCHANGED <<cached, left>>
        BY <1>2 DEF Set
      <4>. QED BY <3>1, <4>1 DEF EntryTypes
    <3>3. excused' \in BOOLEAN
      <4>1. excused' = (list[h] # Active) \/ excused' = excused
        BY <1>2 DEF Set
      <4>. QED BY <4>1, Zenon DEF EntryTypes
    <3>. QED BY <3>2, <3>3, Zenon DEF EntryTypes
  <2>. QED BY <2>1, <2>2, <2>3 DEF RowTypes, EditTypes, PastTypes, Counts, HasRow
<1>3. CASE WriteLog(h)
  <2>1. UNCHANGED <<db, cached, left, epc, edit, fill, past, excused, edits, hooks>>
    BY <1>3 DEF WriteLog
  <2>2. HookTypes'
    BY <1>3, <2>1 DEF WriteLog, HookTypes, HookAt, Found, Lists
  <2>3. RowTypes'
    BY <1>3, <2>1 DEF WriteLog, RowTypes, HasRow
  <2>. QED BY <2>1, <2>2, <2>3 DEF EntryTypes, EditTypes, PastTypes, Counts
<1>. QED BY <1>1, <1>2, <1>3 DEF Handle

LEMMA TickTypes ==
  ASSUME Types, Tick
  PROVE  Types'
<1> USE DEF Types
<1>1. UNCHANGED <<db, refs, epc, edit, hpc, list, excused, edits, hooks>>
  BY DEF Tick, rows, editing, count
<1>2. HookTypes'
  <2>1. \A h \in Hooks : fill'[h] \in 0 .. MaxFill
    BY DEF Tick, HookTypes
  <2>. QED BY <1>1, <2>1 DEF Tick, HookTypes
<1>3. EntryTypes'
  BY <1>1 DEF Tick, EntryTypes
<1>4. PastTypes'
  <2>1. ASSUME NEW y \in past, y[2] < Bound PROVE <<y[1], y[2] + 1>> \in Lists \X (0 .. Bound)
    BY <2>1 DEF PastTypes, Bound
  <2>. QED BY <2>1 DEF Tick, Aged, PastTypes
<1>. QED BY <1>1, <1>2, <1>3, <1>4 DEF RowTypes, EditTypes, Counts, HasRow

LEMMA TypeStep == Types /\ [Next]_vars => Types'
<1> SUFFICES ASSUME Types, [Next]_vars PROVE Types'
  OBVIOUS
<1>1. CASE OpenSession
  <2>1. UNCHANGED <<db, cached, left, epc, edit, hpc, list, fill, past, excused, edits>>
    BY <1>1 DEF OpenSession, entry, editing, hooking, history
  <2>2. RowTypes'
    BY <1>1, <2>1 DEF OpenSession, Types, RowTypes, HasRow
  <2>3. Counts'
    BY <1>1, <2>1 DEF OpenSession, Types, Counts
  <2>. QED BY <2>1, <2>2, <2>3 DEF Types, EntryTypes, EditTypes, HookTypes, PastTypes
<1>2. CASE UNCHANGED vars
  BY <1>2 DEF vars, rows, entry, editing, hooking, history, count, Types, RowTypes,
              EntryTypes, EditTypes, HookTypes, PastTypes, Counts, HasRow
<1>. QED BY <1>1, <1>2, EditStep, DeletionTypes, HookStep, TickTypes DEF Next

(* However edits, webhooks, expiry and failures of Redis interleave, every *)
(* row, entry and request is of its type, and no log row or session refers *)
(* to a strategy that does not exist.                                      *)
THEOREM TypeCorrect == Spec => []TypeOK
<1>1. Types => TypeOK
  BY DEF Types, RowTypes, EntryTypes, EditTypes, HookTypes, PastTypes, Counts, TypeOK
<1>. QED BY InitTypes, TypeStep, <1>1, PTL DEF Spec

-----------------------------------------------------------------------------
(* The refinement: whatever a webhook may come to act on, the entry or the *)
(* list it is about to set, is current or was replaced recently enough to  *)
(* be in past until it is used.                                            *)

KnownFor(l, n) == l = Active \/ \E a \in Nat : <<l, a>> \in past /\ a <= n

EntryKnown == cached # NoList => KnownFor(cached, Bound - left)
FillsKnown == \A h \in Hooks : hpc[h] = "set" => KnownFor(list[h], fill[h])

Known == EntryKnown /\ FillsKnown

LEMMA InitKnown == Init => Known
BY DEF Init, Known, EntryKnown, FillsKnown

LEMMA KnownIsRecent ==
  ASSUME NEW l, NEW n, KnownFor(l, n) PROVE l \in Promise!Recent
<1>1. CASE l = Active
  BY <1>1 DEF Promise!Recent
<1>2. ASSUME NEW a \in Nat, <<l, a>> \in past PROVE l \in Promise!Recent
  <2>1. <<l, a>>[1] = l
    OBVIOUS
  <2>2. \E e \in past : e[1] = l
    BY <1>2, <2>1
  <2>. QED BY <2>2 DEF Promise!Recent
<1>. QED BY <1>1, <1>2 DEF KnownFor

(* A commit puts the list it replaces into the past.                       *)
LEMMA CommitKeeps ==
  ASSUME past' = past \cup {<<Active, 0>>}, NEW l, NEW n \in Nat, KnownFor(l, n)
  PROVE  KnownFor(l, n)'
BY DEF KnownFor

(* A tick makes what is known one tick older.                              *)
LEMMA TickAges ==
  ASSUME past' = Aged(past), Active' = Active, NEW l, NEW n \in Nat, n < Bound, KnownFor(l, n)
  PROVE  l = Active' \/ \E a \in Nat : <<l, a>> \in past' /\ a <= n + 1
<1>1. Bound \in Nat
  BY DEF Bound
<1>2. CASE l = Active
  BY <1>2
<1>3. ASSUME NEW a \in Nat, <<l, a>> \in past, a <= n
      PROVE  <<l, a + 1>> \in past' /\ a + 1 <= n + 1 /\ a + 1 \in Nat
  <2>1. a < Bound
    BY <1>1, <1>3
  <2>. QED BY <1>3, <2>1 DEF Aged
<1>. QED BY <1>2, <1>3 DEF KnownFor

(* A step changes the list and the past, or neither, or time goes by.      *)
LEMMA SameKnown ==
  ASSUME Active' = Active, past' = past, NEW l, NEW n, KnownFor(l, n)
  PROVE  KnownFor(l, n)'
BY DEF KnownFor

LEMMA ActiveSame == ASSUME db' = db PROVE Active' = Active
BY DEF Active, HasRow

LEMMA KnownStep ==
  ASSUME Types, Known, [Next]_vars
  PROVE  Known'
<1> USE DEF Known
<1>t. /\ left \in 0 .. Ttl /\ Bound \in Nat /\ Bound - left \in Nat
      /\ \A h \in Hooks : fill[h] \in 0 .. MaxFill
  BY DEF Types, EntryTypes, HookTypes, Bound
<1>s. ASSUME UNCHANGED <<db, cached, left, hpc, list, fill, past>> PROVE Known'
  <2>1. Active' = Active
    BY <1>s, ActiveSame
  <2>. QED BY <1>s, <2>1 DEF EntryKnown, FillsKnown, KnownFor
<1>r. ASSUME past' = past \cup {<<Active, 0>>}, UNCHANGED <<cached, left, hpc, list, fill>>
      PROVE  Known'
  <2>1. EntryKnown'
    <3>1. CASE cached # NoList
      <4>1. KnownFor(cached, Bound - left)'
        BY <3>1, <1>r, <1>t, CommitKeeps DEF EntryKnown, KnownFor, Bound
      <4>. QED BY <4>1, <1>r DEF EntryKnown
    <3>. QED BY <3>1, <1>r DEF EntryKnown
  <2>2. FillsKnown'
    BY <1>r, <1>t, CommitKeeps DEF FillsKnown, KnownFor
  <2>. QED BY <2>1, <2>2
<1>d. CASE DeleteConnection
  BY <1>d, <1>r DEF DeleteConnection, entry, hooking
<1>1. ASSUME NEW e \in Editors, Edit(e) PROVE Known'
  <2>1. CASE BeginCreate(e) \/ BeginUpdate(e) \/ BeginDelete(e)
    BY <2>1, <1>s DEF BeginCreate, BeginUpdate, BeginDelete, Begin, rows, entry, hooking, history
  <2>2. CASE Purge(e) \/ Rollback(e)
    BY <2>2, <1>s DEF Purge, Rollback, rows, entry, hooking, history
  <2>3. CASE Commit(e)
    BY <2>3, <1>r DEF Commit, entry, hooking
  <2>4. CASE Invalidate(e)
    <3>1. /\ UNCHANGED <<db, hpc, list, fill, past>>
          /\ cached' = NoList \/ UNCHANGED <<cached, left>>
      BY <2>4 DEF Invalidate, rows, entry, hooking
    <3>2. Active' = Active
      BY <3>1, ActiveSame
    <3>. QED BY <3>1, <3>2 DEF EntryKnown, FillsKnown, KnownFor
  <2>. QED BY <1>1, <2>1, <2>2, <2>3, <2>4 DEF Edit
<1>2. ASSUME NEW h \in Hooks, Handle(h) PROVE Known'
  <2> USE DEF rows, entry, editing, history, count
  <2>0. db' = db /\ past' = past
    BY <1>2 DEF Handle, Receive, ReceiveTargeted, Get, Select, Set, WriteLog
  <2>a. Active' = Active
    BY <2>0, ActiveSame
  <2>1. EntryKnown'
    <3>1. CASE Set(h)
      <4>1. CASE cached' = list[h] /\ left' = Ttl
        <5>1. KnownFor(list[h], fill[h])
          BY <3>1 DEF Set, FillsKnown
        <5>2. Bound - left' = MaxFill
          BY <4>1 DEF Bound
        <5>3. list[h] = Active \/ \E a \in Nat : <<list[h], a>> \in past /\ a <= MaxFill
          BY <5>1, <1>t DEF KnownFor
        <5>. QED BY <4>1, <5>2, <5>3, <2>0, <2>a DEF EntryKnown, KnownFor, Bound
      <4>2. CASE UNCHANGED <<cached, left>>
        BY <4>2, <2>0, <2>a DEF EntryKnown, KnownFor
      <4>. QED BY <3>1, <4>1, <4>2 DEF Set
    <3>2. CASE UNCHANGED <<cached, left>>
      BY <3>2, <2>0, <2>a DEF EntryKnown, KnownFor
    <3>. QED BY <1>2, <3>1, <3>2 DEF Handle, Receive, ReceiveTargeted, Get, Select, WriteLog
  <2>2. FillsKnown'
    <3>1. \A b \in Hooks \ {h} : hpc'[b] = hpc[b] /\ list'[b] = list[b] /\ fill'[b] = fill[b]
      BY <1>2 DEF Handle, Receive, ReceiveTargeted, Get, Select, Set, WriteLog,
                  HookAt, Found, Types, HookTypes
    <3>2. hpc'[h] = "set" => list'[h] = Active
      BY <1>2 DEF Handle, Receive, ReceiveTargeted, Get, Select, Set, WriteLog,
                  HookAt, Found, Types, HookTypes
    <3>3. ASSUME NEW b \in Hooks, hpc'[b] = "set" PROVE KnownFor(list[b], fill[b])'
      <4>1. CASE b = h
        BY <4>1, <3>2, <3>3, <2>a DEF KnownFor
      <4>2. CASE b # h
        BY <4>2, <3>1, <3>3, <2>0, <2>a DEF FillsKnown, KnownFor
      <4>. QED BY <4>1, <4>2
    <3>. QED BY <3>3 DEF FillsKnown
  <2>. QED BY <2>1, <2>2
<1>3. CASE OpenSession
  BY <1>3, <1>s DEF OpenSession, entry, hooking, history
<1>4. CASE Tick
  <2>1. past' = Aged(past) /\ UNCHANGED <<db, hpc, list>>
    BY <1>4 DEF Tick, rows
  <2>a. Active' = Active
    BY <2>1, ActiveSame
  <2>2. EntryKnown'
    <3>1. CASE left = 0
      BY <1>4, <3>1 DEF Tick, Expired, EntryKnown
    <3>2. CASE left > 0
      <4>1. cached' = cached /\ left' = left - 1
        BY <1>4, <3>2, <1>t DEF Tick, Expired
      <4>2. /\ Bound - left < Bound /\ (Bound - left) + 1 = Bound - left'
            /\ Bound - left \in Nat
        BY <4>1, <3>2, <1>t DEF Bound
      <4> DEFINE n == Bound - left
      <4>3. cached # NoList => KnownFor(cached, n)
        BY DEF EntryKnown
      <4> HIDE DEF n
      <4>4. n \in Nat /\ n < Bound /\ n + 1 = Bound - left'
        BY <4>2 DEF n
      <4>5. ASSUME cached # NoList
            PROVE  cached = Active' \/ \E a \in Nat : <<cached, a>> \in past' /\ a <= n + 1
        BY <4>3, <4>4, <4>5, <2>1, <2>a, TickAges
      <4>6. Bound' = Bound
        BY DEF Bound
      <4>7. cached # NoList => KnownFor(cached, Bound - left)'
        BY <4>1, <4>4, <4>5, <4>6 DEF KnownFor
      <4>. QED BY <4>1, <4>7 DEF EntryKnown
    <3>. QED BY <3>1, <3>2, <1>t
  <2>3. FillsKnown'
    <3>1. ASSUME NEW h \in Hooks, hpc'[h] = "set" PROVE KnownFor(list[h], fill[h])'
      <4>1. /\ hpc[h] = "set" /\ list'[h] = list[h] /\ fill[h] \in Nat
            /\ fill[h] < Bound /\ fill'[h] = fill[h] + 1
        BY <1>4, <2>1, <3>1, <1>t DEF Tick, Bound
      <4>2. KnownFor(list[h], fill[h])
        BY <4>1 DEF FillsKnown
      <4>3. list[h] = Active' \/ \E a \in Nat : <<list[h], a>> \in past' /\ a <= fill[h] + 1
        BY <4>1, <4>2, <2>1, <2>a, TickAges
      <4>. QED BY <4>1, <4>3 DEF KnownFor
    <3>. QED BY <3>1 DEF FillsKnown
  <2>. QED BY <2>2, <2>3
<1>5. CASE UNCHANGED vars
  BY <1>5, <1>s DEF vars, rows, entry, hooking, history
<1>. QED BY <1>d, <1>1, <1>2, <1>3, <1>4, <1>5 DEF Next

-----------------------------------------------------------------------------
(* The list a webhook acts on, for BoundedStaleness.                       *)
Seen == [h \in Hooks |-> IF hpc[h] = "run" THEN list[h] ELSE NoList]

LEMMA InitMaps == Init => Promise!Init
BY ActiveIsList DEF Init, Promise!Init

(* Every step is a step of BoundedStaleness: a commit or the deletion of a *)
(* connection replaces the list, a hit or the end of a fill serves a       *)
(* webhook, its log ends it.                                               *)
LEMMA StepMaps ==
  ASSUME Types, Known, [Next]_vars
  PROVE  [Promise!Next]_(Promise!vars)
<1> USE DEF rows, entry, editing, hooking, history, count
<1>s. ASSUME UNCHANGED <<db, past, hpc>>,
             \A h \in Hooks : hpc[h] = "run" => list'[h] = list[h]
      PROVE  UNCHANGED Promise!vars
  <2>1. Active' = Active /\ Seen' = Seen
    BY <1>s, ActiveSame DEF Seen
  <2>. QED BY <1>s, <2>1 DEF Promise!vars, Seen
<1>k. ASSUME Seen' = Seen, UNCHANGED <<db, past>> PROVE UNCHANGED Promise!vars
  BY <1>k, ActiveSame DEF Promise!vars, Seen
<1>r. ASSUME past' = past \cup {<<Active, 0>>}, UNCHANGED <<hpc, list>>
      PROVE  [Promise!Next]_(Promise!vars)
  <2>1. Active' \in Lists
    BY DEF Active, Lists
  <2>2. Seen' = Seen
    BY <1>r DEF Seen
  <2>3. Promise!Replace
    BY <1>r, <2>1, <2>2 DEF Promise!Replace, Seen
  <2>. QED BY <2>3 DEF Promise!Next
<1>d. CASE DeleteConnection
  BY <1>d, <1>r DEF DeleteConnection
<1>1. ASSUME NEW e \in Editors, Edit(e) PROVE [Promise!Next]_(Promise!vars)
  <2>1. CASE Commit(e)
    BY <2>1, <1>r DEF Commit
  <2>2. CASE ~Commit(e)
    <3>1. UNCHANGED <<db, past, hpc, list>>
      BY <1>1, <2>2 DEF Edit, BeginCreate, BeginUpdate, BeginDelete, Begin, Purge,
                        Rollback, Invalidate
    <3>. QED BY <3>1, <1>s
  <2>. QED BY <2>1, <2>2
<1>2. ASSUME NEW h \in Hooks, Handle(h) PROVE [Promise!Next]_(Promise!vars)
  <2>t. hpc \in [Hooks -> {"idle", "get", "select", "set", "run", "targeted"}]
        /\ list \in [Hooks -> Lists]
    BY DEF Types, HookTypes
  <2>0. UNCHANGED <<db, past>>
    BY <1>2 DEF Handle, Receive, ReceiveTargeted, Get, Select, Set, WriteLog
  <2>a. Active' = Active
    BY <2>0, ActiveSame
  <2>v. ASSUME NEW l \in Promise!Recent, hpc' = [hpc EXCEPT ![h] = "run"],
               list'[h] = l, \A b \in Hooks \ {h} : list'[b] = list[b]
        PROVE  [Promise!Next]_(Promise!vars)
    <3>1. Seen' = [Seen EXCEPT ![h] = l]
      BY <2>v, <2>t DEF Seen
    <3>2. Promise!Serve(h)
      BY <2>v, <3>1, <2>0, <2>a DEF Promise!Serve, Seen
    <3>. QED BY <3>2 DEF Promise!Next
  <2>f. ASSUME hpc'[h] # "run", \A b \in Hooks \ {h} : hpc'[b] = hpc[b] /\ list'[b] = list[b]
        PROVE  [Promise!Next]_(Promise!vars)
    <3>1. Seen' = [Seen EXCEPT ![h] = NoList]
      BY <2>f DEF Seen
    <3>2. Promise!Finish(h)
      BY <3>1, <2>0, <2>a DEF Promise!Finish, Seen
    <3>. QED BY <3>2 DEF Promise!Next
  <2>1. CASE Receive(h) \/ ReceiveTargeted(h) \/ Select(h) \/ WriteLog(h)
    BY <2>1, <2>t, <2>f DEF Receive, ReceiveTargeted, Select, WriteLog, HookAt, Found
  <2>2. CASE Get(h)
    <3>1. CASE cached # NoList /\ Found(h, cached) /\ HookAt(h, "run")
      <4>1. cached \in Promise!Recent
        BY <3>1, KnownIsRecent DEF Known, EntryKnown
      <4>2. /\ hpc' = [hpc EXCEPT ![h] = "run"] /\ list'[h] = cached
            /\ \A b \in Hooks \ {h} : list'[b] = list[b]
        BY <3>1, <2>t DEF Found, HookAt
      <4>. QED BY <4>1, <4>2, <2>v
    <3>2. CASE HookAt(h, "select") /\ UNCHANGED list
      BY <3>2, <2>t, <2>f DEF HookAt
    <3>. QED BY <2>2, <3>1, <3>2 DEF Get
  <2>3. CASE Set(h)
    <3>1. list[h] \in Promise!Recent
      BY <2>3, KnownIsRecent DEF Set, Known, FillsKnown
    <3>2. hpc' = [hpc EXCEPT ![h] = "run"] /\ list' = list
      BY <2>3 DEF Set, HookAt
    <3>. QED BY <3>1, <3>2, <2>v
  <2>. QED BY <1>2, <2>1, <2>2, <2>3 DEF Handle
<1>3. CASE OpenSession
  BY <1>3, <1>s DEF OpenSession
<1>4. CASE Tick
  <2>1. past' = Aged(past) /\ UNCHANGED <<db, hpc, list>>
    BY <1>4 DEF Tick
  <2>2. Promise!Aged(past) = Aged(past)
    BY DEF Promise!Aged, Aged
  <2>3. Active' = Active /\ Seen' = Seen
    BY <2>1, ActiveSame DEF Seen
  <2>4. Promise!Tick
    BY <2>1, <2>2, <2>3 DEF Promise!Tick, Seen
  <2>. QED BY <2>4 DEF Promise!Next
<1>5. CASE UNCHANGED vars
  BY <1>5, <1>s DEF vars
<1>. QED BY <1>d, <1>1, <1>2, <1>3, <1>4, <1>5 DEF Next

(* Whatever edits, fills, expiry and failures of Redis do, a webhook acts  *)
(* on the list of active strategies of at most TTL plus fill time ago.     *)
THEOREM CacheKeepsPromise == Spec => Implements
<1>1. Spec => [](Types /\ Known)
  BY InitTypes, TypeStep, InitKnown, KnownStep, PTL DEF Spec
<1>2. Types /\ Known /\ [Next]_vars => [Promise!Next]_(Promise!vars)
  BY StepMaps
<1>. QED BY <1>1, <1>2, InitMaps, PTL DEF Spec, Implements, Promise!Spec
-----------------------------------------------------------------------------
(* Why the entry may differ from the database.                             *)

(* A step that keeps the rows, the excuse and the edits that are about to  *)
(* delete the entry, and sets no entry, gives no new reason to differ.     *)
LEMMA ReasonKept ==
  ASSUME StaleHasReason, UNCHANGED <<db, excused>>, cached' \in {cached, NoList},
         \A e \in Editors : epc[e] = "del" => epc'[e] = "del"
  PROVE  StaleHasReason'
<1>1. Active' = Active
  BY ActiveSame
<1>2. CASE cached' # NoList /\ cached' # Active' /\ ~excused
  <2>1. ~excused => \E e \in Editors : epc[e] = "del"
    BY <1>1, <1>2 DEF StaleHasReason
  <2>2. \E e \in Editors : epc[e] = "del"
    BY <1>2, <2>1, Zenon
  <2>. QED BY <2>2, Zenon DEF StaleHasReason
<1>. QED BY <1>2, Zenon DEF StaleHasReason

LEMMA ReasonStep ==
  ASSUME Types, StaleHasReason, [Next]_vars
  PROVE  StaleHasReason'
<1> USE DEF rows, entry, editing, hooking, history, count
<1>1. ASSUME NEW e \in Editors, Edit(e) PROVE StaleHasReason'
  <2>t. epc \in [Editors -> {"idle", "purge", "commit", "del"}]
    BY DEF Types, EditTypes
  <2>1. CASE Commit(e)
    <3>1. epc'[e] = "del"
      BY <2>1, <2>t DEF Commit, EditAt, AfterCommit
    <3>. QED BY <3>1, Zenon DEF StaleHasReason
  <2>2. CASE Invalidate(e)
    <3>1. cached' = NoList \/ excused' = TRUE
      BY <2>2, Zenon DEF Invalidate
    <3>. QED BY <3>1, Zenon DEF StaleHasReason
  <2>3. CASE BeginCreate(e) \/ BeginUpdate(e) \/ BeginDelete(e)
    <3>1. /\ epc[e] = "idle" /\ UNCHANGED <<db, excused, cached>>
          /\ \E step : epc' = [epc EXCEPT ![e] = step]
      BY <2>3, Zenon DEF BeginCreate, BeginUpdate, BeginDelete, Begin, EditAt
    <3>2. \A f \in Editors : epc[f] = "del" => epc'[f] = "del"
      BY <3>1, <2>t
    <3>. QED BY <3>1, <3>2, ReasonKept
  <2>4. CASE Purge(e) \/ Rollback(e)
    <3>1. /\ epc[e] \in {"purge", "commit"} /\ UNCHANGED <<db, excused, cached>>
          /\ \E step : epc' = [epc EXCEPT ![e] = step]
      BY <2>4 DEF Purge, Rollback, Over, EditAt
    <3>2. \A f \in Editors : epc[f] = "del" => epc'[f] = "del"
      BY <3>1, <2>t
    <3>. QED BY <3>1, <3>2, ReasonKept
  <2>. QED BY <1>1, <2>1, <2>2, <2>3, <2>4 DEF Edit
<1>2. ASSUME NEW h \in Hooks, Handle(h) PROVE StaleHasReason'
  <2>1. CASE Set(h) /\ ~UNCHANGED <<cached, excused>>
    <3>1. cached' = list[h] /\ excused' = (list[h] # Active) /\ db' = db
      BY <2>1, Zenon DEF Set
    <3>2. Active' = Active
      BY <3>1, ActiveSame
    <3>. QED BY <3>1, <3>2, Zenon DEF StaleHasReason
  <2>2. CASE UNCHANGED <<db, excused, cached, epc>>
    BY <2>2, ReasonKept
  <2>. QED BY <1>2, <2>1, <2>2, Zenon DEF Handle, Receive, ReceiveTargeted, Get, Select, Set,
                                         WriteLog
<1>3. CASE OpenSession
  BY <1>3, ReasonKept DEF OpenSession
<1>4. CASE Tick
  <2>1. UNCHANGED <<db, excused, epc>> /\ cached' \in {cached, NoList}
    BY <1>4 DEF Tick
  <2>. QED BY <2>1, ReasonKept
<1>5. CASE UNCHANGED vars
  BY <1>5, ReasonKept DEF vars
<1>6. CASE DeleteConnection
  <2>1. excused' = (excused \/ cached # NoList) /\ cached' = cached
    BY <1>6, Zenon DEF DeleteConnection
  <2>. QED BY <2>1, Zenon DEF StaleHasReason
<1>. QED BY <1>6, <1>1, <1>2, <1>3, <1>4, <1>5 DEF Next

(* The entry never differs from the database without one of the reasons    *)
(* the code has: an edit about to delete it, a DEL that failed, a fill     *)
(* that a change has overtaken, a broker connection deleted since.         *)
THEOREM StalenessExplained == Spec => []StaleHasReason
<1>1. Init => StaleHasReason
  BY DEF Init, StaleHasReason
<1>. QED BY InitTypes, TypeStep, <1>1, ReasonStep, PTL DEF Spec

-----------------------------------------------------------------------------
(* Slugs.                                                                  *)
SlugsDiffer ==
    \A s, r \in Strategies : HasRow(s) /\ HasRow(r) /\ db[s].slug = db[r].slug => s = r

LEMMA SlugsStep == Types /\ SlugsDiffer /\ [Next]_vars => SlugsDiffer'
<1> SUFFICES ASSUME Types, SlugsDiffer, [Next]_vars PROVE SlugsDiffer'
  OBVIOUS
<1>1. ASSUME NEW e \in Editors, Commit(e) PROVE SlugsDiffer'
  <2> DEFINE s == edit[e].strategy
  <2>1. /\ edit[e] \in Edits /\ ~Refused(e) /\ db' = [db EXCEPT ![s] = NewRow(e)]
    BY <1>1 DEF Commit, Types, EditTypes
  <2>2. /\ s \in Strategies
        /\ edit[e].op \in {"create", "rename", "activate", "deactivate", "delete"}
    BY <2>1, EditShape
  <2>3. /\ db'[s] = NewRow(e)
        /\ \A r \in Strategies \ {s} : db'[r] = db[r]
    BY <2>1, <2>2 DEF Types, RowTypes
  <2>4. ASSUME NewRow(e).row = "row", NEW r \in Strategies \ {s}, HasRow(r)
        PROVE  NewRow(e).slug # db[r].slug
    <3>1. CASE edit[e].op \in {"create", "rename"}
      <4>1. edit[e].slug # db[r].slug
        <5>1. edit[e].slug \notin Taken
          BY <2>1, <3>1 DEF Refused, Conflict
        <5>2. db[r].slug \in Taken
          BY <2>4 DEF Taken
        <5>. QED BY <5>1, <5>2
      <4>2. NewRow(e).slug = edit[e].slug
        <5>1. CASE edit[e].op = "create"
          BY <5>1 DEF NewRow, Row
        <5>2. CASE edit[e].op = "rename"
          <6>1. HasRow(s) /\ db[s] \in Rows
            BY <2>1, <2>2, <5>2 DEF Refused, Types, RowTypes
          <6>2. db[s] \in Present
            BY <6>1 DEF HasRow, Rows, Present
          <6>. QED BY <5>2, <6>2 DEF NewRow, Present
        <5>. QED BY <3>1, <5>1, <5>2
      <4>. QED BY <4>1, <4>2
    <3>2. CASE edit[e].op \in {"activate", "deactivate"}
      <4>1. HasRow(s)
        BY <2>1, <3>2 DEF Refused
      <4>2. NewRow(e).slug = db[s].slug
        <5>1. db[s] \in Present
          BY <2>2, <4>1 DEF HasRow, Types, RowTypes, Rows, Present
        <5>. QED BY <3>2, <5>1 DEF NewRow, Present
      <4>. QED BY <2>2, <2>4, <4>1, <4>2 DEF SlugsDiffer
    <3>3. CASE edit[e].op = "delete"
      BY <2>4, <3>3 DEF NewRow, Deleted
    <3>. QED BY <2>2, <3>1, <3>2, <3>3
  <2> HIDE DEF s
  <2>. QED BY <2>2, <2>3, <2>4 DEF SlugsDiffer, HasRow
<1>2. CASE UNCHANGED db
  BY <1>2 DEF SlugsDiffer, HasRow
<1>3. CASE DeleteConnection
  <2>1. \A s \in Strategies : /\ db'[s].row = "row" <=> HasRow(s)
                              /\ HasRow(s) => db'[s].slug = db[s].slug
    BY <1>3, Unlinks
  <2>. QED BY <2>1 DEF SlugsDiffer, HasRow
<1>. QED
  BY <1>1, <1>2, <1>3 DEF Next, Edit, BeginCreate, BeginUpdate, BeginDelete, Begin, Purge, Rollback,
                    Invalidate, Handle, Receive, ReceiveTargeted, Get, Select, Set, WriteLog,
                    OpenSession, Tick, vars, rows

(* uq_strategies_tenant_slug and the slugs that are kept through edits:    *)
(* however creations and renames that chose the same slug interleave, two  *)
(* strategies never share one, so that the webhook of a slug means one.    *)
THEOREM OneStrategyPerSlug == Spec => []SlugsDiffer
<1>1. Init => SlugsDiffer
  BY DEF Init, SlugsDiffer, HasRow, New
<1>. QED BY InitTypes, TypeStep, SlugsStep, <1>1, PTL DEF Spec

(* ensure_unique_slug: its loop ends, and with one slug, which is free: a  *)
(* tenant has fewer slugs than there are numbers to try.                   *)
THEOREM SlugIsFound ==
  ASSUME Types, NEW n \in Names
  PROVE  \E g \in Slugs \ Taken : FreeSlug(n) = {g}
<1> DEFINE N    == Cardinality(Strategies)
           Free == {j \in Variants : <<n, j>> \notin Taken}
<1>1. N \in Nat /\ IsFiniteSet(Variants) /\ Cardinality(Variants) = N + 1
  <2>1. N \in Nat
    BY FS_CardinalityType
  <2>. QED BY <2>1, FS_Interval DEF Variants
<1>2. Free # {}
  <2> SUFFICES ASSUME \A j \in Variants : <<n, j>> \in Taken PROVE FALSE
    OBVIOUS
  <2> DEFINE f == [j \in Variants |-> CHOOSE s \in Strategies : HasRow(s) /\ db[s].slug = <<n, j>>]
  <2>1. \A j \in Variants : f[j] \in Strategies /\ db[f[j]].slug = <<n, j>>
    BY DEF Taken
  <2>2. f \in [Variants -> Strategies]
    BY <2>1
  <2>3. Cardinality(Strategies) < Cardinality(Variants)
    BY <1>1
  <2> HIDE DEF f
  <2>4. \E x, y \in Variants : x # y /\ f[x] = f[y]
    BY <1>1, <2>2, <2>3, FS_PigeonHole
  <2>. QED BY <2>1, <2>4
<1>3. PICK j \in Free : \A k \in Free : j <= k
  <2>1. Free \subseteq Nat
    BY <1>1 DEF Variants
  <2>2. \E j \in Free : \A k \in Free : ~(<<k, j>> \in OpToRel(<, Nat))
    BY <1>2, <2>1, NatLessThanWellFounded, WFMin
  <2>3. \A j, k \in Nat : ~(<<k, j>> \in OpToRel(<, Nat)) => j <= k
    BY DEF OpToRel
  <2>. QED BY <2>1, <2>2, <2>3
<1>4. j \in Variants /\ <<n, j>> \notin Taken /\ \A k \in 1 .. j - 1 : <<n, k>> \in Taken
  BY <1>1, <1>3 DEF Variants
<1>5. ASSUME NEW i \in Variants, <<n, i>> \notin Taken, \A k \in 1 .. i - 1 : <<n, k>> \in Taken
      PROVE  i = j
  BY <1>1, <1>4, <1>5 DEF Variants
<1>6. FreeSlug(n) = {<<n, j>>}
  BY <1>4, <1>5 DEF FreeSlug
<1>. QED BY <1>4, <1>6 DEF Slugs
=============================================================================
