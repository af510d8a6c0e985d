---------------------------- MODULE StrategyCache ----------------------------
(***************************************************************************)
(* The strategies of one tenant: the API that creates, changes and deletes *)
(* them (strategies/router.py, webhooks/slug.py), the webhook routes that  *)
(* look them up (webhooks/router.py), one through a Redis entry that edits *)
(* delete and that expires, and the rows that refer to them (signal log    *)
(* and paper sessions).  The deletion of a broker connection               *)
(* (brokers/router.py) writes the same rows and leaves the entry alone.    *)
(*                                                                         *)
(* Every await of a handler is a step of its own.  Time goes by in ticks;  *)
(* past is a history variable: the lists of active strategies replaced so  *)
(* recently that a webhook may still act on them.                          *)
(***************************************************************************)
EXTENDS Integers, FiniteSets

CONSTANTS
    Strategies,  \* bound: the strategies ever created
    Names,       \* base slugs, generate_slug of a name
    Editors,     \* edits in progress at a time
    Hooks,       \* webhooks in progress at a time
    NoList,
    Ttl,         \* ticks a cache entry lives
    MaxFill,     \* bound: ticks between a webhook's SELECT and its SET
    Env,         \* SUBSET {"redis"}: Redis may fail
    MaxEdits, MaxHooks  \* bounds: edits, and webhooks and sessions, of a behaviour

ASSUME CacheAssumption ==
    /\ IsFiniteSet(Strategies)
    /\ Ttl \in Nat /\ MaxFill \in Nat
    /\ MaxEdits \in Nat /\ MaxHooks \in Nat

(* A row is not created yet, deleted, or has a slug, <<"momentum", 2>> for *)
(* "momentum-2", is active or not, and names a broker connection until     *)
(* that is deleted.  A change of rules, mode or broker by an edit is a     *)
(* change of the list like that of a slug and not told from it.            *)
Variants == 1 .. Cardinality(Strategies) + 1
Slugs    == Names \X Variants
Present  == [row : {"row"}, slug : Slugs, active : BOOLEAN, broker : BOOLEAN]
Rows     == [row : {"new", "deleted"}] \cup Present
New      == [row |-> "new"]
Deleted  == [row |-> "deleted"]
Row(g)   == [row |-> "row", slug |-> g, active |-> TRUE, broker |-> TRUE]

Payloads == Strategies \X Slugs \X BOOLEAN     \* broker_connection_id: one or null
Lists == SUBSET Payloads
Bound == Ttl + MaxFill

VARIABLES
    db,         \* table strategies
    refs,       \* per strategy: rows of other tables that refer to it
    cached,     \* the Redis entry of the tenant
    left,       \* ticks it has left
    epc, edit,  \* per edit: next step, and what it is doing
    hpc,        \* per webhook: next step
    list,       \* per webhook: the strategies it found
    fill,       \* per webhook: ticks since its SELECT
    past,       \* history: lists replaced at most Bound ticks ago, with the ticks
    excused,    \* history: the entry was kept or set in spite of a change
    edits, hooks

rows    == <<db, refs>>
entry   == <<cached, left>>
editing == <<epc, edit>>
hooking == <<hpc, list, fill>>
history == <<past, excused>>
count   == <<edits, hooks>>
vars    == <<rows, entry, editing, hooking, history, count>>

HasRow(s)  == db[s].row = "row"
Active     == {e \in Payloads :
                  /\ HasRow(e[1]) /\ db[e[1]].active
                  /\ db[e[1]].slug = e[2] /\ db[e[1]].broker = e[3]}
Taken      == {db[s].slug : s \in {x \in Strategies : HasRow(x)}}

NoEdit == [op |-> "none"]
Edits  == [op : {"create", "rename", "activate", "deactivate", "delete"},
           strategy : Strategies, slug : Slugs, refs : Nat]

Init ==
    /\ db = [s \in Strategies |-> New]
    /\ refs = [s \in Strategies |-> 0]
    /\ cached = NoList /\ left = 0
    /\ epc = [e \in Editors |-> "idle"]
    /\ edit = [e \in Editors |-> NoEdit]
    /\ hpc = [h \in Hooks |-> "idle"]
    /\ list = [h \in Hooks |-> {}]
    /\ fill = [h \in Hooks |-> 0]
    /\ past = {} /\ excused = FALSE
    /\ edits = 0 /\ hooks = 0

-----------------------------------------------------------------------------
(* Edits.                                                                  *)

EditAt(e, step) == epc' = [epc EXCEPT ![e] = step]
Over(e)         == EditAt(e, "idle") /\ edit' = [edit EXCEPT ![e] = NoEdit]

(* ensure_unique_slug: the base, or with the first number that is free.    *)
FreeSlug(n) ==
    {<<n, i>> : i \in {j \in Variants : /\ <<n, j>> \notin Taken
                                       /\ \A k \in 1 .. j - 1 : <<n, k>> \in Taken}}

Begin(e, op, s, g, step) ==
    /\ epc[e] = "idle" /\ edits < MaxEdits
    /\ edit' = [edit EXCEPT ![e] = [op |-> op, strategy |-> s, slug |-> g, refs |-> 0]]
    /\ EditAt(e, step)
    /\ edits' = edits + 1
    /\ UNCHANGED <<rows, entry, hooking, history, hooks>>

(* The SELECT of the other slugs; ids are new ones.                        *)
BeginCreate(e) ==
    \E s \in Strategies, n \in Names : \E g \in FreeSlug(n) :
        /\ db[s] = New
        /\ \A f \in Editors : epc[f] # "idle" => edit[f].strategy # s
        /\ Begin(e, "create", s, g, "commit")

(* The SELECT of the row, and of the other slugs if the name changes: its  *)
(* own slug counts among them.                                             *)
BeginUpdate(e) ==
    \E s \in Strategies :
        /\ HasRow(s)
        /\ \/ \E n \in Names : \E g \in FreeSlug(n) : Begin(e, "rename", s, g, "commit")
           \/ Begin(e, IF db[s].active THEN "deactivate" ELSE "activate", s, db[s].slug, "commit")

BeginDelete(e) ==
    \E s \in Strategies : HasRow(s) /\ Begin(e, "delete", s, db[s].slug, "purge")

(* The rows that refer to the strategy now are deleted, visible to others  *)
(* once the transaction is committed.                                      *)
Purge(e) ==
    /\ epc[e] = "purge"
    /\ edit' = [edit EXCEPT ![e].refs = refs[edit[e].strategy]]
    /\ EditAt(e, "commit")
    /\ UNCHANGED <<rows, entry, hooking, history, count>>

(* The row an edit writes.                                                 *)
NewRow(e) ==
    LET s == edit[e].strategy
    IN  CASE edit[e].op = "create"     -> Row(edit[e].slug)
          [] edit[e].op = "rename"     -> [db[s] EXCEPT !.slug = edit[e].slug]
          [] edit[e].op = "activate"   -> [db[s] EXCEPT !.active = TRUE]
          [] edit[e].op = "deactivate" -> [db[s] EXCEPT !.active = FALSE]
          [] OTHER                     -> Deleted

(* uq_strategies_tenant_slug.                                              *)
Conflict(e) == edit[e].op \in {"create", "rename"} /\ edit[e].slug \in Taken

(* The database refuses a second slug, a change of a row that is gone, and *)
(* to delete a row that has been referred to since the purge.  Deleting a  *)
(* row that is gone is a success.                                          *)
Refused(e) ==
    LET s == edit[e].strategy
    IN  \/ Conflict(e)
        \/ edit[e].op \notin {"create", "delete"} /\ ~HasRow(s)
        \/ edit[e].op = "delete" /\ HasRow(s) /\ refs[s] # edit[e].refs

(* Mutant: deleting a strategy leaves the cache alone.                     *)
NotAfterDelete(op) == IF op = "delete" THEN "idle" ELSE "del"

(* What follows the commit.                                                *)
AfterCommit(op) == "del"

Commit(e) ==
    LET s == edit[e].strategy
    IN  /\ epc[e] = "commit"
        /\ ~Refused(e)
        /\ db' = [db EXCEPT ![s] = NewRow(e)]
        /\ refs' = IF edit[e].op = "delete" THEN [refs EXCEPT ![s] = 0] ELSE refs
        /\ past' = past \cup {<<Active, 0>>}
        /\ EditAt(e, AfterCommit(edit[e].op))
        /\ UNCHANGED <<entry, edit, hooking, excused, count>>

(* The answer is an error; nothing has changed.                            *)
Rollback(e) ==
    /\ epc[e] = "commit" /\ Refused(e)
    /\ Over(e)
    /\ UNCHANGED <<rows, entry, hooking, past, excused, count>>

(* DEL of the cache entry, in a try: an error leaves the entry to its TTL. *)
Invalidate(e) ==
    /\ epc[e] = "del"
    /\ \/ cached' = NoList /\ left' = 0 /\ excused' = FALSE
       \/ "redis" \in Env /\ excused' = TRUE /\ UNCHANGED entry
    /\ Over(e)
    /\ UNCHANGED <<rows, hooking, past, count>>

Edit(e) ==
    \/ BeginCreate(e) \/ BeginUpdate(e) \/ BeginDelete(e)
    \/ Purge(e) \/ Commit(e) \/ Rollback(e) \/ Invalidate(e)

-----------------------------------------------------------------------------
(* DELETE of a broker connection: the foreign key of the strategies that   *)
(* use it is ON DELETE SET NULL, and nothing deletes the cache entry.      *)
DeleteConnection ==
    /\ edits < MaxEdits
    /\ \E used \in SUBSET {s \in Strategies : HasRow(s) /\ db[s].broker} :
          /\ used # {}
          /\ db' = [s \in Strategies |-> IF s \in used THEN [db[s] EXCEPT !.broker = FALSE]
                                                      ELSE db[s]]
    /\ past' = past \cup {<<Active, 0>>}
    /\ excused' = (excused \/ cached # NoList)
    /\ edits' = edits + 1
    /\ UNCHANGED <<refs, entry, editing, hooking, hooks>>

-----------------------------------------------------------------------------
(* Webhooks.                                                               *)

HookAt(h, step) == hpc' = [hpc EXCEPT ![h] = step]
Found(h, l) == list' = [list EXCEPT ![h] = l]

(* POST /webhook/{token}: every active strategy.                           *)
Receive(h) ==
    /\ hpc[h] = "idle" /\ hooks < MaxHooks
    /\ HookAt(h, "get")
    /\ hooks' = hooks + 1
    /\ UNCHANGED <<rows, entry, editing, list, fill, history, edits>>

(* POST /webhook/{token}/{slug}: the strategy with the slug, from the      *)
(* database; 404 if there is none or it is not active.                     *)
ReceiveTargeted(h) ==
    /\ hpc[h] = "idle" /\ hooks < MaxHooks
    /\ \E g \in Slugs :
          LET l == {e \in Active : e[2] = g}
          IN  l # {} /\ Found(h, l)
    /\ HookAt(h, "targeted")
    /\ hooks' = hooks + 1
    /\ UNCHANGED <<rows, entry, editing, fill, history, edits>>

(* GET of the entry; an error counts as a miss.                            *)
Get(h) ==
    /\ hpc[h] = "get"
    /\ \/ cached # NoList /\ Found(h, cached) /\ HookAt(h, "run")
       \/ /\ cached = NoList \/ "redis" \in Env
          /\ HookAt(h, "select") /\ UNCHANGED list
    /\ UNCHANGED <<rows, entry, editing, fill, history, count>>

Select(h) ==
    /\ hpc[h] = "select"
    /\ Found(h, Active)
    /\ HookAt(h, "set")
    /\ UNCHANGED <<rows, entry, editing, fill, history, count>>

(* SET with a TTL, whatever has happened since the SELECT; an error is     *)
(* ignored.                                                                *)
Set(h) ==
    /\ hpc[h] = "set"
    /\ \/ cached' = list[h] /\ left' = Ttl /\ excused' = (list[h] # Active)
       \/ "redis" \in Env /\ UNCHANGED <<entry, excused>>
    /\ HookAt(h, "run")
    /\ fill' = [fill EXCEPT ![h] = 0]
    /\ UNCHANGED <<rows, editing, list, past, count>>

(* Mutant: the log has no foreign key.                                     *)
LogUnchecked(h) ==
    LET of == {e[1] : e \in list[h]}
    IN  /\ hpc[h] \in {"run", "targeted"}
        /\ refs' = [s \in Strategies |-> IF s \in of THEN refs[s] + 1 ELSE refs[s]]
        /\ HookAt(h, "idle") /\ Found(h, {})
        /\ UNCHANGED <<db, entry, editing, fill, history, count>>

(* The signals have been executed; the log rows of all of them are one     *)
(* transaction, which fails as a whole if a strategy is gone.              *)
WriteLog(h) ==
    LET of == {e[1] : e \in list[h]}
    IN  /\ hpc[h] \in {"run", "targeted"}
        /\ IF \A s \in of : HasRow(s)
             THEN refs' = [s \in Strategies |-> IF s \in of THEN refs[s] + 1 ELSE refs[s]]
             ELSE UNCHANGED refs
        /\ HookAt(h, "idle") /\ Found(h, {})
        /\ UNCHANGED <<db, entry, editing, fill, history, count>>

(* POST /paper-trading/sessions: the strategy is looked up, and the row    *)
(* inserted if it still exists.                                            *)
OpenSession ==
    /\ hooks < MaxHooks
    /\ \E s \in Strategies : HasRow(s) /\ refs' = [refs EXCEPT ![s] = @ + 1]
    /\ hooks' = hooks + 1
    /\ UNCHANGED <<db, entry, editing, hooking, history, edits>>

Handle(h) ==
    \/ Receive(h) \/ ReceiveTargeted(h)
    \/ Get(h) \/ Select(h) \/ Set(h) \/ WriteLog(h)

-----------------------------------------------------------------------------
(* Mutant: the entry is set without a TTL.                                 *)
NoTtl == FALSE

(* The entry goes when its TTL has passed.                                 *)
Expired == left = 0

Aged(p) == {<<x[1], x[2] + 1>> : x \in {y \in p : y[2] < Bound}}

Tick ==
    /\ \A h \in Hooks : hpc[h] = "set" => fill[h] < MaxFill
    /\ fill' = [h \in Hooks |-> IF hpc[h] = "set" THEN fill[h] + 1 ELSE fill[h]]
    /\ cached' = IF Expired THEN NoList ELSE cached
    /\ left' = IF left > 0 THEN left - 1 ELSE 0
    /\ past' = Aged(past)
    /\ UNCHANGED <<rows, editing, hpc, list, excused, count>>

Next ==
    \/ \E e \in Editors : Edit(e)
    \/ DeleteConnection
    \/ \E h \in Hooks : Handle(h)
    \/ OpenSession
    \/ Tick

Spec == Init /\ [][Next]_vars

-----------------------------------------------------------------------------
(* Types; an edit in progress knows what it does, and log rows and         *)
(* sessions belong to strategies that exist.                               *)
TypeOK ==
    /\ db \in [Strategies -> Rows]
    /\ refs \in [Strategies -> Nat]
    /\ \A s \in Strategies : refs[s] > 0 => HasRow(s)
    /\ cached \in Lists \cup {NoList}
    /\ left \in 0 .. Ttl
    /\ epc \in [Editors -> {"idle", "purge", "commit", "del"}]
    /\ edit \in [Editors -> Edits \cup {NoEdit}]
    /\ \A e \in Editors : epc[e] # "idle" => edit[e] \in Edits
    /\ hpc \in [Hooks -> {"idle", "get", "select", "set", "run", "targeted"}]
    /\ list \in [Hooks -> Lists]
    /\ fill \in [Hooks -> 0 .. MaxFill]
    /\ past \subseteq (Lists \X (0 .. Bound))
    /\ excused \in BOOLEAN
    /\ edits \in 0 .. MaxEdits /\ hooks \in 0 .. MaxHooks

(* The cache keeps its promise: what a webhook sent to every strategy acts *)
(* on was the list of active strategies at most Bound ticks ago, however   *)
(* edits, fills, expiry and failures of Redis interleave.                  *)
Promise == INSTANCE BoundedStaleness WITH
    Readers <- Hooks,
    current <- Active,
    seen    <- [h \in Hooks |-> IF hpc[h] = "run" THEN list[h] ELSE NoList]

Implements == Promise!Spec

(* The entry differs from the database only while the edit that changed it *)
(* is about to delete it, after that failed, when a webhook has set what   *)
(* it had read before the change, or when the deletion of a broker         *)
(* connection has changed the rows under it.                               *)
StaleHasReason ==
    cached # NoList /\ cached # Active => excused \/ \E e \in Editors : epc[e] = "del"
=============================================================================
