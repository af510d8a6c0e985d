----------------------------- MODULE BrokerPool -----------------------------
(***************************************************************************)
(* The pool of authenticated brokers of one server process                 *)
(* (brokers/pool.py), used the way webhooks/executor.py uses it: get a     *)
(* broker, place the order, on an authentication error evict, get another  *)
(* and place once more.  The credentials of a connection change under it   *)
(* (PATCH and DELETE in brokers/router.py).                                *)
(*                                                                         *)
(* Everything between two awaits is one action.  evict() awaits nothing,   *)
(* so it, and the get() after it up to the lock, belong to the step that   *)
(* sees the order fail.                                                    *)
(***************************************************************************)
EXTENDS Integers, Sequences, FiniteSets

CONSTANTS
    Conns,        \* broker connections
    Tasks,        \* order-placing coroutines of this process at a time
    AuthErrors,   \* how place_order reports a 401/403: "raised" as an exception,
                  \* or "rejected".  Both adapters of the repository reject
    Verifies,     \* authenticate() tries the key (Binance), or not (Exchange1)
    Env,          \* what the environment may do, a subset of Events
    MaxKey,       \* bound: keys issued for one connection
    MaxRequests   \* bound: orders requested in a behaviour

Events == {"fail", "rotate", "delete", "shutdown"}

ASSUME BrokerPoolAssumption ==
    /\ IsFiniteSet(Conns) /\ IsFiniteSet(Tasks)
    /\ AuthErrors \subseteq {"raised", "rejected"}
    /\ Verifies \in BOOLEAN
    /\ Env \subseteq Events
    /\ MaxKey \in Nat \ {0}
    /\ MaxRequests \in Nat

(* Keys are numbered as they are issued.  A broker is the number of its    *)
(* creation for the connection, and the key it signs with.                 *)
NoKey    == 0
Brokers  == [id : Nat, key : Nat]
NoBroker == [id |-> 0, key |-> NoKey]

Steps   == {"idle", "get", "lock", "fetch", "auth", "place"}
Results == {"none", "filled", "rejected", "broker_error", "broker_not_found", "error"}

VARIABLES
    stored,      \* the key in the broker_connections row, NoKey = no such row
    accepted,    \* the key the exchange accepts
    pool,        \* BrokerPool._pool; NoBroker = no entry
    waiting,     \* BrokerPool._locks: holder of the lock, then its waiters, FIFO
    created,     \* brokers created for each connection
    closed,      \* <<connection, id>> of the brokers that were closed
    up,          \* the process has not been shut down
    pc, conn,    \* per task: its next step, and the connection it trades on
    key,         \* per task: the credentials read from the database
    using,       \* per task: the broker it places its order with
    failed,      \* per task: the broker it evicted on an authentication error
    result,      \* execution_result of the order that finished last
    received     \* orders requested so far

creds == <<stored, accepted>>
cache == <<pool, waiting, created, closed>>
local == <<conn, key, using, failed>>
vars  == <<creds, cache, up, pc, local, result, received>>

Goto(t, step) == pc' = [pc EXCEPT ![t] = step]

Init ==
    /\ stored = [c \in Conns |-> 1]
    /\ accepted = [c \in Conns |-> 1]
    /\ pool = [c \in Conns |-> NoBroker]
    /\ waiting = [c \in Conns |-> << >>]
    /\ created = [c \in Conns |-> 0]
    /\ closed = {}
    /\ up = TRUE
    /\ pc = [t \in Tasks |-> "idle"]
    /\ conn \in [Tasks -> Conns]
    /\ key = [t \in Tasks |-> NoKey]
    /\ using = [t \in Tasks |-> NoBroker]
    /\ failed = [t \in Tasks |-> NoBroker]
    /\ result = "none"
    /\ received = 0

(* The task is done; what it held is forgotten.                            *)
Finish(t, res) ==
    /\ Goto(t, "idle")
    /\ key' = [key EXCEPT ![t] = NoKey]
    /\ using' = [using EXCEPT ![t] = NoBroker]
    /\ failed' = [failed EXCEPT ![t] = NoBroker]
    /\ result' = res
    /\ UNCHANGED conn

-----------------------------------------------------------------------------
(* One order.                                                              *)

Receive(t) ==
    /\ up
    /\ pc[t] = "idle"
    /\ received < MaxRequests
    /\ received' = received + 1
    /\ \E c \in Conns : conn' = [conn EXCEPT ![t] = c]
    /\ Goto(t, "get")
    /\ UNCHANGED <<creds, cache, up, key, using, failed, result>>

(* get() without a pooled broker: take the lock if it is free, else queue. *)
Lock(t, c) ==
    /\ waiting' = [waiting EXCEPT ![c] = Append(@, t)]
    /\ Goto(t, IF waiting[c] = << >> THEN "fetch" ELSE "lock")

Release(c) == waiting' = [waiting EXCEPT ![c] = Tail(@)]

Use(t, c) ==
    /\ using' = [using EXCEPT ![t] = pool[c]]
    /\ Goto(t, "place")

(* get(): the lookup that takes no lock.                                   *)
Get(t) ==
    LET c == conn[t] IN
    /\ pc[t] = "get"
    /\ IF pool[c] # NoBroker
         THEN Use(t, c) /\ UNCHANGED waiting
         ELSE Lock(t, c) /\ UNCHANGED using
    /\ UNCHANGED <<creds, pool, created, closed, up, conn, key, failed, result, received>>

(* Mutant: the pool is not looked up again under the lock.                 *)
NoDoubleCheck(t) ==
    LET c == conn[t] IN
    /\ pc[t] = "lock"
    /\ Head(waiting[c]) = t
    /\ Goto(t, "fetch")
    /\ UNCHANGED <<creds, cache, up, local, result, received>>

(* get(): the lock is ours; the pool is looked up again.                   *)
Locked(t) ==
    LET c == conn[t] IN
    /\ pc[t] = "lock"
    /\ Head(waiting[c]) = t
    /\ IF pool[c] # NoBroker
         THEN Use(t, c) /\ Release(c)
         ELSE Goto(t, "fetch") /\ UNCHANGED <<using, waiting>>
    /\ UNCHANGED <<creds, pool, created, closed, up, conn, key, failed, result, received>>

(* Mutant: an exception leaves the lock taken.                             *)
LockLeaked(t) ==
    /\ Finish(t, IF failed[t] = NoBroker THEN "broker_not_found" ELSE "error")
    /\ UNCHANGED <<creds, cache, up, received>>

(* _create_broker raised: "async with" releases the lock.  The first get() *)
(* reports it; during the retry nobody catches it and the order is "error".*)
CreateFails(t) ==
    /\ Release(conn[t])
    /\ Finish(t, IF failed[t] = NoBroker THEN "broker_not_found" ELSE "error")
    /\ UNCHANGED <<creds, pool, created, closed, up, received>>

(* Mutant: a missing row is not noticed.                                   *)
RowNotChecked(t) ==
    /\ pc[t] = "fetch"
    /\ key' = [key EXCEPT ![t] = stored[conn[t]]]
    /\ Goto(t, "auth")
    /\ UNCHANGED <<creds, cache, up, conn, using, failed, result, received>>

(* _create_broker: the credentials are read from the database.             *)
FetchCredentials(t) ==
    LET c == conn[t] IN
    /\ pc[t] = "fetch"
    /\ \/ /\ stored[c] # NoKey
          /\ key' = [key EXCEPT ![t] = stored[c]]
          /\ Goto(t, "auth")
          /\ UNCHANGED <<creds, cache, up, conn, using, failed, result, received>>
       \/ (stored[c] = NoKey \/ "fail" \in Env) /\ CreateFails(t)

(* authenticate(): Exchange1 does not try the key.                         *)
Authenticates(t) == Verifies => key[t] = accepted[conn[t]]

(* get_broker() authenticates; the new broker is pooled and the lock goes. *)
CreateBroker(t) ==
    LET c == conn[t]
        b == [id |-> created[c] + 1, key |-> key[t]]
    IN
    /\ pc[t] = "auth"
    /\ \/ /\ Authenticates(t)
          /\ pool' = [pool EXCEPT ![c] = b]
          /\ created' = [created EXCEPT ![c] = b.id]
          /\ using' = [using EXCEPT ![t] = b]
          /\ Release(c)
          /\ Goto(t, "place")
          /\ UNCHANGED <<creds, closed, up, conn, key, failed, result, received>>
       \/ (~Authenticates(t) \/ "fail" \in Env) /\ CreateFails(t)

(* Mutant: evict() closes the broker it removes.                           *)
EvictCloses(t) ==
    LET c == conn[t] IN
    /\ pool' = [pool EXCEPT ![c] = NoBroker]
    /\ closed' = IF pool[c] = NoBroker THEN closed ELSE closed \cup {<<c, pool[c].id>>}
    /\ failed' = [failed EXCEPT ![t] = using[t]]
    /\ using' = [using EXCEPT ![t] = NoBroker]
    /\ Lock(t, c)
    /\ UNCHANGED <<creds, created, up, conn, key, result, received>>

(* Mutant: the broker is looked up again without having been evicted.      *)
RetriesWithoutEvict(t) ==
    LET c == conn[t] IN
    /\ failed' = [failed EXCEPT ![t] = using[t]]
    /\ IF pool[c] # NoBroker
         THEN Use(t, c) /\ UNCHANGED waiting
         ELSE using' = [using EXCEPT ![t] = NoBroker] /\ Lock(t, c)
    /\ UNCHANGED <<creds, pool, created, closed, up, conn, key, result, received>>

(* _place_with_retry: evict, whichever broker is pooled by now, and get.   *)
EvictAndGet(t) ==
    LET c == conn[t] IN
    /\ pool' = [pool EXCEPT ![c] = NoBroker]
    /\ failed' = [failed EXCEPT ![t] = using[t]]
    /\ using' = [using EXCEPT ![t] = NoBroker]
    /\ Lock(t, c)
    /\ UNCHANGED <<creds, created, closed, up, conn, key, result, received>>

(* broker.place_order, the first time or again after an eviction.          *)
PlaceOrder(t) ==
    LET valid == using[t].key = accepted[conn[t]] IN
    /\ pc[t] = "place"
    /\ \/ /\ valid
          /\ Finish(t, "filled")
          /\ UNCHANGED <<creds, cache, up, received>>
       \/ /\ "fail" \in Env
          /\ Finish(t, "broker_error")
          /\ UNCHANGED <<creds, cache, up, received>>
       \/ /\ ~valid /\ "rejected" \in AuthErrors
          /\ Finish(t, "rejected")
          /\ UNCHANGED <<creds, cache, up, received>>
       \/ /\ ~valid /\ "raised" \in AuthErrors
          /\ failed[t] # NoBroker
          /\ Finish(t, "broker_error")
          /\ UNCHANGED <<creds, cache, up, received>>
       \/ /\ ~valid /\ "raised" \in AuthErrors
          /\ failed[t] = NoBroker
          /\ EvictAndGet(t)

Handle(t) ==
    \/ Get(t) \/ Locked(t) \/ FetchCredentials(t) \/ CreateBroker(t) \/ PlaceOrder(t)

-----------------------------------------------------------------------------
(* The user, at the exchange and through the API; the process ending.      *)

RotateKey(c) ==
    /\ "rotate" \in Env
    /\ accepted[c] < MaxKey
    /\ accepted' = [accepted EXCEPT ![c] = @ + 1]
    /\ UNCHANGED <<stored, cache, up, pc, local, result, received>>

(* PATCH: the row gets the new key; the pool is not told.                  *)
UpdateCredentials(c) ==
    /\ stored[c] \notin {NoKey, accepted[c]}
    /\ stored' = [stored EXCEPT ![c] = accepted[c]]
    /\ UNCHANGED <<accepted, cache, up, pc, local, result, received>>

DeleteConnection(c) ==
    /\ "delete" \in Env
    /\ stored[c] # NoKey
    /\ stored' = [stored EXCEPT ![c] = NoKey]
    /\ UNCHANGED <<accepted, cache, up, pc, local, result, received>>

(* close_all(), in the lifespan shutdown: uvicorn gets there when every    *)
(* request has been answered.                                              *)
CloseAll ==
    /\ "shutdown" \in Env
    /\ up
    /\ \A t \in Tasks : pc[t] = "idle"
    /\ closed' = closed \cup {<<c, pool[c].id>> : c \in {d \in Conns : pool[d] # NoBroker}}
    /\ pool' = [c \in Conns |-> NoBroker]
    /\ waiting' = [c \in Conns |-> << >>]
    /\ up' = FALSE
    /\ UNCHANGED <<creds, created, pc, local, result, received>>

Next ==
    \/ \E t \in Tasks : Receive(t) \/ Handle(t)
    \/ \E c \in Conns : RotateKey(c) \/ UpdateCredentials(c) \/ DeleteConnection(c)
    \/ CloseAll

Spec == Init /\ [][Next]_vars

(* The event loop resumes every coroutine whose await has completed, the   *)
(* clients have timeouts, and asyncio.Lock wakes its waiters in order.     *)
FairSpec == Spec /\ \A t \in Tasks : WF_vars(Handle(t))

-----------------------------------------------------------------------------
(* Properties.                                                             *)

(* Every variable stays in its set, and a broker is only ever              *)
(* authenticated, pooled and used with credentials that were in the        *)
(* database.                                                               *)
TypeOK ==
    /\ stored \in [Conns -> Nat] /\ accepted \in [Conns -> Nat]
    /\ pool \in [Conns -> Brokers]
    /\ waiting \in [Conns -> Seq(Tasks)]
    /\ created \in [Conns -> Nat]
    /\ closed \subseteq Conns \X Nat
    /\ up \in BOOLEAN
    /\ pc \in [Tasks -> Steps]
    /\ conn \in [Tasks -> Conns]
    /\ key \in [Tasks -> Nat]
    /\ using \in [Tasks -> Brokers]
    /\ failed \in [Tasks -> Brokers]
    /\ result \in Results
    /\ received \in Nat
    /\ \A c \in Conns : pool[c] # NoBroker => pool[c].key # NoKey
    /\ \A t \in Tasks : /\ pc[t] = "auth" => key[t] # NoKey
                        /\ pc[t] = "place" => using[t].key # NoKey

(* The double-checked lock is not seen: however many orders miss the cache *)
(* together, fail, evict and retry, the pool is one in which finding or    *)
(* making a broker is a single step, nobody else's broker is replaced, and *)
(* none is held when the pool is closed.                                   *)
Atomic == INSTANCE AtomicPool WITH
    open   <- up,
    pooled <- [c \in Conns |-> pool[c].id],
    issued <- created,
    held   <- [t \in Tasks |->
                  IF using[t] = NoBroker THEN {} ELSE {<<conn[t], using[t].id>>}]

Implements == Atomic!Spec

(* "Thundering herd: only one auth": while a broker is pooled nobody       *)
(* authenticates another one over it; an entry only leaves the pool by an  *)
(* eviction.                                                               *)
NoOverwrite ==
    [][\A c \in Conns : pool[c] # NoBroker => pool'[c] \in {pool[c], NoBroker}]_vars

(* "In-flight orders stay alive": no order is placed with a closed broker, *)
(* though other orders may have evicted it in the meantime.                *)
InFlightOpen ==
    \A t \in Tasks : pc[t] = "place" => <<conn[t], using[t].id>> \notin closed

(* The retry after an authentication error never uses the broker that just *)
(* failed, even when other orders evict and create at the same time.       *)
RetryIsFresh ==
    \A t \in Tasks :
       pc[t] = "place" /\ failed[t] # NoBroker => using[t].id > failed[t].id

(* Nobody waits for a lock that nobody will release: who waits is in its   *)
(* queue, and the head of a queue is a task between the lock and its       *)
(* release.  What EveryOrderAnswered rests on.                             *)
LockServed ==
    /\ \A t \in Tasks : pc[t] = "lock" =>
           \E i \in 1 .. Len(waiting[conn[t]]) : waiting[conn[t]][i] = t
    /\ \A c \in Conns : waiting[c] # << >> =>
           LET t == Head(waiting[c])
           IN  t \in Tasks /\ conn[t] = c /\ pc[t] \in {"lock", "fetch", "auth"}

(* Every order is answered: no exception, eviction or cancelled creation   *)
(* leaves a task waiting for the lock of its connection for ever.          *)
EveryOrderAnswered == \A t \in Tasks : pc[t] # "idle" ~> pc[t] = "idle"

(* "Place order, retry once on auth error": an order the exchange refuses  *)
(* for its key does not fail on the first attempt.                         *)
(* The code does not keep this; see "More disagreements" in the README.    *)
AuthErrorRetried ==
    [][\A t \in Tasks :
          (pc[t] = "place" /\ using[t].key # accepted[conn[t]] /\ failed[t] = NoBroker)
             => pc'[t] # "idle"]_vars
=============================================================================
