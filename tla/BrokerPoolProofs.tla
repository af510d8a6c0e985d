-------------------------- MODULE BrokerPoolProofs --------------------------
(***************************************************************************)
(* Theorems about BrokerPool, for all connections, tasks, adapters and     *)
(* environments.                                                           *)
(***************************************************************************)
EXTENDS BrokerPool, TLAPS

(* The queue of a connection's lock: who is in get() is in the queue, and  *)
(* who has passed the second lookup is its head and finds the pool empty.  *)
Queued(t) == \E i \in 1..Len(waiting[conn[t]]) : waiting[conn[t]][i] = t

Creating(t) == /\ waiting[conn[t]] # << >>
               /\ Head(waiting[conn[t]]) = t
               /\ pool[conn[t]] = NoBroker

LockInv == \A t \in Tasks : /\ pc[t] \in {"lock", "fetch", "auth"} => Queued(t)
                            /\ pc[t] \in {"fetch", "auth"} => Creating(t)

(* The variables but the outcome, and what their contents mean.            *)
Types ==
    /\ stored \in [Conns -> Nat] /\ accepted \in [Conns -> Nat]
    /\ pool \in [Conns -> Brokers]
    /\ waiting \in [Conns -> Seq(Tasks)]
    /\ created \in [Conns -> Nat]
    /\ closed \subseteq Conns \X Nat
    /\ pc \in [Tasks -> Steps]
    /\ conn \in [Tasks -> Conns]
    /\ key \in [Tasks -> Nat]
    /\ using \in [Tasks -> Brokers]
    /\ failed \in [Tasks -> Brokers]
    /\ received \in Nat

KeysRead ==
    /\ \A c \in Conns : pool[c] # NoBroker => pool[c].key # NoKey
    /\ \A t \in Tasks : /\ pc[t] = "auth" => key[t] # NoKey
                        /\ pc[t] = "place" => using[t].key # NoKey

Outcome == up \in BOOLEAN /\ result \in Results

Inv == Types /\ LockInv /\ KeysRead

-----------------------------------------------------------------------------
(* Releasing the lock keeps everybody else in the queue.                   *)
LEMMA TailKeeps ==
  ASSUME NEW S, NEW q \in Seq(S), NEW i \in 1..Len(q), q[i] # Head(q)
  PROVE  /\ Tail(q) \in Seq(S)
         /\ \E j \in 1..Len(Tail(q)) : Tail(q)[j] = q[i]
<1>1. i # 1 /\ q # << >>
  OBVIOUS
<1>2. i - 1 \in 1..Len(Tail(q)) /\ Tail(q)[i - 1] = q[i]
  BY <1>1
<1>. QED BY <1>1, <1>2

LEMMA AppendKeeps ==
  ASSUME NEW S, NEW q \in Seq(S), NEW x \in S
  PROVE  /\ Append(q, x) \in Seq(S)
         /\ Append(q, x) # << >>
         /\ Head(Append(q, x)) = IF q = << >> THEN x ELSE Head(q)
         /\ \E j \in 1..Len(Append(q, x)) : Append(q, x)[j] = x
         /\ \A i \in 1..Len(q) : i \in 1..Len(Append(q, x)) /\ Append(q, x)[i] = q[i]
<1>1. Len(q) + 1 \in 1..Len(Append(q, x)) /\ Append(q, x)[Len(q) + 1] = x
  OBVIOUS
<1>. QED BY <1>1

LEMMA InitInv == Init => Inv /\ Outcome
<1> SUFFICES ASSUME Init PROVE Inv /\ Outcome
  OBVIOUS
<1> USE DEF Init, NoBroker, NoKey, Brokers
<1>1. Types
  BY DEF Types, Steps
<1>2. LockInv
  BY DEF LockInv
<1>3. KeysRead
  BY DEF KeysRead
<1>4. Outcome
  BY DEF Outcome, Results
<1>. QED BY <1>1, <1>2, <1>3, <1>4 DEF Inv

(* The three things a step may do to a lock: nothing, queue up, release.   *)
LEMMA LockKept ==
  ASSUME LockInv, waiting' = waiting, conn' = conn,
         \A c \in Conns : pool[c] = NoBroker => pool'[c] = NoBroker,
         Types,
         \A u \in Tasks : \/ pc'[u] = pc[u]
                          \/ pc'[u] \in {"idle", "get", "place"}
                          \/ pc[u] = "fetch" /\ pc'[u] = "auth"
  PROVE  LockInv'
BY DEF LockInv, Queued, Creating, Types

LEMMA LockQueued ==
  ASSUME Types, LockInv, NEW t \in Tasks, Lock(t, conn[t]),
         pc[t] \in {"get", "place"}, conn' = conn,
         \A c \in Conns : pool[c] = NoBroker => pool'[c] = NoBroker,
         pool'[conn[t]] = NoBroker
  PROVE  waiting' \in [Conns -> Seq(Tasks)] /\ pc' \in [Tasks -> Steps] /\ LockInv'
<1> DEFINE c == conn[t]
           q == waiting[c]
<1>1. c \in Conns /\ q \in Seq(Tasks)
  BY DEF Types
<1>2. waiting' = [waiting EXCEPT ![c] = Append(q, t)]
  BY DEF Lock
<1>3. pc' = [pc EXCEPT ![t] = IF q = << >> THEN "fetch" ELSE "lock"]
  BY DEF Lock, Goto
<1> HIDE DEF c, q
<1>4. waiting' \in [Conns -> Seq(Tasks)] /\ pc' \in [Tasks -> Steps]
  BY <1>1, <1>2, <1>3, AppendKeeps DEF Types, Steps
<1>5. waiting'[c] = Append(q, t) /\ \A d \in Conns : d # c => waiting'[d] = waiting[d]
  BY <1>1, <1>2 DEF Types
<1>6. ASSUME NEW u \in Tasks
      PROVE  /\ pc'[u] \in {"lock", "fetch", "auth"} => Queued(u)'
             /\ pc'[u] \in {"fetch", "auth"} => Creating(u)'
  <2>0. conn[u] \in Conns
    BY DEF Types
  <2>1. CASE u = t
    <3>1. Queued(u)'
      BY <2>1, <1>1, <1>5, AppendKeeps DEF Queued, c
    <3>2. pc'[u] \in {"fetch", "auth"} => q = << >>
      BY <2>1, <1>3 DEF Types
    <3>. QED BY <2>1, <3>1, <3>2, <1>1, <1>5, AppendKeeps DEF Creating, c
  <2>2. CASE u # t
    <3>1. pc'[u] = pc[u]
      BY <2>2, <1>3 DEF Types
    <3>2. CASE conn[u] = c
      <4>1. Queued(u) => Queued(u)'
        BY <3>2, <1>1, <1>5, AppendKeeps DEF Queued, q
      <4>2. Creating(u) => Creating(u)'
        BY <2>0, <3>2, <1>1, <1>5, AppendKeeps DEF Creating, q
      <4>. QED BY <3>1, <4>1, <4>2 DEF LockInv
    <3>3. CASE conn[u] # c
      BY <2>0, <3>1, <3>3, <1>5 DEF LockInv, Queued, Creating
    <3>. QED BY <3>2, <3>3
  <2>. QED BY <2>1, <2>2
<1>. QED BY <1>4, <1>6 DEF LockInv

LEMMA LockReleased ==
  ASSUME Types, LockInv, NEW t \in Tasks, Release(conn[t]),
         Queued(t), Head(waiting[conn[t]]) = t, conn' = conn,
         NEW s \in {"idle", "place"}, pc' = [pc EXCEPT ![t] = s],
         \A c \in Conns : c # conn[t] => pool'[c] = pool[c]
  PROVE  waiting' \in [Conns -> Seq(Tasks)] /\ pc' \in [Tasks -> Steps] /\ LockInv'
<1> DEFINE c == conn[t]
           q == waiting[c]
<1>1. c \in Conns /\ q \in Seq(Tasks) /\ q # << >> /\ Head(q) = t
  BY DEF Types, Queued
<1>2. waiting' = [waiting EXCEPT ![c] = Tail(q)]
  BY DEF Release
<1>3. Tail(q) \in Seq(Tasks)
  BY <1>1
<1> HIDE DEF c, q
<1>4. waiting' \in [Conns -> Seq(Tasks)] /\ pc' \in [Tasks -> Steps]
  BY <1>1, <1>2, <1>3 DEF Types, Steps
<1>5. waiting'[c] = Tail(q) /\ \A d \in Conns : d # c => waiting'[d] = waiting[d]
  BY <1>1, <1>2 DEF Types
<1>6. ASSUME NEW u \in Tasks
      PROVE  /\ pc'[u] \in {"lock", "fetch", "auth"} => Queued(u)'
             /\ pc'[u] \in {"fetch", "auth"} => Creating(u)'
  <2>0. conn[u] \in Conns
    BY DEF Types
  <2>1. CASE u = t
    BY <2>1 DEF Types
  <2>2. CASE u # t
    <3>1. pc'[u] = pc[u]
      BY <2>2 DEF Types
    <3>2. CASE conn[u] = c
      <4>1. ~Creating(u)
        BY <2>2, <3>2, <1>1 DEF Creating, q
      <4>2. Queued(u) => Queued(u)'
        BY <2>2, <3>2, <1>1, <1>5, TailKeeps DEF Queued, q
      <4>. QED BY <3>1, <4>1, <4>2 DEF LockInv
    <3>3. CASE conn[u] # c
      BY <2>0, <3>1, <3>3, <1>5 DEF LockInv, Queued, Creating, c
    <3>. QED BY <3>2, <3>3
  <2>. QED BY <2>1, <2>2
<1>. QED BY <1>4, <1>6 DEF LockInv

-----------------------------------------------------------------------------
(* The steps of an order.                                                  *)

LEMMA CreateFailsStep ==
  ASSUME Inv, NEW t \in Tasks, pc[t] \in {"fetch", "auth"}, CreateFails(t)
  PROVE  Inv'
<1> USE DEF Inv
<1>1. pc' = [pc EXCEPT ![t] = "idle"] /\ pool' = pool /\ conn' = conn
  BY DEF CreateFails, Finish, Goto
<1>2. waiting' \in [Conns -> Seq(Tasks)] /\ pc' \in [Tasks -> Steps] /\ LockInv'
  BY <1>1, LockReleased DEF LockInv, Creating, CreateFails
<1>3. Types'
  BY <1>2 DEF Types, CreateFails, Finish, Brokers, NoBroker, NoKey, creds
<1>4. KeysRead'
  BY <1>1 DEF KeysRead, Types, CreateFails, Finish
<1>. QED BY <1>2, <1>3, <1>4

LEMMA GetStep == ASSUME Inv, NEW t \in Tasks, Get(t) PROVE Inv'
<1> USE DEF Inv
<1> DEFINE c == conn[t]
<1>0. c \in Conns /\ pool' = pool /\ conn' = conn /\ pc[t] = "get"
  BY DEF Get, Types
<1>1. CASE pool[c] # NoBroker
  <2>1. using' = [using EXCEPT ![t] = pool[c]] /\ pc' = [pc EXCEPT ![t] = "place"]
        /\ UNCHANGED waiting
    BY <1>1 DEF Get, Use, Goto
  <2>2. Types'
    BY <1>0, <2>1 DEF Types, Get, creds, Steps
  <2>3. LockInv'
    BY <1>0, <2>1, LockKept DEF Types
  <2>4. KeysRead'
    BY <1>0, <1>1, <2>1 DEF KeysRead, Types, Get
  <2>. QED BY <2>2, <2>3, <2>4
<1>2. CASE pool[c] = NoBroker
  <2>1. Lock(t, c) /\ UNCHANGED using
    BY <1>2 DEF Get
  <2>2. waiting' \in [Conns -> Seq(Tasks)] /\ pc' \in [Tasks -> Steps] /\ LockInv'
    BY <1>0, <1>2, <2>1, LockQueued
  <2>3. Types'
    BY <1>0, <2>1, <2>2 DEF Types, Get, creds
  <2>4. KeysRead'
    BY <1>0, <2>1 DEF KeysRead, Types, Get, Lock, Goto
  <2>. QED BY <2>2, <2>3, <2>4
<1>. QED BY <1>1, <1>2

LEMMA LockedStep == ASSUME Inv, NEW t \in Tasks, Locked(t) PROVE Inv'
<1> USE DEF Inv
<1> DEFINE c == conn[t]
<1>0. c \in Conns /\ pool' = pool /\ conn' = conn /\ pc[t] = "lock"
      /\ Head(waiting[c]) = t /\ Queued(t)
  BY DEF Locked, Types, LockInv
<1>1. CASE pool[c] # NoBroker
  <2>1. using' = [using EXCEPT ![t] = pool[c]] /\ pc' = [pc EXCEPT ![t] = "place"]
        /\ Release(c)
    BY <1>1 DEF Locked, Use, Goto
  <2>2. waiting' \in [Conns -> Seq(Tasks)] /\ pc' \in [Tasks -> Steps] /\ LockInv'
    BY <1>0, <2>1, LockReleased
  <2>3. Types'
    BY <1>0, <2>1, <2>2 DEF Types, Locked, creds
  <2>4. KeysRead'
    BY <1>0, <1>1, <2>1 DEF KeysRead, Types, Locked
  <2>. QED BY <2>2, <2>3, <2>4
<1>2. CASE pool[c] = NoBroker
  <2>1. pc' = [pc EXCEPT ![t] = "fetch"] /\ UNCHANGED <<using, waiting>>
    BY <1>2 DEF Locked, Goto
  <2>2. Types'
    BY <1>0, <2>1 DEF Types, Locked, creds, Steps
  <2>3. LockInv'
    <3>1. Creating(t)'
      BY <1>0, <1>2, <2>1 DEF Creating, Queued, Types
    <3>2. \A u \in Tasks : /\ Queued(u) => Queued(u)'
                           /\ Creating(u) => Creating(u)'
      BY <1>0, <2>1 DEF Queued, Creating
    <3>. QED BY <1>0, <2>1, <3>1, <3>2 DEF LockInv, Types
  <2>4. KeysRead'
    BY <1>0, <2>1 DEF KeysRead, Types, Locked
  <2>. QED BY <2>2, <2>3, <2>4
<1>. QED BY <1>1, <1>2

LEMMA FetchStep == ASSUME Inv, NEW t \in Tasks, FetchCredentials(t) PROVE Inv'
<1> USE DEF Inv
<1>0. pc[t] = "fetch"
  BY DEF FetchCredentials
<1>1. CASE CreateFails(t)
  BY <1>0, <1>1, CreateFailsStep
<1>2. CASE ~CreateFails(t)
  <2>1. /\ stored[conn[t]] # NoKey
        /\ key' = [key EXCEPT ![t] = stored[conn[t]]]
        /\ pc' = [pc EXCEPT ![t] = "auth"]
        /\ UNCHANGED <<creds, cache, up, conn, using, failed, result, received>>
    BY <1>2 DEF FetchCredentials, Goto
  <2>2. Types'
    BY <2>1 DEF Types, creds, cache, Steps
  <2>3. LockInv'
    BY <1>0, <2>1, LockKept DEF cache, Types
  <2>4. KeysRead'
    BY <2>1 DEF KeysRead, Types, cache
  <2>. QED BY <2>2, <2>3, <2>4
<1>. QED BY <1>1, <1>2

LEMMA CreateStep == ASSUME Inv, NEW t \in Tasks, CreateBroker(t) PROVE Inv'
<1> USE DEF Inv
<1> DEFINE c == conn[t]
           b == [id |-> created[c] + 1, key |-> key[t]]
<1>0. pc[t] = "auth" /\ c \in Conns /\ b \in Brokers /\ b # NoBroker
  BY DEF CreateBroker, Types, Brokers, NoBroker
<1>1. CASE CreateFails(t)
  BY <1>0, <1>1, CreateFailsStep
<1>2. CASE ~CreateFails(t)
  <2>1. /\ pool' = [pool EXCEPT ![c] = b]
        /\ created' = [created EXCEPT ![c] = b.id]
        /\ using' = [using EXCEPT ![t] = b]
        /\ Release(c)
        /\ pc' = [pc EXCEPT ![t] = "place"]
        /\ UNCHANGED <<creds, closed, up, conn, key, failed, result, received>>
    BY <1>2 DEF CreateBroker, Goto
  <2>2. Queued(t) /\ Head(waiting[c]) = t
    BY <1>0 DEF LockInv, Creating
  <2>3. waiting' \in [Conns -> Seq(Tasks)] /\ pc' \in [Tasks -> Steps] /\ LockInv'
    BY <2>1, <2>2, LockReleased DEF Types
  <2>4. Types'
    <3>1. b.id \in Nat
      BY <1>0 DEF Types
    <3>. QED BY <1>0, <2>1, <2>3, <3>1 DEF Types, creds
  <2>5. KeysRead'
    <3>1. b.key # NoKey
      BY <1>0 DEF KeysRead
    <3>. QED BY <1>0, <2>1, <3>1 DEF KeysRead, Types
  <2>. QED BY <2>3, <2>4, <2>5
<1>. QED BY <1>1, <1>2

LEMMA PlaceStep == ASSUME Inv, NEW t \in Tasks, PlaceOrder(t) PROVE Inv'
<1> USE DEF Inv
<1>0. pc[t] = "place"
  BY DEF PlaceOrder
<1>1. CASE EvictAndGet(t)
  <2>1. /\ pool' = [pool EXCEPT ![conn[t]] = NoBroker]
        /\ failed' = [failed EXCEPT ![t] = using[t]]
        /\ using' = [using EXCEPT ![t] = NoBroker]
        /\ Lock(t, conn[t])
        /\ UNCHANGED <<creds, created, closed, up, conn, key, result, received>>
    BY <1>1 DEF EvictAndGet
  <2>2. waiting' \in [Conns -> Seq(Tasks)] /\ pc' \in [Tasks -> Steps] /\ LockInv'
    BY <1>0, <2>1, LockQueued DEF Types
  <2>3. Types'
    BY <2>1, <2>2 DEF Types, creds, Brokers, NoBroker, NoKey
  <2>4. KeysRead'
    BY <1>0, <2>1 DEF KeysRead, Types, Lock, Goto
  <2>. QED BY <2>2, <2>3, <2>4
<1>2. CASE ~EvictAndGet(t)
  <2>1. PICK r : Finish(t, r)
    BY <1>2 DEF PlaceOrder
  <2>2. UNCHANGED <<creds, cache, received>>
    BY <1>2 DEF PlaceOrder
  <2>3. /\ pc' = [pc EXCEPT ![t] = "idle"]
        /\ key' = [key EXCEPT ![t] = NoKey]
        /\ using' = [using EXCEPT ![t] = NoBroker]
        /\ failed' = [failed EXCEPT ![t] = NoBroker]
        /\ conn' = conn
    BY <2>1 DEF Finish, Goto
  <2>4. Types'
    BY <2>2, <2>3 DEF Types, Steps, creds, cache, Brokers, NoBroker, NoKey
  <2>5. LockInv'
    BY <2>2, <2>3, LockKept DEF cache, Types
  <2>6. KeysRead'
    BY <2>2, <2>3 DEF KeysRead, Types, cache
  <2>. QED BY <2>4, <2>5, <2>6
<1>. QED BY <1>1, <1>2

LEMMA ReceiveStep == ASSUME Inv, NEW t \in Tasks, Receive(t) PROVE Inv'
<1> USE DEF Inv
<1>1. PICK c \in Conns : conn' = [conn EXCEPT ![t] = c]
  BY DEF Receive
<1>2. pc[t] = "idle" /\ pc' = [pc EXCEPT ![t] = "get"]
      /\ UNCHANGED <<creds, cache, key, using, failed>>
  BY DEF Receive, Goto
<1>3. Types'
  <2>1. received' \in Nat
    BY DEF Receive, Types
  <2>. QED BY <1>1, <1>2, <2>1 DEF Types, Steps, creds, cache
<1>4. LockInv'
  <2>1. \A u \in Tasks : u # t => /\ pc'[u] = pc[u]
                                  /\ conn'[u] = conn[u]
                                  /\ Queued(u) => Queued(u)'
                                  /\ Creating(u) => Creating(u)'
    BY <1>1, <1>2 DEF Types, Queued, Creating, cache
  <2>2. pc'[t] = "get"
    BY <1>2 DEF Types
  <2>. QED BY <2>1, <2>2 DEF LockInv
<1>5. KeysRead'
  BY <1>2 DEF KeysRead, Types, cache
<1>. QED BY <1>3, <1>4, <1>5

(* What the user does reaches the database and the exchange, not the pool. *)
LEMMA UserStep ==
  ASSUME Inv, NEW c \in Conns, RotateKey(c) \/ UpdateCredentials(c) \/ DeleteConnection(c)
  PROVE  Inv'
<1> USE DEF Inv
<1>0. UNCHANGED <<cache, pc, local, received>>
  BY DEF RotateKey, UpdateCredentials, DeleteConnection
<1>1. stored' \in [Conns -> Nat] /\ accepted' \in [Conns -> Nat]
  <2>1. CASE RotateKey(c)
    <3>1. accepted[c] + 1 \in Nat
      BY DEF Types
    <3>. QED BY <2>1, <3>1 DEF RotateKey, Types
  <2>2. CASE UpdateCredentials(c)
    BY <2>2 DEF UpdateCredentials, Types
  <2>3. CASE DeleteConnection(c)
    BY <2>3 DEF DeleteConnection, Types, NoKey
  <2>. QED BY <2>1, <2>2, <2>3
<1>2. Types'
  BY <1>0, <1>1 DEF Types, cache, local
<1>3. LockInv'
  BY <1>0, LockKept DEF cache, local, Types
<1>4. KeysRead'
  BY <1>0 DEF KeysRead, cache, local
<1>. QED BY <1>2, <1>3, <1>4

LEMMA CloseAllStep == ASSUME Inv, CloseAll PROVE Inv'
<1> USE DEF Inv
<1>1. Types'
  <2>1. closed' \subseteq Conns \X Nat
    BY DEF CloseAll, Types, Brokers
  <2>. QED BY <2>1 DEF CloseAll, Types, creds, local, Brokers, NoBroker, NoKey
<1>2. LockInv'
  BY DEF CloseAll, LockInv
<1>3. KeysRead'
  BY DEF CloseAll, KeysRead
<1>. QED BY <1>1, <1>2, <1>3

LEMMA InvInductive == Inv /\ [Next]_vars => Inv'
<1> SUFFICES ASSUME Inv, [Next]_vars PROVE Inv'
  OBVIOUS
<1>1. CASE UNCHANGED vars
  <2>1. UNCHANGED <<stored, accepted, pool, waiting, created, closed, pc, conn, key,
                    using, failed, received>>
    BY <1>1 DEF vars, creds, cache, local
  <2>. QED BY <2>1 DEF Inv, Types, LockInv, KeysRead, Queued, Creating
<1>2. CASE Next
  BY <1>2, ReceiveStep, GetStep, LockedStep, FetchStep, CreateStep, PlaceStep,
     UserStep, CloseAllStep DEF Next, Handle
<1>. QED BY <1>1, <1>2

LEMMA OutcomeInductive == Outcome /\ [Next]_vars => Outcome'
BY DEF Outcome, Results, Next, vars, Receive, Handle, Get, Locked, FetchCredentials,
   CreateBroker, CreateFails, PlaceOrder, EvictAndGet, Finish, RotateKey,
   UpdateCredentials, DeleteConnection, CloseAll

(* The variables hold what the code puts there: a broker is only ever      *)
(* authenticated, pooled and used with credentials read from the database. *)
THEOREM TypeCorrect == Spec => []TypeOK
<1>1. Init => Inv /\ Outcome
  BY InitInv
<1>2. Inv /\ Outcome /\ [Next]_vars => Inv' /\ Outcome'
  BY InvInductive, OutcomeInductive DEF Inv
<1>3. Inv /\ Outcome => TypeOK
  BY DEF Inv, Types, KeysRead, Outcome, TypeOK
<1>. QED BY <1>1, <1>2, <1>3, PTL DEF Spec

(* Only the holder of a connection's lock pools a broker, and only after   *)
(* it has found the pool empty: no pooled broker is ever overwritten.      *)
THEOREM OneBrokerAtATime == Spec => NoOverwrite
<1> DEFINE Kept(c) == pool[c] # NoBroker => pool'[c] \in {pool[c], NoBroker}
<1>1. Inv /\ [Next]_vars => [\A c \in Conns : Kept(c)]_vars
  <2> SUFFICES ASSUME Inv, [Next]_vars, NEW c \in Conns PROVE Kept(c)
    OBVIOUS
  <2> USE DEF Inv
  <2>1. CASE pool' = pool
    BY <2>1
  <2>2. ASSUME NEW t \in Tasks, CreateBroker(t) PROVE Kept(c)
    <3>1. pc[t] = "auth" /\ (conn[t] # c => pool'[c] = pool[c])
      BY <2>2 DEF CreateBroker, CreateFails, Types
    <3>2. conn[t] = c => pool[c] = NoBroker
      BY <3>1 DEF LockInv, Creating
    <3>. QED BY <3>1, <3>2
  <2>3. ASSUME NEW t \in Tasks, PlaceOrder(t) PROVE Kept(c)
    BY <2>3 DEF PlaceOrder, EvictAndGet, cache, Types
  <2>4. CASE CloseAll
    BY <2>4 DEF CloseAll
  <2>5. CASE ~(pool' = pool) /\ ~CloseAll
    <3>1. \E t \in Tasks : CreateBroker(t) \/ PlaceOrder(t)
      BY <2>5 DEF Next, Handle, vars, cache, Receive, Get, Locked, FetchCredentials,
         CreateFails, RotateKey, UpdateCredentials, DeleteConnection
    <3>. QED BY <3>1, <2>2, <2>3
  <2>. QED BY <2>1, <2>4, <2>5
<1>2. Init => Inv
  BY InitInv
<1>3. Inv /\ [Next]_vars => Inv'
  BY InvInductive
<1>. QED BY <1>1, <1>2, <1>3, PTL DEF Spec, NoOverwrite

-----------------------------------------------------------------------------
(* The numbers of the brokers: nothing that failed is pooled again.        *)
TaskIds(t) ==
    /\ using[t].id <= created[conn[t]]
    /\ failed[t].id <= created[conn[t]]
    /\ pc[t] \in {"idle", "get"} => using[t] = NoBroker /\ failed[t] = NoBroker
    /\ failed[t] # NoBroker /\ pool[conn[t]] # NoBroker => pool[conn[t]].id > failed[t].id
    /\ failed[t] # NoBroker /\ pc[t] = "place" => using[t].id > failed[t].id

IdInv == /\ \A c \in Conns : pool[c].id <= created[c]
         /\ \A t \in Tasks : TaskIds(t)

(* A step that creates no broker and changes at most one task.             *)
LEMMA OthersKeepIds ==
  ASSUME Types, IdInv, NEW t \in Tasks, created' = created, conn' = conn,
         \A c \in Conns : pool'[c] \in {pool[c], NoBroker},
         \A u \in Tasks : u # t =>
            pc'[u] = pc[u] /\ using'[u] = using[u] /\ failed'[u] = failed[u],
         TaskIds(t)'
  PROVE  IdInv'
<1>1. ASSUME NEW c \in Conns PROVE pool'[c].id <= created'[c]
  <2>1. created[c] \in Nat /\ pool[c].id <= created[c] /\ NoBroker.id = 0
    BY DEF IdInv, Types, NoBroker
  <2>2. pool'[c].id = pool[c].id \/ pool'[c].id = 0
    <3>1. CASE pool'[c] = pool[c]
      BY <3>1
    <3>2. CASE pool'[c] = NoBroker
      BY <3>2, <2>1
    <3>. QED BY <3>1, <3>2
  <2>. QED BY <2>1, <2>2
<1>2. ASSUME NEW u \in Tasks, u # t PROVE TaskIds(u)'
  <2>1. conn[u] \in Conns /\ TaskIds(u)
    BY DEF IdInv, Types
  <2>2. pool'[conn[u]] \in {pool[conn[u]], NoBroker}
    BY <2>1
  <2>. QED BY <1>2, <2>1, <2>2 DEF TaskIds
<1>. QED BY <1>1, <1>2 DEF IdInv

LEMMA FinishKeepsIds ==
  ASSUME Types, IdInv, NEW t \in Tasks, NEW r, Finish(t, r), pool' = pool,
         created' = created
  PROVE  IdInv'
<1>1. /\ pc' = [pc EXCEPT ![t] = "idle"] /\ conn' = conn
      /\ using' = [using EXCEPT ![t] = NoBroker]
      /\ failed' = [failed EXCEPT ![t] = NoBroker]
  BY DEF Finish, Goto
<1>2. /\ failed'[t] = NoBroker /\ using'[t] = NoBroker /\ pc'[t] = "idle"
      /\ created[conn[t]] \in Nat /\ NoBroker.id = 0
  BY <1>1 DEF Types, NoBroker
<1>3. TaskIds(t)'
  BY <1>1, <1>2 DEF TaskIds
<1>. QED BY <1>1, <1>3, OthersKeepIds DEF Types

LEMMA UseKeepsIds ==
  ASSUME Types, IdInv, NEW t \in Tasks, Use(t, conn[t]), pool[conn[t]] # NoBroker,
         UNCHANGED <<pool, created, conn, failed>>
  PROVE  IdInv'
<1>1. pc' = [pc EXCEPT ![t] = "place"] /\ using' = [using EXCEPT ![t] = pool[conn[t]]]
  BY DEF Use, Goto
<1>2. pc'[t] = "place" /\ using'[t] = pool[conn[t]] /\ conn[t] \in Conns
  BY <1>1 DEF Types
<1>3. TaskIds(t)'
  BY <1>2 DEF TaskIds, IdInv
<1>. QED BY <1>1, <1>3, OthersKeepIds DEF Types

LEMMA MoveKeepsIds ==
  ASSUME Types, IdInv, NEW t \in Tasks, NEW s \in {"lock", "fetch", "auth"},
         pc' = [pc EXCEPT ![t] = s], UNCHANGED <<pool, created, conn, using, failed>>
  PROVE  IdInv'
<1>1. TaskIds(t)'
  BY DEF TaskIds, IdInv, Types
<1>. QED BY <1>1, OthersKeepIds DEF Types

LEMMA CreateKeepsIds ==
  ASSUME Inv, IdInv, NEW t \in Tasks, CreateBroker(t), ~CreateFails(t)
  PROVE  IdInv'
<1> DEFINE c == conn[t]
           b == [id |-> created[c] + 1, key |-> key[t]]
<1>1. /\ pool' = [pool EXCEPT ![c] = b]
      /\ created' = [created EXCEPT ![c] = b.id]
      /\ using' = [using EXCEPT ![t] = b]
      /\ pc' = [pc EXCEPT ![t] = "place"]
      /\ UNCHANGED <<conn, failed>>
  BY DEF CreateBroker, Goto
<1>2. c \in Conns /\ created[c] \in Nat /\ b.id = created[c] + 1
  BY DEF Inv, Types
<1>3. pool'[c] = b /\ created'[c] = b.id /\ using'[t] = b
  BY <1>1, <1>2 DEF Inv, Types
<1>4. \A d \in Conns : d # c => pool'[d] = pool[d] /\ created'[d] = created[d]
  BY <1>1 DEF Inv, Types
<1>5. \A u \in Tasks : u # t => using'[u] = using[u] /\ pc'[u] = pc[u]
  BY <1>1 DEF Inv, Types
<1>6. pc'[t] = "place" /\ b.id \in Nat
  BY <1>1, <1>2 DEF Inv, Types
<1> HIDE DEF b
<1>7. ASSUME NEW d \in Conns PROVE pool'[d].id <= created'[d]
  BY <1>3, <1>4, <1>6 DEF IdInv
<1>8. ASSUME NEW u \in Tasks PROVE TaskIds(u)'
  <2>1. TaskIds(u) /\ conn[u] \in Conns /\ using[u].id \in Nat /\ failed[u].id \in Nat
    BY DEF IdInv, Inv, Types, Brokers
  <2>2. CASE u = t
    BY <2>1, <2>2, <1>1, <1>2, <1>3, <1>6 DEF TaskIds
  <2>3. CASE u # t /\ conn[u] = c
    <3>0. using'[u] = using[u] /\ pc'[u] = pc[u] /\ failed'[u] = failed[u] /\ conn'[u] = c
      BY <1>1, <1>5, <2>3
    <3>1. using[u].id <= created[c] /\ failed[u].id <= created[c]
      BY <2>1, <2>3 DEF TaskIds
    <3>2. using'[u].id <= created'[c] /\ failed'[u].id <= created'[c]
          /\ pool'[c].id > failed'[u].id
      BY <3>0, <3>1, <2>1, <1>2, <1>3
    <3>. QED BY <3>0, <3>2, <2>1 DEF TaskIds
  <2>4. CASE conn[u] # c
    BY <2>1, <2>4, <1>1, <1>4, <1>5 DEF TaskIds
  <2>. QED BY <2>2, <2>3, <2>4
<1>. QED BY <1>7, <1>8 DEF IdInv

LEMMA EvictKeepsIds ==
  ASSUME Types, IdInv, NEW t \in Tasks, EvictAndGet(t) PROVE IdInv'
<1>1. PICK s \in {"fetch", "lock"} : pc' = [pc EXCEPT ![t] = s]
  BY DEF EvictAndGet, Lock, Goto
<1>2. /\ pool' = [pool EXCEPT ![conn[t]] = NoBroker]
      /\ failed' = [failed EXCEPT ![t] = using[t]]
      /\ using' = [using EXCEPT ![t] = NoBroker]
      /\ UNCHANGED <<conn, created>>
  BY DEF EvictAndGet
<1>3. /\ using'[t].id = 0 /\ failed'[t] = using[t] /\ pool'[conn[t]] = NoBroker
      /\ pc'[t] = s /\ created[conn[t]] \in Nat
  BY <1>1, <1>2 DEF Types, NoBroker
<1>4. TaskIds(t)
  BY DEF IdInv
<1>5. TaskIds(t)'
  BY <1>2, <1>3, <1>4 DEF TaskIds
<1>6. \A c \in Conns : pool'[c] \in {pool[c], NoBroker}
  BY <1>2 DEF Types
<1>. QED BY <1>1, <1>2, <1>5, <1>6, OthersKeepIds DEF Types

LEMMA IdInductive == Inv /\ IdInv /\ [Next]_vars => IdInv'
<1> SUFFICES ASSUME Inv, IdInv, [Next]_vars PROVE IdInv'
  OBVIOUS
<1> USE DEF Inv
<1>1. ASSUME NEW t \in Tasks, Receive(t) PROVE IdInv'
  <2>0. /\ pc[t] = "idle" /\ pc' = [pc EXCEPT ![t] = "get"]
        /\ UNCHANGED <<pool, created, using, failed>>
    BY <1>1 DEF Receive, Goto, cache
  <2>1. PICK c \in Conns : conn' = [conn EXCEPT ![t] = c]
    BY <1>1 DEF Receive
  <2>2. \A u \in Tasks : u # t => TaskIds(u)'
    BY <2>0, <2>1 DEF IdInv, TaskIds, Types
  <2>3. TaskIds(t)'
    <3>1. failed[t] = NoBroker /\ using[t] = NoBroker
      BY <2>0 DEF IdInv, TaskIds
    <3>. QED BY <2>0, <2>1, <3>1 DEF TaskIds, Types, NoBroker
  <2>. QED BY <2>0, <2>2, <2>3 DEF IdInv
<1>2. ASSUME NEW t \in Tasks, Get(t) PROVE IdInv'
  <2>1. UNCHANGED <<pool, created, conn, failed>>
    BY <1>2 DEF Get
  <2>2. CASE pool[conn[t]] # NoBroker
    BY <1>2, <2>1, <2>2, UseKeepsIds DEF Get
  <2>3. CASE pool[conn[t]] = NoBroker
    <3>1. PICK s \in {"fetch", "lock"} : pc' = [pc EXCEPT ![t] = s]
      BY <1>2, <2>3 DEF Get, Lock, Goto
    <3>2. UNCHANGED using
      BY <1>2, <2>3 DEF Get
    <3>. QED BY <2>1, <3>1, <3>2, MoveKeepsIds
  <2>. QED BY <2>2, <2>3
<1>3. ASSUME NEW t \in Tasks, Locked(t) PROVE IdInv'
  <2>1. UNCHANGED <<pool, created, conn, failed>>
    BY <1>3 DEF Locked
  <2>2. CASE pool[conn[t]] # NoBroker
    BY <1>3, <2>1, <2>2, UseKeepsIds DEF Locked
  <2>3. CASE pool[conn[t]] = NoBroker
    BY <1>3, <2>1, <2>3, MoveKeepsIds DEF Locked, Goto
  <2>. QED BY <2>2, <2>3
<1>4. ASSUME NEW t \in Tasks, CreateFails(t) PROVE IdInv'
  BY <1>4, FinishKeepsIds DEF CreateFails
<1>5. ASSUME NEW t \in Tasks, FetchCredentials(t) PROVE IdInv'
  BY <1>4, <1>5, MoveKeepsIds DEF FetchCredentials, Goto, cache
<1>6. ASSUME NEW t \in Tasks, CreateBroker(t) PROVE IdInv'
  BY <1>4, <1>6, CreateKeepsIds
<1>7. ASSUME NEW t \in Tasks, PlaceOrder(t) PROVE IdInv'
  BY <1>7, EvictKeepsIds, FinishKeepsIds DEF PlaceOrder, cache
<1>8. ASSUME NEW c \in Conns, RotateKey(c) \/ UpdateCredentials(c) \/ DeleteConnection(c)
      PROVE  IdInv'
  BY <1>8 DEF RotateKey, UpdateCredentials, DeleteConnection, cache, local, IdInv, TaskIds
<1>9. CASE CloseAll
  <2>1. /\ \A c \in Conns : pool'[c] = NoBroker
        /\ UNCHANGED <<created, pc, conn, using, failed>>
    BY <1>9 DEF CloseAll, local
  <2>2. \A t \in Tasks : TaskIds(t)'
    BY <2>1 DEF IdInv, TaskIds, Types
  <2>3. \A c \in Conns : pool'[c].id <= created'[c]
    BY <2>1 DEF Types, NoBroker
  <2>. QED BY <2>2, <2>3 DEF IdInv
<1>10. CASE UNCHANGED vars
  BY <1>10 DEF vars, cache, local, IdInv, TaskIds
<1>. QED BY <1>1, <1>2, <1>3, <1>5, <1>6, <1>7, <1>8, <1>9, <1>10 DEF Next, Handle

(* A retry after an authentication error is placed with a broker created   *)
(* after the one that failed, whatever other orders evict and create.      *)
THEOREM RetryUsesNewBroker == Spec => []RetryIsFresh
<1>1. Init => Inv /\ IdInv
  BY InitInv DEF Init, IdInv, TaskIds, NoBroker, NoKey
<1>2. Inv /\ IdInv /\ [Next]_vars => Inv' /\ IdInv'
  BY InvInductive, IdInductive
<1>3. Inv /\ IdInv => RetryIsFresh
  BY DEF IdInv, TaskIds, RetryIsFresh
<1>. QED BY <1>1, <1>2, <1>3, PTL DEF Spec

-----------------------------------------------------------------------------
(* Brokers are closed at the shutdown only, when no order is in progress   *)
(* and none comes any more.                                                *)
ClosedAtEnd ==
    /\ up => closed = {}
    /\ ~up => \A t \in Tasks : pc[t] = "idle"

LEMMA ClosedStep == Types /\ ClosedAtEnd /\ [Next]_vars => ClosedAtEnd'
<1> SUFFICES ASSUME Types, ClosedAtEnd, [Next]_vars PROVE ClosedAtEnd'
  OBVIOUS
<1>1. ASSUME NEW t \in Tasks, Receive(t) PROVE ClosedAtEnd'
  BY <1>1 DEF Receive, ClosedAtEnd, cache
<1>2. ASSUME NEW t \in Tasks, Handle(t) PROVE ClosedAtEnd'
  <2>1. pc[t] # "idle" /\ UNCHANGED <<closed, up>>
    BY <1>2 DEF Handle, Get, Locked, FetchCredentials, CreateBroker, CreateFails, PlaceOrder,
                EvictAndGet, cache
  <2>. QED BY <2>1 DEF ClosedAtEnd
<1>3. ASSUME NEW c \in Conns, RotateKey(c) \/ UpdateCredentials(c) \/ DeleteConnection(c)
      PROVE  ClosedAtEnd'
  BY <1>3 DEF RotateKey, UpdateCredentials, DeleteConnection, cache, ClosedAtEnd
<1>4. CASE CloseAll
  BY <1>4 DEF CloseAll, ClosedAtEnd
<1>5. CASE UNCHANGED vars
  BY <1>5 DEF vars, cache, ClosedAtEnd
<1>. QED BY <1>1, <1>2, <1>3, <1>4, <1>5 DEF Next

(* An eviction takes a broker out of the pool and leaves it open: no order *)
(* is ever placed with a closed one, the shutdown included.                *)
THEOREM InFlightStayOpen == Spec => []InFlightOpen
<1>1. Init => Inv /\ ClosedAtEnd
  BY InitInv DEF Init, ClosedAtEnd
<1>2. Inv /\ ClosedAtEnd /\ [Next]_vars => Inv' /\ ClosedAtEnd'
  BY InvInductive, ClosedStep DEF Inv
<1>3. Outcome /\ [Next]_vars => Outcome'
  BY OutcomeInductive
<1>4. Outcome /\ ClosedAtEnd => InFlightOpen
  BY DEF ClosedAtEnd, InFlightOpen, Outcome
<1>. QED BY InitInv, <1>1, <1>2, <1>3, <1>4, PTL DEF Spec

-----------------------------------------------------------------------------
(* What liveness rests on: the queue of a lock has nobody twice, nobody    *)
(* who is not in get() on its connection, and only its head is past the    *)
(* lock.  Who waits therefore waits for a task that is going to release.   *)
InQueue(c, i) ==
    LET u == waiting[c][i]
    IN  /\ conn[u] = c
        /\ pc[u] \in {"lock", "fetch", "auth"}
        /\ i > 1 => pc[u] = "lock"
        /\ \A j \in 1..Len(waiting[c]) : waiting[c][j] = u => i = j

QueueInv == \A c \in Conns : \A i \in 1..Len(waiting[c]) : InQueue(c, i)

(* A task that is not in get() may do what leaves the locks alone.         *)
LEMMA QueueKept ==
  ASSUME Types, QueueInv, NEW t \in Tasks, pc[t] \notin {"lock", "fetch", "auth"},
         \A u \in Tasks \ {t} : pc'[u] = pc[u] /\ conn'[u] = conn[u],
         NEW d \in Conns, waiting'[d] = waiting[d], NEW i \in 1..Len(waiting[d])
  PROVE  InQueue(d, i)'
<1>1. waiting[d] \in Seq(Tasks) /\ waiting[d][i] \in Tasks
  BY DEF Types
<1>2. InQueue(d, i)
  BY DEF QueueInv
<1>3. waiting[d][i] # t
  BY <1>2 DEF InQueue
<1>. QED BY <1>1, <1>2, <1>3 DEF InQueue

LEMMA QueueAppended ==
  ASSUME Types, QueueInv, NEW t \in Tasks, Lock(t, conn[t]), pc[t] \in {"get", "place"},
         conn' = conn
  PROVE  QueueInv'
<1> DEFINE c == conn[t]
           q == waiting[c]
<1>1. /\ c \in Conns /\ q \in Seq(Tasks) /\ waiting'[c] = Append(q, t)
      /\ \A d \in Conns : d # c => waiting'[d] = waiting[d]
      /\ pc'[t] = (IF q = << >> THEN "fetch" ELSE "lock")
      /\ \A u \in Tasks \ {t} : pc'[u] = pc[u]
  BY DEF Lock, Goto, Types
<1> HIDE DEF c, q
<1>2. ASSUME NEW d \in Conns, NEW i \in 1..Len(waiting'[d]) PROVE InQueue(d, i)'
  <2>1. CASE d # c
    BY <2>1, <1>1, <1>2, QueueKept
  <2>2. CASE d = c
    <3>1. /\ Len(waiting'[c]) = Len(q) + 1 /\ waiting'[c][Len(q) + 1] = t
          /\ \A j \in 1..Len(q) : waiting'[c][j] = q[j]
          /\ Len(q) \in Nat /\ (q = << >> <=> Len(q) = 0)
      BY <1>1
    <3>2. \A j \in 1..Len(q) : InQueue(c, j) /\ q[j] \in Tasks
      BY <1>1 DEF QueueInv, q
    <3>3. \A j \in 1..Len(q) : q[j] # t
      BY <3>2 DEF InQueue, q
    <3>4. CASE i = Len(q) + 1
      BY <1>1, <2>2, <3>1, <3>3, <3>4 DEF InQueue, c
    <3>5. CASE i # Len(q) + 1
      <4>1. i \in 1..Len(q) /\ waiting'[c][i] = q[i]
        BY <1>2, <2>2, <3>1, <3>5
      <4>2. pc'[q[i]] = pc[q[i]]
        BY <1>1, <3>2, <3>3, <4>1
      <4>3. /\ conn[q[i]] = c /\ pc[q[i]] \in {"lock", "fetch", "auth"}
            /\ i > 1 => pc[q[i]] = "lock"
            /\ \A j \in 1..Len(q) : q[j] = q[i] => i = j
        BY <3>2, <4>1 DEF InQueue, q
      <4>4. \A j \in 1..Len(waiting'[c]) : waiting'[c][j] = q[i] => i = j
        BY <3>1, <3>3, <4>1, <4>3
      <4>. QED BY <2>2, <4>1, <4>2, <4>3, <4>4 DEF InQueue
    <3>. QED BY <3>4, <3>5
  <2>. QED BY <2>1, <2>2
<1>. QED BY <1>2 DEF QueueInv

LEMMA QueueReleased ==
  ASSUME Types, QueueInv, NEW t \in Tasks, Release(conn[t]), Queued(t),
         Head(waiting[conn[t]]) = t, conn' = conn,
         \A u \in Tasks \ {t} : pc'[u] = pc[u]
  PROVE  QueueInv'
<1> DEFINE c == conn[t]
           q == waiting[c]
<1>1. /\ c \in Conns /\ q \in Seq(Tasks) /\ waiting'[c] = Tail(q)
      /\ \A d \in Conns : d # c => waiting'[d] = waiting[d]
      /\ q # << >> /\ q[1] = t
  BY DEF Release, Types, Queued
<1> HIDE DEF c, q
<1>2. /\ Len(q) \in Nat \ {0} /\ Len(Tail(q)) = Len(q) - 1
      /\ \A j \in 1..Len(Tail(q)) : Tail(q)[j] = q[j + 1]
  BY <1>1
<1>3. ASSUME NEW d \in Conns, NEW i \in 1..Len(waiting'[d]) PROVE InQueue(d, i)'
  <2>1. CASE d # c
    <3>1. waiting'[d] = waiting[d] /\ i \in 1..Len(waiting[d])
      BY <2>1, <1>1, <1>3
    <3>4. waiting[d][i] \in Tasks
      <4>1. waiting[d] \in Seq(Tasks)
        BY DEF Types
      <4>. QED BY <4>1, <3>1
    <3>2. InQueue(d, i)
      BY <3>1 DEF QueueInv
    <3>3. waiting[d][i] # t
      BY <3>2, <2>1 DEF InQueue, c
    <3>. QED BY <3>1, <3>2, <3>3, <3>4 DEF InQueue
  <2>2. CASE d = c
    <3>1. i + 1 \in 1..Len(q) /\ waiting'[c][i] = q[i + 1] /\ 1 \in 1..Len(q)
          /\ q[i + 1] \in Tasks
      BY <1>1, <1>2, <1>3, <2>2
    <3>2. /\ conn[q[i + 1]] = c /\ pc[q[i + 1]] = "lock"
          /\ \A j \in 1..Len(q) : q[j] = q[i + 1] => i + 1 = j
      <4>1. InQueue(c, i + 1) /\ i + 1 > 1
        BY <1>1, <3>1 DEF QueueInv, q
      <4>. QED BY <4>1 DEF InQueue, q
    <3>3. q[i + 1] # t
      <4>1. 1 # i + 1
        BY <1>3
      <4>. QED BY <1>1, <3>1, <3>2, <4>1
    <3>4. \A j \in 1..Len(waiting'[c]) : waiting'[c][j] = q[i + 1] => i = j
      BY <1>1, <1>2, <3>2
    <3>5. pc'[q[i + 1]] = "lock"
      BY <3>1, <3>2, <3>3
    <3>. QED BY <2>2, <3>1, <3>2, <3>4, <3>5 DEF InQueue
  <2>. QED BY <2>1, <2>2
<1>. QED BY <1>3 DEF QueueInv

(* The head of a queue goes on behind the lock.                            *)
LEMMA HeadMoves ==
  ASSUME Types, QueueInv, NEW t \in Tasks, Queued(t), Head(waiting[conn[t]]) = t,
         UNCHANGED <<waiting, conn>>, pc'[t] \in {"fetch", "auth"},
         \A u \in Tasks \ {t} : pc'[u] = pc[u]
  PROVE  QueueInv'
<1> DEFINE c == conn[t]
<1>1. c \in Conns /\ waiting[c] \in Seq(Tasks) /\ waiting[c] # << >> /\ waiting[c][1] = t
      /\ 1 \in 1..Len(waiting[c])
  BY DEF Types, Queued
<1>2. ASSUME NEW d \in Conns, NEW i \in 1..Len(waiting[d]) PROVE InQueue(d, i)'
  <2>1. InQueue(d, i) /\ waiting[d][i] \in Tasks
    BY DEF QueueInv, Types
  <2>2. CASE waiting[d][i] # t
    BY <2>1, <2>2 DEF InQueue
  <2>3. CASE waiting[d][i] = t
    <3>1. d = c /\ i = 1
      BY <1>1, <2>1, <2>3 DEF InQueue
    <3>. QED BY <2>1, <2>3, <3>1 DEF InQueue
  <2>. QED BY <2>2, <2>3
<1>. QED BY <1>2 DEF QueueInv

LEMMA QueueStep == Inv /\ QueueInv /\ [Next]_vars => QueueInv'
<1> SUFFICES ASSUME Inv, QueueInv, [Next]_vars PROVE QueueInv'
  OBVIOUS
<1> USE DEF Inv
<1>k. ASSUME NEW t \in Tasks, waiting' = waiting, pc[t] \notin {"lock", "fetch", "auth"},
             \A u \in Tasks \ {t} : pc'[u] = pc[u] /\ conn'[u] = conn[u]
      PROVE  QueueInv'
  BY <1>k, QueueKept DEF QueueInv
<1>h. ASSUME NEW t \in Tasks, pc[t] \in {"fetch", "auth"}
      PROVE  Queued(t) /\ Head(waiting[conn[t]]) = t
  BY <1>h DEF LockInv, Creating
<1>f. ASSUME NEW t \in Tasks, pc[t] \in {"fetch", "auth"}, CreateFails(t) PROVE QueueInv'
  <2>1. Release(conn[t]) /\ conn' = conn /\ \A u \in Tasks \ {t} : pc'[u] = pc[u]
    BY <1>f DEF CreateFails, Finish, Goto, Types
  <2>. QED BY <2>1, <1>f, <1>h, QueueReleased
<1>1. ASSUME NEW t \in Tasks, Receive(t) PROVE QueueInv'
  BY <1>1, <1>k DEF Receive, Goto, cache, Types
<1>2. ASSUME NEW t \in Tasks, Get(t) PROVE QueueInv'
  <2>1. pc[t] = "get" /\ conn' = conn
    BY <1>2 DEF Get
  <2>2. CASE pool[conn[t]] # NoBroker
    BY <1>2, <2>1, <2>2, <1>k DEF Get, Use, Goto, Types
  <2>3. CASE pool[conn[t]] = NoBroker
    BY <1>2, <2>1, <2>3, QueueAppended DEF Get
  <2>. QED BY <2>2, <2>3
<1>3. ASSUME NEW t \in Tasks, Locked(t) PROVE QueueInv'
  <2>1. Queued(t) /\ Head(waiting[conn[t]]) = t /\ conn' = conn
    BY <1>3 DEF Locked, LockInv
  <2>2. CASE pool[conn[t]] # NoBroker
    <3>1. Release(conn[t]) /\ \A u \in Tasks \ {t} : pc'[u] = pc[u]
      BY <1>3, <2>2 DEF Locked, Use, Goto, Types
    <3>. QED BY <2>1, <3>1, QueueReleased
  <2>3. CASE pool[conn[t]] = NoBroker
    <3>1. pc' = [pc EXCEPT ![t] = "fetch"] /\ UNCHANGED waiting
      BY <1>3, <2>3 DEF Locked, Goto
    <3>. QED BY <2>1, <3>1, HeadMoves DEF Types
  <2>. QED BY <2>2, <2>3
<1>4. ASSUME NEW t \in Tasks, FetchCredentials(t) PROVE QueueInv'
  <2>1. pc[t] = "fetch"
    BY <1>4 DEF FetchCredentials
  <2>2. CASE ~CreateFails(t)
    <3>1. pc' = [pc EXCEPT ![t] = "auth"] /\ UNCHANGED <<waiting, conn>>
      BY <1>4, <2>2 DEF FetchCredentials, Goto, cache
    <3>. QED BY <2>1, <3>1, <1>h, HeadMoves DEF Types
  <2>. QED BY <2>1, <2>2, <1>f
<1>5. ASSUME NEW t \in Tasks, CreateBroker(t) PROVE QueueInv'
  <2>1. pc[t] = "auth"
    BY <1>5 DEF CreateBroker
  <2>2. CASE ~CreateFails(t)
    <3>1. Release(conn[t]) /\ conn' = conn /\ \A u \in Tasks \ {t} : pc'[u] = pc[u]
      BY <1>5, <2>2 DEF CreateBroker, Goto, Types
    <3>. QED BY <2>1, <3>1, <1>h, QueueReleased
  <2>. QED BY <2>1, <2>2, <1>f
<1>6. ASSUME NEW t \in Tasks, PlaceOrder(t) PROVE QueueInv'
  <2>1. pc[t] = "place"
    BY <1>6 DEF PlaceOrder
  <2>2. CASE EvictAndGet(t)
    BY <2>1, <2>2, QueueAppended DEF EvictAndGet
  <2>3. CASE ~EvictAndGet(t)
    BY <1>6, <2>1, <2>3, <1>k DEF PlaceOrder, Finish, Goto, cache, Types
  <2>. QED BY <2>2, <2>3
<1>7. ASSUME NEW c \in Conns, RotateKey(c) \/ UpdateCredentials(c) \/ DeleteConnection(c)
      PROVE  QueueInv'
  BY <1>7 DEF RotateKey, UpdateCredentials, DeleteConnection, cache, local, QueueInv, InQueue
<1>8. CASE CloseAll
  BY <1>8 DEF CloseAll, QueueInv
<1>9. CASE UNCHANGED vars
  BY <1>9 DEF vars, cache, local, QueueInv, InQueue
<1>. QED BY <1>1, <1>2, <1>3, <1>4, <1>5, <1>6, <1>7, <1>8, <1>9 DEF Next, Handle

(* Whoever waits for the lock of a connection is queued for it, and the    *)
(* head of every queue is a task of that connection between the lock and   *)
(* its release: an exception, an eviction or a deleted connection never    *)
(* leaves the lock with a task that is done.                               *)
THEOREM LockIsServed == Spec => []LockServed
<1>1. Init => Inv /\ QueueInv
  BY InitInv DEF Init, QueueInv
<1>2. Inv /\ QueueInv /\ [Next]_vars => Inv' /\ QueueInv'
  BY InvInductive, QueueStep
<1>3. Inv /\ QueueInv => LockServed
  <2> SUFFICES ASSUME Inv, QueueInv PROVE LockServed
    OBVIOUS
  <2>1. ASSUME NEW c \in Conns, waiting[c] # << >>
        PROVE  LET t == Head(waiting[c])
               IN  t \in Tasks /\ conn[t] = c /\ pc[t] \in {"lock", "fetch", "auth"}
    <3>1. /\ waiting[c] \in Seq(Tasks) /\ 1 \in 1..Len(waiting[c])
          /\ Head(waiting[c]) = waiting[c][1] /\ waiting[c][1] \in Tasks
      BY <2>1 DEF Inv, Types
    <3>2. InQueue(c, 1)
      BY <3>1 DEF QueueInv
    <3>. QED BY <3>1, <3>2 DEF InQueue
  <2>. QED BY <2>1 DEF Inv, LockInv, Queued, LockServed
<1>. QED BY <1>1, <1>2, <1>3, PTL DEF Spec

-----------------------------------------------------------------------------
(* The refinement.  A pooled broker has a number, and a task has one while *)
(* it places its order and at no other time.                               *)
Numbered ==
    /\ \A c \in Conns : pool[c] # NoBroker => pool[c].id # 0
    /\ \A t \in Tasks : IF pc[t] = "place" THEN using[t].id # 0 ELSE using[t] = NoBroker

(* One task moves and no broker is made.                                   *)
LEMMA NumberedKept ==
  ASSUME Types, Numbered, NEW t \in Tasks,
         \A c \in Conns : pool'[c] \in {pool[c], NoBroker},
         \A u \in Tasks \ {t} : pc'[u] = pc[u] /\ using'[u] = using[u],
         IF pc'[t] = "place" THEN using'[t].id # 0 ELSE using'[t] = NoBroker
  PROVE  Numbered'
BY DEF Numbered

LEMMA NumberedStep == Inv /\ Numbered /\ [Next]_vars => Numbered'
<1> SUFFICES ASSUME Inv, Numbered, [Next]_vars PROVE Numbered'
  OBVIOUS
<1> USE DEF Inv, Types, Goto, cache, local
<1>1. ASSUME NEW t \in Tasks, Receive(t) PROVE Numbered'
  BY <1>1 DEF Receive, Numbered
<1>2. ASSUME NEW t \in Tasks, Get(t) \/ Locked(t) PROVE Numbered'
  <2>1. /\ pool' = pool /\ conn[t] \in Conns /\ pc[t] \in {"get", "lock"}
        /\ \A u \in Tasks \ {t} : pc'[u] = pc[u] /\ using'[u] = using[u]
        /\ \/ pc'[t] = "place" /\ using'[t] = pool[conn[t]] /\ pool[conn[t]] # NoBroker
           \/ pc'[t] # "place" /\ using'[t] = using[t]
    BY <1>2 DEF Get, Locked, Use, Lock
  <2>. QED BY <2>1, NumberedKept DEF Numbered
<1>3. ASSUME NEW t \in Tasks, CreateFails(t) PROVE Numbered'
  BY <1>3, NumberedKept DEF CreateFails, Finish
<1>4. ASSUME NEW t \in Tasks, FetchCredentials(t) PROVE Numbered'
  BY <1>3, <1>4 DEF FetchCredentials, Numbered
<1>5. ASSUME NEW t \in Tasks, CreateBroker(t) PROVE Numbered'
  <2>1. CASE CreateFails(t)
    BY <2>1, <1>3
  <2>2. CASE ~CreateFails(t)
    <3> DEFINE b == [id |-> created[conn[t]] + 1, key |-> key[t]]
    <3>1. /\ pool' = [pool EXCEPT ![conn[t]] = b]
          /\ using' = [using EXCEPT ![t] = b]
          /\ pc' = [pc EXCEPT ![t] = "place"]
      BY <1>5, <2>2 DEF CreateBroker
    <3>2. b.id # 0
      OBVIOUS
    <3> HIDE DEF b
    <3>. QED BY <3>1, <3>2 DEF Numbered
  <2>. QED BY <2>1, <2>2
<1>6. ASSUME NEW t \in Tasks, PlaceOrder(t) PROVE Numbered'
  <2>1. /\ \A c \in Conns : pool'[c] \in {pool[c], NoBroker}
        /\ \A u \in Tasks \ {t} : pc'[u] = pc[u] /\ using'[u] = using[u]
        /\ pc'[t] # "place" /\ using'[t] = NoBroker
    BY <1>6 DEF PlaceOrder, Finish, EvictAndGet, Lock
  <2>. QED BY <2>1, NumberedKept
<1>7. ASSUME NEW c \in Conns, RotateKey(c) \/ UpdateCredentials(c) \/ DeleteConnection(c)
      PROVE  Numbered'
  BY <1>7 DEF RotateKey, UpdateCredentials, DeleteConnection, Numbered
<1>8. CASE CloseAll
  BY <1>8 DEF CloseAll, Numbered
<1>9. CASE UNCHANGED vars
  BY <1>9 DEF vars, Numbered
<1>. QED BY <1>1, <1>2, <1>4, <1>5, <1>6, <1>7, <1>8, <1>9 DEF Next, Handle

(* The pool and the tasks, for AtomicPool.                                 *)
Pooled == [c \in Conns |-> pool[c].id]
Held   == [t \in Tasks |-> IF using[t] = NoBroker THEN {} ELSE {<<conn[t], using[t].id>>}]

LEMMA InitIsAtomic == Init => Atomic!Init
BY DEF Init, Atomic!Init, NoBroker

LEMMA StepIsAtomic ==
  ASSUME Inv, Numbered, ClosedAtEnd, up \in BOOLEAN, [Next]_vars
  PROVE  [Atomic!Next]_(Atomic!vars)
<1> USE DEF Inv, Types, Goto, cache, local
<1>s. ASSUME UNCHANGED <<up, pool, created, using>>,
             \A t \in Tasks : using[t] # NoBroker => conn'[t] = conn[t]
      PROVE  UNCHANGED Atomic!vars
  <2>1. Pooled' = Pooled /\ Held' = Held
    BY <1>s DEF Pooled, Held
  <2>. QED BY <1>s, <2>1 DEF Atomic!vars, Pooled, Held
<1>1. ASSUME NEW t \in Tasks, Receive(t) PROVE UNCHANGED Atomic!vars
  BY <1>1, <1>s DEF Receive, Numbered
<1>2. ASSUME NEW t \in Tasks, Use(t, conn[t]), pool[conn[t]] # NoBroker, pc[t] \in {"get", "lock"},
             UNCHANGED <<up, pool, created, conn>>
      PROVE  Atomic!Find(t, conn[t])
  <2>1. up /\ using[t] = NoBroker
    BY <1>2 DEF Numbered, ClosedAtEnd
  <2>2. Pooled' = Pooled /\ Pooled[conn[t]] = pool[conn[t]].id /\ pool[conn[t]].id # 0
    BY <1>2 DEF Pooled, Numbered
  <2>3. Held[t] = {} /\ Held' = [Held EXCEPT ![t] = {<<conn[t], pool[conn[t]].id>>}]
    BY <1>2, <2>1 DEF Use, Held
  <2>. QED BY <1>2, <2>1, <2>2, <2>3 DEF Atomic!Find, Atomic!Hold, Pooled, Held
<1>3. ASSUME NEW t \in Tasks, Get(t) \/ Locked(t) PROVE [Atomic!Next]_(Atomic!vars)
  <2>1. CASE pool[conn[t]] # NoBroker
    BY <1>2, <1>3, <2>1 DEF Get, Locked, Atomic!Next
  <2>2. CASE pool[conn[t]] = NoBroker
    BY <1>3, <1>s, <2>2 DEF Get, Locked
  <2>. QED BY <2>1, <2>2
<1>4. ASSUME NEW t \in Tasks, pc[t] \in {"fetch", "auth"}, CreateFails(t)
      PROVE  UNCHANGED Atomic!vars
  <2>1. using' = using
    BY <1>4 DEF CreateFails, Finish, Numbered
  <2>. QED BY <1>4, <2>1, <1>s DEF CreateFails, Finish
<1>5. ASSUME NEW t \in Tasks, FetchCredentials(t) PROVE UNCHANGED Atomic!vars
  BY <1>4, <1>5, <1>s DEF FetchCredentials
<1>6. ASSUME NEW t \in Tasks, CreateBroker(t) PROVE [Atomic!Next]_(Atomic!vars)
  <2>1. CASE CreateFails(t)
    BY <2>1, <1>4, <1>6 DEF CreateBroker
  <2>2. CASE ~CreateFails(t)
    <3>c. PICK c \in Conns : c = conn[t]
      OBVIOUS
    <3> DEFINE n == created[c] + 1
               b == [id |-> n, key |-> key[t]]
    <3>1. /\ pool' = [pool EXCEPT ![c] = b]
          /\ created' = [created EXCEPT ![c] = n]
          /\ using' = [using EXCEPT ![t] = b]
          /\ UNCHANGED <<up, conn>> /\ pc[t] = "auth"
      BY <1>6, <2>2, <3>c DEF CreateBroker
    <3>2. pool[c] = NoBroker /\ using[t] = NoBroker /\ up /\ b # NoBroker
      BY <3>1, <3>c DEF LockInv, Creating, Numbered, ClosedAtEnd, NoBroker
    <3>3. b.id = n
      OBVIOUS
    <3>4. n # 0 /\ created' = [created EXCEPT ![c] = @ + 1]
      BY <3>1, <3>2
    <3> HIDE DEF b
    <3>5. \A d \in Conns : pool'[d].id = IF d = c THEN n ELSE pool[d].id
      BY <3>1, <3>2, <3>3
    <3>n. n = created[c] + 1
      OBVIOUS
    <3> HIDE DEF n
    <3>6. /\ Pooled[c] = 0
          /\ Pooled' = [Pooled EXCEPT ![c] = n]
      <4>1. Pooled[c] = 0
        BY <3>2 DEF Pooled, NoBroker
      <4>2. Pooled' = [d \in Conns |-> IF d = c THEN n ELSE pool[d].id]
        BY <3>5, Zenon DEF Pooled
      <4>. QED BY <4>1, <4>2 DEF Pooled
    <3>7. Held[t] = {} /\ Held' = [Held EXCEPT ![t] = {<<c, n>>}]
      BY <3>1, <3>2, <3>3, <3>c DEF Held
    <3>8. Atomic!Make(t, c)
      BY <3>1, <3>2, <3>n, <3>4, <3>6, <3>7 DEF Atomic!Make, Atomic!Hold, Pooled, Held
    <3>. QED BY <3>8, Zenon DEF Atomic!Next
  <2>. QED BY <2>1, <2>2
<1>7. ASSUME NEW t \in Tasks, PlaceOrder(t) PROVE [Atomic!Next]_(Atomic!vars)
  <2>1. /\ pc[t] = "place" /\ using[t] # NoBroker /\ using' = [using EXCEPT ![t] = NoBroker]
        /\ UNCHANGED <<up, created, conn>>
    BY <1>7 DEF PlaceOrder, Finish, EvictAndGet, Numbered, NoBroker
  <2>2. Held[t] = {<<conn[t], using[t].id>>} /\ Held' = [Held EXCEPT ![t] = {}]
    BY <2>1 DEF Held
  <2>3. CASE pool' = pool
    <3>1. Pooled' = Pooled
      BY <2>3 DEF Pooled
    <3>2. Atomic!Return(t)
      BY <2>1, <2>2, <3>1 DEF Atomic!Return, Pooled, Held
    <3>. QED BY <3>2 DEF Atomic!Next
  <2>4. CASE pool' = [pool EXCEPT ![conn[t]] = NoBroker]
    <3>1. Pooled' = [Pooled EXCEPT ![conn[t]] = 0]
      BY <2>1, <2>4 DEF Pooled, NoBroker
    <3>2. \E b \in Held[t] : Pooled' = [Pooled EXCEPT ![b[1]] = 0]
      BY <2>2, <3>1
    <3>3. Atomic!Discard(t)
      BY <2>1, <2>2, <3>2 DEF Atomic!Discard, Pooled, Held
    <3>. QED BY <3>3 DEF Atomic!Next
  <2>. QED BY <1>7, <2>3, <2>4 DEF PlaceOrder, EvictAndGet
<1>8. ASSUME NEW c \in Conns, RotateKey(c) \/ UpdateCredentials(c) \/ DeleteConnection(c)
      PROVE  UNCHANGED Atomic!vars
  BY <1>8, <1>s DEF RotateKey, UpdateCredentials, DeleteConnection
<1>9. CASE CloseAll
  <2>1. /\ \A t \in Tasks : using[t] = NoBroker
        /\ up' = FALSE /\ UNCHANGED <<created, using, conn>>
    BY <1>9 DEF CloseAll, Numbered
  <2>2. Pooled' = [c \in Conns |-> 0]
    BY <1>9 DEF CloseAll, Pooled, NoBroker
  <2>3. Held' = Held /\ \A t \in Tasks : Held[t] = {}
    BY <2>1 DEF Held
  <2>4. Atomic!Close
    BY <2>1, <2>2, <2>3 DEF Atomic!Close, Pooled, Held
  <2>. QED BY <2>4 DEF Atomic!Next
<1>10. CASE UNCHANGED vars
  BY <1>10, <1>s DEF vars
<1>. QED BY <1>1, <1>3, <1>5, <1>6, <1>7, <1>8, <1>9, <1>10 DEF Next, Handle

(* However lookups, authentications, failures and evictions interleave, to *)
(* its users the pool is one that finds or makes a broker in one step.     *)
THEOREM PoolIsAtomic == Spec => Implements
<1>1. Init => Inv /\ ClosedAtEnd /\ Numbered
  BY InitInv DEF Init, ClosedAtEnd, Numbered
<1>2. Inv /\ ClosedAtEnd /\ Numbered /\ [Next]_vars => Inv' /\ ClosedAtEnd' /\ Numbered'
  BY InvInductive, ClosedStep, NumberedStep DEF Inv
<1>3. Outcome => up \in BOOLEAN
  BY DEF Outcome
<1>4. Inv /\ ClosedAtEnd /\ Numbered /\ Outcome /\ [Next]_vars => [Atomic!Next]_(Atomic!vars)
  BY <1>3, StepIsAtomic
<1>. QED BY InitInv, OutcomeInductive, InitIsAtomic, <1>1, <1>2, <1>4,
            PTL DEF Spec, Implements, Atomic!Spec
=============================================================================
