---------------------------- MODULE OrdersProofs ----------------------------
(***************************************************************************)
(* Theorems about Orders, for any number of orders, requests and losses,  *)
(* and for every deployment, broker and strategy of Settings.              *)
(***************************************************************************)
EXTENDS Orders, FiniteSetTheorems, TLAPS

-----------------------------------------------------------------------------
(* TypeOK in the parts that change together.                               *)
RowTypes ==
    /\ exch \in [Orders -> {"none"} \cup Known]
    /\ by \in [Orders -> Sources]
    /\ at \in [Orders -> {"none", "session", "db", "lost"}]
    /\ status \in [Orders -> Statuses]
    /\ id \in [Orders -> Ids]

FlagTypes   == running \in BOOLEAN /\ bought \in BOOLEAN /\ next \in BOOLEAN
RunnerTypes == tick \in {"idle", "run", "dispatch"} /\ batch \in Seq(Orders)

SlotTypes ==
    /\ pc \in [Slots -> {"idle", "place", "insert", "cancel", "update"}]
    /\ ord \in [Slots -> SUBSET Orders]

PastTypes ==
    /\ setting \in Settings
    /\ unsure \subseteq Orders /\ refused \subseteq Orders
    /\ losses \in 0 .. MaxLosses

Types == RowTypes /\ FlagTypes /\ RunnerTypes /\ SlotTypes /\ PastTypes

(* An answer that was not lost tells what the exchange has.                *)
Honest(x) ==
    /\ x.ex \in {"none"} \cup Known /\ x.id \in Ids
    /\ x.answer \in {"filled", "open", "rejected", "cancelled", "error"}
    /\ x.answer = "filled" => IF setting.broker = "binance" THEN x.ex = "filled" ELSE x.ex # "none"
    /\ x.answer = "open" => x.ex # "none"
    /\ x.answer = "cancelled" => setting.broker = "binance" /\ x.ex \in {"partial", "cancelled"}
    /\ x.answer = "rejected" /\ ~x.lost => x.ex = "none"
    /\ x.answer = "error" => x.lost

LEMMA RefusalHonest == Honest(Refusal)
BY DEF Honest, Refusal, Outcome, Ids

LEMMA Outcomes ==
  ASSUME setting \in Settings, NEW k \in Kinds, NEW r \in PlaceOrder(k)
  PROVE  Honest(r)
<1>1. ASSUME setting.broker # "binance", NEW x \in Exchange1Accepts(k) PROVE Honest(x)
  BY <1>1 DEF Exchange1Accepts, Outcome, Ids, Kinds, Known, Ended, Honest
<1>2. ASSUME setting.broker = "binance", NEW x \in BinanceAccepts(k) PROVE Honest(x)
  BY <1>2 DEF BinanceAccepts, Outcome, Lost, Ids, Kinds, Known, Ended, Honest
<1>3. \A x \in Accepts(k) : Honest(x)
  <2>1. CASE setting.broker = "exchange1"
    BY <2>1, <1>1 DEF Accepts
  <2>2. CASE setting.broker # "exchange1"
    BY <2>2, <1>2, OrdersAssumption DEF Accepts
  <2>. QED BY <2>1, <2>2
<1>4. \A x \in LostAnswers(k) : Honest(x)
  <2>1. \A e \in {"none"} \cup Known, a \in {"error", "rejected"} : Honest(Lost(e, a))
    BY DEF Honest, Lost, Ids
  <2>2. \A x \in Accepts(k) : x.ex \in {"none"} \cup Known
    BY <1>3 DEF Honest
  <2>. QED BY <2>1, <2>2 DEF LostAnswers
<1>. QED BY <1>3, <1>4, RefusalHonest DEF PlaceOrder

LEMMA KindsAreKinds == \A s : KindsFor(s) \subseteq Kinds
BY DEF KindsFor

LEMMA StatusTypes ==
  /\ \A a : DispatchStatus(a) \in Statuses \ {"submitted", "cancelled"}
  /\ \A s, a : ManualStatus(s, a) \in Statuses \ {"submitted", "cancelled"}
BY DEF DispatchStatus, ManualStatus, Statuses

-----------------------------------------------------------------------------
(* The invariant.                                                          *)

Sending == {"place", "insert"}

(* The life of an order: it is in the transaction of the process that is   *)
(* placing it until that commits or dies.                                  *)
Life ==
    \A o \in Orders :
        /\ at[o] = "none" <=> by[o] = "none"
        /\ at[o] = "none" => exch[o] = "none" /\ id[o] = "none" /\ status[o] = "submitted"
        /\ at[o] = "lost" => /\ {"crash", "rollback"} \cap Env # {}
                             /\ by[o] = "strategy" => losses > 0
        /\ at[o] = "db" => status[o] # "submitted"
        /\ at[o] = "session" => status[o] # "cancelled"
        /\ ~Live /\ by[o] # "standalone" => exch[o] = "none" /\ id[o] = "none"

(* The runner's transaction is that of its tick, and holds the orders it   *)
(* has dispatched and those it has still to dispatch.                      *)
TickOK ==
    /\ \A o \in Orders : at[o] = "session" /\ by[o] = "strategy" =>
          /\ tick = "dispatch"
          /\ status[o] = "submitted" => \E i \in DOMAIN batch : batch[i] = o
    /\ tick # "dispatch" => batch = << >>
    /\ \A i \in DOMAIN batch : by[batch[i]] = "strategy" /\ at[batch[i]] = "session"

(* What CancelledIsDead asks of an order shown as cancelled.               *)
Attempted(o) ==
    /\ id[o] = "real"
    /\ setting.broker = "binance" => by[o] = "standalone"
    /\ exch[o] = "open"
    => o \in refused

(* A request holds one order, which no other request is placing.           *)
SlotsOK ==
    /\ \A s \in Slots : \A o \in ord[s] :
          /\ pc[s] # "idle"
          /\ pc[s] \in Sending => at[o] = "session" /\ by[o] \in {"deployment", "standalone"}
          /\ pc[s] = "insert" => status[o] # "submitted"
          /\ pc[s] \notin Sending => at[o] = "db"
          /\ pc[s] = "update" => Attempted(o)
    /\ \A o \in Orders : at[o] = "session" /\ by[o] # "strategy" =>
          \E s \in Slots : o \in ord[s] /\ pc[s] \in Sending
    /\ \A s \in Slots : \A o, x \in ord[s] : o = x
    /\ \A s, t \in Slots : s # t /\ pc[s] \in Sending /\ pc[t] \in Sending =>
          ord[s] \cap ord[t] = {}

Reports(o) == by[o] = "standalone" \/ Live

(* What StatusTrue asks of a row.                                          *)
Says(o) ==
    /\ status[o] = "filled" /\ by[o] # "deployment" =>
          IF setting.broker = "binance" THEN exch[o] = "filled" ELSE exch[o] # "none"
    /\ status[o] = "open" => exch[o] # "none"
    /\ status[o] = "rejected" => exch[o] = "none" \/ o \in unsure
    /\ status[o] = "failed" =>
          \/ exch[o] \in {"none", "cancelled"}
          \/ exch[o] = "partial" /\ setting.broker = "binance"
          \/ o \in unsure

Truth == \A o \in Orders : Reports(o) => Says(o)

Dead == \A o \in Orders : at[o] = "db" /\ status[o] = "cancelled" => Attempted(o)

Inv == Types /\ Life /\ TickOK /\ SlotsOK /\ Truth /\ Dead

LEMMA InitInv == Init => Inv
<1> SUFFICES ASSUME Init PROVE Inv
  OBVIOUS
<1> USE DEF Init
<1>1. RowTypes
  BY DEF RowTypes, Sources, Statuses, Ids
<1>2. FlagTypes
  BY Zenon DEF FlagTypes
<1>3. RunnerTypes /\ SlotTypes
  BY DEF RunnerTypes, SlotTypes
<1>4. PastTypes
  BY OrdersAssumption DEF PastTypes
<1>5. Life /\ TickOK /\ SlotsOK
  BY DEF Life, TickOK, SlotsOK
<1>6. Truth /\ Dead
  BY DEF Truth, Dead, Reports, Says
<1>. QED BY <1>1, <1>2, <1>3, <1>4, <1>5, <1>6 DEF Inv, Types

-----------------------------------------------------------------------------
(* Sending an order: what is noted of it, whoever sends it.                *)
LEMMA SentInv ==
  ASSUME Inv, NEW o \in Orders, at[o] = "session",
         NEW e \in {"none"} \cup Known, NEW i \in Ids,
         NEW st \in Statuses \ {"submitted", "cancelled"},
         exch' = [exch EXCEPT ![o] = e], id' = [id EXCEPT ![o] = i],
         status' = [status EXCEPT ![o] = st],
         unsure \subseteq unsure', unsure' \subseteq Orders,
         UNCHANGED <<by, at, setting, refused, losses>>,
         ~Live /\ by[o] # "standalone" => e = "none" /\ i = "none",
         Reports(o) =>
            /\ st = "filled" /\ by[o] # "deployment" =>
                  IF setting.broker = "binance" THEN e = "filled" ELSE e # "none"
            /\ st = "open" => e # "none"
            /\ st = "rejected" => e = "none" \/ o \in unsure'
            /\ st = "failed" => \/ e \in {"none", "cancelled"}
                                \/ e = "partial" /\ setting.broker = "binance"
                                \/ o \in unsure'
  PROVE  /\ RowTypes' /\ PastTypes' /\ Life' /\ Truth' /\ Dead'
         /\ status'[o] # "submitted"
         /\ \A x \in Orders \ {o} : status'[x] = status[x] /\ (Attempted(x) => Attempted(x)')
<1> USE DEF Inv, Types
<1>1. /\ exch'[o] = e /\ id'[o] = i /\ status'[o] = st
      /\ \A x \in Orders \ {o} : exch'[x] = exch[x] /\ id'[x] = id[x] /\ status'[x] = status[x]
  BY DEF RowTypes
<1>2. RowTypes' /\ PastTypes'
  BY DEF RowTypes, PastTypes
<1>3. \A x \in Orders \ {o} : Attempted(x) => Attempted(x)'
  BY <1>1 DEF Attempted
<1>4. Life'
  BY <1>1 DEF Life, Live, Env
<1>5. Truth'
  <2>1. ASSUME NEW x \in Orders \ {o}, Reports(x)' PROVE Says(x)'
    BY <2>1, <1>1 DEF Truth, Reports, Says, Live
  <2>2. Reports(o)' => Reports(o)
    BY DEF Reports, Live
  <2>3. Reports(o)' => Says(o)'
    BY <2>2, <1>1 DEF Says
  <2>. QED BY <2>1, <2>3 DEF Truth
<1>6. Dead'
  BY <1>1, <1>3 DEF Dead
<1>. QED BY <1>1, <1>2, <1>3, <1>4, <1>5, <1>6

LEMMA NotedInv ==
  ASSUME Inv, NEW o \in Orders, at[o] = "session", by[o] = "standalone" \/ Live,
         NEW r, Honest(r),
         NEW st \in Statuses \ {"submitted", "cancelled"}, Noted(o, r, st),
         UNCHANGED <<by, at, setting, refused, losses>>,
         st = "filled" /\ by[o] # "deployment" => r.answer = "filled",
         st = "open" => r.answer \in {"open", "cancelled"},
         st = "rejected" => r.answer = "rejected",
         st = "failed" => r.answer \in {"rejected", "cancelled", "error"}
  PROVE  /\ RowTypes' /\ PastTypes' /\ Life' /\ Truth' /\ Dead'
         /\ status'[o] # "submitted"
         /\ \A x \in Orders \ {o} : status'[x] = status[x] /\ (Attempted(x) => Attempted(x)')
<1>1. /\ exch' = [exch EXCEPT ![o] = r.ex] /\ id' = [id EXCEPT ![o] = r.id]
      /\ status' = [status EXCEPT ![o] = st]
      /\ unsure' = IF r.lost THEN unsure \cup {o} ELSE unsure
  BY DEF Noted
<1>2. unsure \subseteq unsure' /\ unsure' \subseteq Orders /\ (r.lost => o \in unsure')
  BY <1>1 DEF Inv, Types, PastTypes
<1>3. r.ex \in {"none"} \cup Known /\ r.id \in Ids
  BY DEF Honest
<1>4. /\ st = "filled" /\ by[o] # "deployment" =>
            IF setting.broker = "binance" THEN r.ex = "filled" ELSE r.ex # "none"
      /\ st = "open" => r.ex # "none"
      /\ st = "rejected" => r.ex = "none" \/ o \in unsure'
      /\ st = "failed" => \/ r.ex \in {"none", "cancelled"}
                          \/ r.ex = "partial" /\ setting.broker = "binance"
                          \/ o \in unsure'
  <2>1. st = "filled" /\ by[o] # "deployment" =>
            IF setting.broker = "binance" THEN r.ex = "filled" ELSE r.ex # "none"
    BY DEF Honest
  <2>2. st = "open" => r.ex # "none"
    BY DEF Honest
  <2>3. st = "rejected" => r.ex = "none" \/ o \in unsure'
    BY <1>2 DEF Honest
  <2>4. st = "failed" => \/ r.ex \in {"none", "cancelled"}
                         \/ r.ex = "partial" /\ setting.broker = "binance"
                         \/ o \in unsure'
    BY <1>2 DEF Honest
  <2>. QED BY <2>1, <2>2, <2>3, <2>4
<1>. QED BY <1>1, <1>2, <1>3, <1>4, SentInv

LEMMA NotedPaperInv ==
  ASSUME Inv, NEW o \in Orders, at[o] = "session", ~Live, by[o] # "standalone",
         NotedPaper(o), UNCHANGED <<by, at, setting, refused, losses>>
  PROVE  /\ RowTypes' /\ PastTypes' /\ Life' /\ Truth' /\ Dead'
         /\ status'[o] # "submitted"
         /\ \A x \in Orders \ {o} : status'[x] = status[x] /\ (Attempted(x) => Attempted(x)')
<1>1. exch[o] = "none" /\ id[o] = "none" /\ "none" \in Ids /\ ~Reports(o)
  BY DEF Inv, Life, Reports, Ids
<1>2. exch' = [exch EXCEPT ![o] = "none"] /\ id' = [id EXCEPT ![o] = "none"]
  BY <1>1 DEF NotedPaper, Inv, Types, RowTypes
<1>3. /\ status' = [status EXCEPT ![o] = "filled"] /\ unsure' = unsure
      /\ "filled" \in Statuses \ {"submitted", "cancelled"} /\ unsure \subseteq Orders
  BY DEF NotedPaper, Statuses, Inv, Types, PastTypes
<1>. QED BY <1>1, <1>2, <1>3, SentInv

-----------------------------------------------------------------------------
(* The steps of a tick.                                                    *)

LEMMA StartTickInv ==
  ASSUME Inv, StartTick, UNCHANGED setting
  PROVE  Inv'
<1> USE DEF Inv, Types, StartTick, rows
<1>1. RowTypes' /\ RunnerTypes' /\ SlotTypes' /\ PastTypes'
  BY DEF RowTypes, RunnerTypes, SlotTypes, PastTypes
<1>2. FlagTypes'
  BY Zenon DEF FlagTypes
<1>3. Life' /\ TickOK'
  BY DEF Life, TickOK, Live, Env
<1>4. SlotsOK' /\ Truth' /\ Dead'
  BY DEF SlotsOK, Truth, Dead, Attempted, Reports, Says, Live
<1>. QED BY <1>1, <1>2, <1>3, <1>4

LEMMA WantsNat == Wants \subseteq Nat
<1>1. CASE setting.policy = "once"
  BY <1>1 DEF Wants
<1>2. CASE setting.policy = "position"
  BY <1>2 DEF Wants
<1>3. CASE setting.policy \notin {"once", "position"}
  BY <1>3, OrdersAssumption DEF Wants
<1>. QED BY <1>1, <1>2, <1>3

LEMMA RunStrategyInv ==
  ASSUME Inv, RunStrategy, UNCHANGED setting
  PROVE  Inv'
<1> USE DEF Inv, Types
<1>1. CASE tick' = "idle" /\ UNCHANGED <<batch, next, by, at>>
  <2> USE <1>1
  <2>0. UNCHANGED <<exch, status, id, running, bought, pc, ord, unsure, refused, losses>> /\ tick = "run"
    BY DEF RunStrategy
  <2>1. RowTypes' /\ RunnerTypes' /\ SlotTypes' /\ PastTypes'
    BY <2>0 DEF RowTypes, RunnerTypes, SlotTypes, PastTypes
  <2>2. FlagTypes'
    BY <2>0, Zenon DEF FlagTypes
  <2>3. Life' /\ TickOK'
    BY <2>0 DEF Life, TickOK, Live, Env
  <2>4. SlotsOK' /\ Truth' /\ Dead'
    BY <2>0 DEF SlotsOK, Truth, Dead, Attempted, Reports, Says, Live
  <2>. QED BY <2>1, <2>2, <2>3, <2>4
<1>2. ASSUME NEW n \in Wants, NEW os \in SUBSET Fresh, Cardinality(os) = n,
             batch' \in {q \in [1..n -> os] : \A i, j \in 1..n : q[i] = q[j] => i = j},
             next' = (bought \/ n > 0),
             by' = [o \in Orders |-> IF o \in os THEN "strategy" ELSE by[o]],
             at' = [o \in Orders |-> IF o \in os THEN "session" ELSE at[o]],
             tick' = "dispatch"
      PROVE  Inv'
  <2>0. UNCHANGED <<exch, status, id, running, bought, pc, ord, unsure, refused, losses>> /\ tick = "run"
    BY DEF RunStrategy
  <2>1. /\ os \subseteq Orders
        /\ \A o \in os : /\ at[o] = "none" /\ by[o] = "none" /\ exch[o] = "none"
                         /\ id[o] = "none" /\ status[o] = "submitted"
                         /\ at'[o] = "session" /\ by'[o] = "strategy"
        /\ \A o \in Orders \ os : at'[o] = at[o] /\ by'[o] = by[o]
    BY <1>2 DEF Fresh, Life
  <2>2. RowTypes' /\ SlotTypes' /\ PastTypes'
    BY <1>2, <2>0 DEF RowTypes, SlotTypes, PastTypes, Sources
  <2>3. FlagTypes'
    BY <1>2, <2>0, Zenon DEF FlagTypes
  <2>4. n \in Nat
    BY WantsNat
  <2>5. RunnerTypes'
    <3>1. batch' \in [1..n -> os]
      BY <1>2
    <3>2. batch' \in [1..n -> Orders]
      BY <3>1, <2>1
    <3>. QED BY <3>2, <2>4, <1>2 DEF RunnerTypes
  <2>6. DOMAIN batch' = 1..n /\ \A i \in 1..n : batch'[i] \in os
    BY <1>2
  <2>7. \A o \in os : \E i \in DOMAIN batch' : batch'[i] = o
    <3>1. IsFiniteSet(os)
      BY <2>1, OrdersAssumption, FS_Subset
    <3> DEFINE T == 1..n
    <3>2. batch' \in Injection(T, os)
      BY <1>2 DEF Injection, IsInjective
    <3>3. IsFiniteSet(T) /\ Cardinality(T) = n
      BY <2>4, FS_Interval
    <3>4. batch' \in Surjection(T, os)
      <4>1. Cardinality(T) = Cardinality(os)
        BY <3>3, <1>2
      <4> HIDE DEF T
      <4>. QED BY <3>1, <3>2, <4>1, FS_Injection
    <3>. QED BY <3>4, <2>6 DEF Surjection
  <2>8. Life' /\ TickOK'
    <3>1. Life'
      BY <1>2, <2>0, <2>1 DEF Life, Live, Env
    <3>2. TickOK'
      <4>1. \A o \in Orders \ os : ~(at[o] = "session" /\ by[o] = "strategy")
        BY <2>0 DEF TickOK
      <4>. QED BY <1>2, <2>0, <2>1, <2>6, <2>7, <4>1 DEF TickOK
    <3>. QED BY <3>1, <3>2
  <2>9. SlotsOK'
    <3>1. \A s \in Slots : \A o \in ord[s] : o \in Orders \ os
      BY <2>1 DEF SlotsOK, SlotTypes, Sending
    <3>2. \A o \in Orders : Attempted(o) => Attempted(o)'
      BY <2>0, <2>1 DEF Attempted
    <3>. QED BY <2>0, <2>1, <3>1, <3>2 DEF SlotsOK, SlotTypes
  <2>10. Truth'
    BY <2>0, <2>1 DEF Truth, Reports, Says, Live
  <2>11. Dead'
    BY <2>0, <2>1 DEF Dead, Attempted
  <2>. QED BY <2>2, <2>3, <2>5, <2>8, <2>9, <2>10, <2>11
<1>. QED BY <1>1, <1>2 DEF RunStrategy

LEMMA DispatchOrderInv ==
  ASSUME Inv, DispatchOrder, UNCHANGED setting
  PROVE  Inv'
<1> USE DEF Inv, Types
<1> DEFINE o == Head(batch)
<1>0. /\ batch # << >> /\ batch' = Tail(batch) /\ tick = "dispatch" /\ tick' = tick
      /\ UNCHANGED <<by, at, running, bought, next, pc, ord, setting, refused, losses>>
  BY DEF DispatchOrder
<1>1. o \in Orders /\ at[o] = "session" /\ by[o] = "strategy"
  BY <1>0 DEF TickOK, RunnerTypes
<1>2. /\ RowTypes' /\ PastTypes' /\ Life' /\ Truth' /\ Dead'
      /\ status'[o] # "submitted"
      /\ \A x \in Orders \ {o} : status'[x] = status[x] /\ (Attempted(x) => Attempted(x)')
  <2>1. CASE ~Live /\ NotedPaper(o)
    BY <2>1, <1>0, <1>1, NotedPaperInv
  <2>2. CASE Live /\ Noted(o, Refusal, "rejected")
    <3>1. "rejected" \in Statuses \ {"submitted", "cancelled"} /\ Refusal.answer = "rejected"
      BY DEF Statuses, Refusal, Outcome
    <3>. QED BY <2>2, <3>1, <1>0, <1>1, RefusalHonest, NotedInv
  <2>3. CASE Live /\ \E k \in KindsFor("strategy") : \E r \in PlaceOrder(k) :
                        Noted(o, r, DispatchStatus(r.answer))
    <3>0. PICK k \in Kinds : \E r \in PlaceOrder(k) : Noted(o, r, DispatchStatus(r.answer))
      BY <2>3, KindsAreKinds
    <3>1. PICK r \in PlaceOrder(k) : Noted(o, r, DispatchStatus(r.answer))
      BY <3>0
    <3> DEFINE st == DispatchStatus(r.answer)
    <3>a. Honest(r)
      BY Outcomes DEF PastTypes
    <3>2. /\ st = "filled" => r.answer = "filled"
          /\ st = "open" => r.answer \in {"open", "cancelled"}
          /\ st # "rejected"
          /\ st = "failed" => r.answer \in {"rejected", "cancelled", "error"}
      BY <3>a DEF DispatchStatus, Honest
    <3>3. st \in Statuses \ {"submitted", "cancelled"}
      BY StatusTypes
    <3> HIDE DEF st
    <3>4. Noted(o, r, st)
      BY <3>1 DEF st
    <3>. QED BY <2>3, <3>a, <3>2, <3>3, <3>4, <1>0, <1>1, NotedInv
  <2>. QED BY <2>1, <2>2, <2>3 DEF DispatchOrder
<1>3. RunnerTypes'
  BY <1>0 DEF RunnerTypes
<1>4. FlagTypes'
  BY <1>0, Zenon DEF FlagTypes
<1>5. SlotTypes'
  BY <1>0 DEF SlotTypes
<1>6. TickOK'
  <2>1. batch \in Seq(Orders) /\ batch # << >>
    BY <1>0 DEF RunnerTypes
  <2>2. /\ DOMAIN batch' = 1 .. Len(batch) - 1
        /\ \A i \in DOMAIN batch' : i + 1 \in DOMAIN batch /\ batch'[i] = batch[i + 1]
    BY <1>0, <2>1
  <2>3. \A i \in DOMAIN batch : i # 1 => (i - 1 \in DOMAIN batch' /\ batch'[i - 1] = batch[i])
    BY <1>0, <2>1
  <2>4. batch[1] = o
    BY <2>1
  <2>5. ASSUME NEW x \in Orders, at[x] = "session", by[x] = "strategy", status'[x] = "submitted"
        PROVE  \E i \in DOMAIN batch' : batch'[i] = x
    <3>1. x # o /\ status[x] = "submitted"
      BY <2>5, <1>2
    <3>2. PICK i \in DOMAIN batch : batch[i] = x
      BY <2>5, <3>1 DEF TickOK
    <3>. QED BY <3>1, <3>2, <2>3, <2>4
  <2>6. \A i \in DOMAIN batch' : by[batch'[i]] = "strategy" /\ at[batch'[i]] = "session"
    BY <2>2 DEF TickOK
  <2>. QED BY <2>5, <2>6, <1>0 DEF TickOK
<1>7. SlotsOK'
  <2>1. \A s \in Slots : \A x \in ord[s] : x \in Orders \ {o}
    BY <1>1 DEF SlotsOK, SlotTypes
  <2>. QED BY <1>0, <1>2, <2>1 DEF SlotsOK
<1>. QED BY <1>2, <1>3, <1>4, <1>5, <1>6, <1>7

LEMMA CommitTickInv ==
  ASSUME Inv, CommitTick, UNCHANGED setting
  PROVE  Inv'
<1> USE DEF Inv, Types
<1>0. /\ tick = "dispatch" /\ batch = << >> /\ tick' = "idle" /\ next' = FALSE /\ bought' = next
      /\ at' = [o \in Orders |-> IF by[o] = "strategy" /\ at[o] = "session" THEN "db" ELSE at[o]]
      /\ UNCHANGED <<exch, by, status, id, running, batch, pc, ord, unsure, refused, losses>>
  BY DEF CommitTick
<1>1. \A o \in Orders : by[o] = "strategy" /\ at[o] = "session" =>
                            status[o] \notin {"submitted", "cancelled"}
  BY <1>0 DEF TickOK, Life
<1>2. RowTypes' /\ RunnerTypes' /\ SlotTypes' /\ PastTypes'
  BY <1>0 DEF RowTypes, RunnerTypes, SlotTypes, PastTypes
<1>3. FlagTypes'
  BY <1>0, Zenon DEF FlagTypes
<1>4. Life' /\ TickOK'
  BY <1>0, <1>1 DEF Life, TickOK, Live, Env
<1>5. SlotsOK'
  <2>1. \A s \in Slots : \A o \in ord[s] : o \in Orders
    BY DEF SlotTypes
  <2>2. \A o \in Orders : Attempted(o) => Attempted(o)'
    BY <1>0 DEF Attempted
  <2>3. \A o \in Orders : (by[o] # "strategy" \/ at[o] # "session") => at'[o] = at[o]
    BY <1>0
  <2>4. \A s \in Slots : \A o \in ord[s] : at'[o] = at[o]
    BY <2>1, <2>3 DEF SlotsOK
  <2>5. \A o \in Orders : at'[o] = "session" => at[o] = "session"
    BY <1>0
  <2>. QED BY <1>0, <2>1, <2>2, <2>4, <2>5 DEF SlotsOK
<1>6. Truth' /\ Dead'
  BY <1>0, <1>1 DEF Truth, Dead, Attempted, Reports, Says, Live
<1>. QED BY <1>2, <1>3, <1>4, <1>5, <1>6

-----------------------------------------------------------------------------
(* The steps of the requests.                                              *)

LEMMA AcceptOrderInv ==
  ASSUME Inv, NEW s \in Slots, NEW source \in {"deployment", "standalone"},
         AcceptOrder(s, source), UNCHANGED setting
  PROVE  Inv'
<1> USE DEF Inv, Types
<1>1. PICK o \in Fresh : /\ by' = [by EXCEPT ![o] = source]
                         /\ at' = [at EXCEPT ![o] = "session"]
                         /\ ord' = [ord EXCEPT ![s] = {o}]
  BY DEF AcceptOrder
<1>0. /\ pc[s] = "idle" /\ pc' = [pc EXCEPT ![s] = "place"]
      /\ UNCHANGED <<exch, status, id, running, bought, tick, batch, next, unsure, refused, losses>>
  BY DEF AcceptOrder, Goto, runner
<1>2. /\ o \in Orders /\ at[o] = "none" /\ by[o] = "none" /\ exch[o] = "none"
      /\ id[o] = "none" /\ status[o] = "submitted"
      /\ at'[o] = "session" /\ by'[o] = source
      /\ \A x \in Orders \ {o} : at'[x] = at[x] /\ by'[x] = by[x]
  BY <1>1 DEF Fresh, Life, RowTypes
<1>3. /\ pc'[s] = "place" /\ ord'[s] = {o} /\ ord[s] = {}
      /\ \A t \in Slots \ {s} : pc'[t] = pc[t] /\ ord'[t] = ord[t]
  BY <1>0, <1>1 DEF SlotTypes, SlotsOK
<1>4. RowTypes' /\ RunnerTypes' /\ SlotTypes' /\ PastTypes'
  BY <1>0, <1>1, <1>2 DEF RowTypes, RunnerTypes, SlotTypes, PastTypes, Sources
<1>5. FlagTypes'
  BY <1>0, Zenon DEF FlagTypes
<1>6. Life'
  BY <1>0, <1>2 DEF Life, Live, Env
<1>7. TickOK'
  <2>1. \A i \in DOMAIN batch : batch[i] \in Orders \ {o}
    BY <1>2 DEF TickOK, RunnerTypes
  <2>. QED BY <1>0, <1>2, <2>1 DEF TickOK
<1>8. SlotsOK'
  <2>1. \A t \in Slots : \A x \in ord[t] : x \in Orders \ {o}
    BY <1>2 DEF SlotsOK, SlotTypes, Sending
  <2>2. \A x \in Orders \ {o} : Attempted(x) => Attempted(x)'
    BY <1>0, <1>2 DEF Attempted
  <2>3. ASSUME NEW t \in Slots, NEW x \in ord'[t]
        PROVE  /\ pc'[t] # "idle"
               /\ pc'[t] \in Sending => at'[x] = "session" /\ by'[x] \in {"deployment", "standalone"}
               /\ pc'[t] = "insert" => status'[x] # "submitted"
               /\ pc'[t] \notin Sending => at'[x] = "db"
               /\ pc'[t] = "update" => Attempted(x)'
    <3>1. CASE t = s
      BY <2>3, <3>1, <1>2, <1>3 DEF Sending
    <3>2. CASE t # s
      BY <2>1, <2>2, <2>3, <3>2, <1>0, <1>2, <1>3 DEF SlotsOK
    <3>. QED BY <3>1, <3>2
  <2>4. ASSUME NEW x \in Orders, at'[x] = "session", by'[x] # "strategy"
        PROVE  \E t \in Slots : x \in ord'[t] /\ pc'[t] \in Sending
    <3>1. CASE x = o
      BY <3>1, <1>3 DEF Sending
    <3>2. CASE x # o
      BY <2>4, <3>2, <1>2, <1>3 DEF SlotsOK
    <3>. QED BY <3>1, <3>2
  <2>5. ASSUME NEW t \in Slots, NEW u \in Slots, t # u, pc'[t] \in Sending, pc'[u] \in Sending
        PROVE  ord'[t] \cap ord'[u] = {}
    BY <2>1, <2>5, <1>3 DEF SlotsOK
  <2>6. ASSUME NEW t \in Slots, NEW x \in ord'[t], NEW y \in ord'[t] PROVE x = y
    BY <2>6, <1>3 DEF SlotsOK
  <2>. QED BY <2>3, <2>4, <2>5, <2>6 DEF SlotsOK
<1>9. Truth'
  BY <1>0, <1>2 DEF Truth, Reports, Says, Live
<1>10. Dead'
  BY <1>0, <1>2 DEF Dead, Attempted
<1>. QED BY <1>4, <1>5, <1>6, <1>7, <1>8, <1>9, <1>10

LEMMA SendOrderInv ==
  ASSUME Inv, NEW s \in Slots, SendOrder(s), UNCHANGED setting
  PROVE  Inv'
<1> USE DEF Inv, Types
<1>0. /\ pc[s] = "place" /\ pc' = [pc EXCEPT ![s] = "insert"]
      /\ UNCHANGED <<by, at, running, bought, tick, batch, next, ord, setting, refused, losses>>
  BY DEF SendOrder, Goto, runner
<1>1. PICK o \in ord[s] :
         \/ by[o] = "deployment" /\ ~Live /\ NotedPaper(o)
         \/ /\ by[o] = "standalone" \/ Live
            /\ \/ by[o] = "deployment" /\ Noted(o, Refusal, "rejected")
               \/ \E k \in KindsFor(by[o]) : \E r \in PlaceOrder(k) :
                     Noted(o, r, ManualStatus(by[o], r.answer))
  BY DEF SendOrder
<1>2. o \in Orders /\ at[o] = "session" /\ by[o] \in {"deployment", "standalone"}
  BY <1>0 DEF SlotsOK, SlotTypes, Sending
<1>3. /\ RowTypes' /\ PastTypes' /\ Life' /\ Truth' /\ Dead'
      /\ status'[o] # "submitted"
      /\ \A x \in Orders \ {o} : status'[x] = status[x] /\ (Attempted(x) => Attempted(x)')
  <2>1. CASE by[o] = "deployment" /\ ~Live /\ NotedPaper(o)
    BY <2>1, <1>0, <1>2, NotedPaperInv
  <2>2. CASE (by[o] = "standalone" \/ Live) /\ Noted(o, Refusal, "rejected")
    <3>1. "rejected" \in Statuses \ {"submitted", "cancelled"} /\ Refusal.answer = "rejected"
      BY DEF Statuses, Refusal, Outcome
    <3>. QED BY <2>2, <3>1, <1>0, <1>2, RefusalHonest, NotedInv
  <2>3. CASE /\ by[o] = "standalone" \/ Live
             /\ \E k \in KindsFor(by[o]) : \E r \in PlaceOrder(k) :
                    Noted(o, r, ManualStatus(by[o], r.answer))
    <3>0. PICK k \in Kinds : \E r \in PlaceOrder(k) : Noted(o, r, ManualStatus(by[o], r.answer))
      BY <2>3, KindsAreKinds
    <3>1. PICK r \in PlaceOrder(k) : Noted(o, r, ManualStatus(by[o], r.answer))
      BY <3>0
    <3> DEFINE st == ManualStatus(by[o], r.answer)
    <3>a. Honest(r)
      BY Outcomes DEF PastTypes
    <3>2. /\ st = "filled" /\ by[o] # "deployment" => r.answer = "filled"
          /\ st = "open" => r.answer \in {"open", "cancelled"}
          /\ st = "rejected" => r.answer = "rejected"
          /\ st = "failed" => r.answer \in {"rejected", "cancelled", "error"}
      BY <1>2, <3>a DEF ManualStatus, Honest
    <3>3. st \in Statuses \ {"submitted", "cancelled"}
      BY StatusTypes
    <3> HIDE DEF st
    <3>4. Noted(o, r, st)
      BY <3>1 DEF st
    <3>. QED BY <2>3, <3>a, <3>2, <3>3, <3>4, <1>0, <1>2, NotedInv
  <2>. QED BY <2>1, <2>2, <2>3, <1>1
<1>4. RunnerTypes' /\ SlotTypes'
  BY <1>0 DEF RunnerTypes, SlotTypes
<1>5. FlagTypes'
  BY <1>0, Zenon DEF FlagTypes
<1>6. TickOK'
  <2>1. \A i \in DOMAIN batch : batch[i] \in Orders \ {o}
    BY <1>2 DEF TickOK, RunnerTypes
  <2>. QED BY <1>0, <1>2, <1>3, <2>1 DEF TickOK
<1>7. SlotsOK'
  <2>1. pc'[s] = "insert" /\ \A t \in Slots \ {s} : pc'[t] = pc[t]
    BY <1>0 DEF SlotTypes
  <2>2. ord[s] \subseteq Orders /\ \A x \in ord[s] : status'[x] # "submitted" \/ x # o
    BY <1>3 DEF SlotTypes
  <2>3. \A t \in Slots \ {s} : o \notin ord[t]
    BY <1>0, <1>1, <1>2 DEF SlotsOK, Sending
  <2>4. ord[s] = {o}
    BY <1>0, <1>1 DEF SlotsOK
  <2>5. ASSUME NEW t \in Slots, NEW x \in ord[t]
        PROVE  /\ pc'[t] # "idle"
               /\ pc'[t] \in Sending => at[x] = "session" /\ by[x] \in {"deployment", "standalone"}
               /\ pc'[t] = "insert" => status'[x] # "submitted"
               /\ pc'[t] \notin Sending => at[x] = "db"
               /\ pc'[t] = "update" => Attempted(x)'
    <3>1. CASE t = s
      BY <2>1, <2>4, <2>5, <3>1, <1>2, <1>3 DEF Sending
    <3>2. CASE t # s
      <4>1. x \in Orders \ {o} /\ pc'[t] = pc[t]
        BY <2>1, <2>3, <2>5, <3>2 DEF SlotTypes
      <4>. QED BY <4>1, <2>5, <1>3 DEF SlotsOK
    <3>. QED BY <3>1, <3>2
  <2>6. \A t \in Slots : pc'[t] \in Sending <=> pc[t] \in Sending
    BY <1>0, <2>1 DEF Sending
  <2>. QED BY <1>0, <2>5, <2>6 DEF SlotsOK
<1>. QED BY <1>3, <1>4, <1>5, <1>6, <1>7

LEMMA InsertRowInv ==
  ASSUME Inv, NEW s \in Slots, InsertRow(s), UNCHANGED setting
  PROVE  Inv'
<1> USE DEF Inv, Types
<1>0. /\ pc[s] = "insert" /\ pc' = [pc EXCEPT ![s] = "idle"] /\ ord' = [ord EXCEPT ![s] = {}]
      /\ at' = [o \in Orders |-> IF o \in ord[s] THEN "db" ELSE at[o]]
      /\ UNCHANGED <<exch, by, status, id, running, bought, tick, batch, next, unsure, refused, losses>>
  BY DEF InsertRow, Done, Goto, runner
<1>1. /\ pc'[s] = "idle" /\ ord'[s] = {}
      /\ \A t \in Slots \ {s} : pc'[t] = pc[t] /\ ord'[t] = ord[t]
  BY <1>0 DEF SlotTypes
<1>2. \A o \in ord[s] : /\ o \in Orders /\ at[o] = "session" /\ at'[o] = "db"
                       /\ by[o] # "strategy" /\ by[o] # "none"
                       /\ status[o] \notin {"submitted", "cancelled"}
  BY <1>0 DEF SlotsOK, SlotTypes, Sending, Life
<1>3. \A o \in Orders \ ord[s] : at'[o] = at[o]
  BY <1>0
<1>4. RowTypes' /\ RunnerTypes' /\ SlotTypes' /\ PastTypes'
  BY <1>0 DEF RowTypes, RunnerTypes, SlotTypes, PastTypes
<1>5. FlagTypes'
  BY <1>0, Zenon DEF FlagTypes
<1>6. Life'
  BY <1>0, <1>2, <1>3 DEF Life, Live, Env
<1>7. TickOK'
  <2>1. \A i \in DOMAIN batch : batch[i] \in Orders \ ord[s]
    BY <1>2 DEF TickOK, RunnerTypes
  <2>2. \A o \in Orders : at'[o] = "session" => at[o] = "session"
    BY <1>2, <1>3
  <2>. QED BY <1>0, <1>3, <2>1, <2>2 DEF TickOK
<1>8. SlotsOK'
  <2>1. ASSUME NEW t \in Slots \ {s}, NEW x \in ord[t]
        PROVE  x \in Orders /\ (x \notin ord[s] \/ at[x] = "db")
    BY <1>0, <1>2 DEF SlotsOK, SlotTypes, Sending
  <2>2. \A x \in Orders : Attempted(x) => Attempted(x)'
    BY <1>0 DEF Attempted
  <2>3. ASSUME NEW t \in Slots \ {s}, NEW x \in ord[t]
        PROVE  at'[x] = at[x]
    BY <2>1, <1>2, <1>3
  <2>4. ASSUME NEW t \in Slots, NEW x \in ord'[t]
        PROVE  /\ pc'[t] # "idle"
               /\ pc'[t] \in Sending => at'[x] = "session" /\ by'[x] \in {"deployment", "standalone"}
               /\ pc'[t] = "insert" => status'[x] # "submitted"
               /\ pc'[t] \notin Sending => at'[x] = "db"
               /\ pc'[t] = "update" => Attempted(x)'
    <3>1. t # s /\ x \in ord[t]
      BY <2>4, <1>1
    <3>. QED BY <3>1, <1>0, <1>1, <2>1, <2>2, <2>3 DEF SlotsOK
  <2>5. ASSUME NEW x \in Orders, at'[x] = "session", by'[x] # "strategy"
        PROVE  \E t \in Slots : x \in ord'[t] /\ pc'[t] \in Sending
    <3>1. x \notin ord[s] /\ at[x] = "session"
      BY <2>5, <1>2, <1>3
    <3>2. PICK t \in Slots : x \in ord[t] /\ pc[t] \in Sending
      BY <2>5, <3>1, <1>0 DEF SlotsOK
    <3>. QED BY <3>1, <3>2, <1>1
  <2>6. ASSUME NEW t \in Slots, NEW u \in Slots, t # u, pc'[t] \in Sending, pc'[u] \in Sending
        PROVE  ord'[t] \cap ord'[u] = {}
    BY <2>6, <1>1 DEF SlotsOK
  <2>7. ASSUME NEW t \in Slots, NEW x \in ord'[t], NEW y \in ord'[t] PROVE x = y
    BY <2>7, <1>1 DEF SlotsOK
  <2>. QED BY <2>4, <2>5, <2>6, <2>7 DEF SlotsOK
<1>9. Truth'
  BY <1>0 DEF Truth, Reports, Says, Live
<1>10. Dead'
  BY <1>0, <1>2, <1>3 DEF Dead, Attempted
<1>. QED BY <1>4, <1>5, <1>6, <1>7, <1>8, <1>9, <1>10

(* An order nobody asks the broker about is not at the exchange under an   *)
(* id of its own.                                                          *)
LEMMA AcceptCancelInv ==
  ASSUME Inv, NEW s \in Slots, AcceptCancel(s), UNCHANGED setting
  PROVE  Inv'
<1> USE DEF Inv, Types
<1>1. PICK o \in Orders : /\ at[o] = "db" /\ ord' = [ord EXCEPT ![s] = {o}]
                          /\ pc' = [pc EXCEPT ![s] = IF AsksBroker(o) THEN "cancel" ELSE "update"]
  BY DEF AcceptCancel, Goto
<1>0. /\ pc[s] = "idle"
      /\ UNCHANGED <<exch, by, at, status, id, running, bought, tick, batch, next, unsure, refused, losses>>
  BY DEF AcceptCancel, runner, rows
<1>2. /\ pc'[s] \in {"cancel", "update"} /\ ord'[s] = {o} /\ ord[s] = {}
      /\ \A t \in Slots \ {s} : pc'[t] = pc[t] /\ ord'[t] = ord[t]
  BY <1>0, <1>1 DEF SlotTypes, SlotsOK
<1>3. pc'[s] = "update" => Attempted(o)
  <2>1. ~AsksBroker(o) => id[o] = "none" \/ (by[o] # "standalone" /\ ~Live)
    BY DEF AsksBroker
  <2>2. ~AsksBroker(o) => Attempted(o)
    BY <2>1 DEF Attempted, Life
  <2>. QED BY <1>1, <2>2 DEF SlotTypes
<1>4. RowTypes' /\ RunnerTypes' /\ SlotTypes' /\ PastTypes'
  BY <1>0, <1>1 DEF RowTypes, RunnerTypes, SlotTypes, PastTypes
<1>5. FlagTypes'
  BY <1>0, Zenon DEF FlagTypes
<1>6. Life' /\ TickOK' /\ Truth' /\ Dead'
  BY <1>0 DEF Life, TickOK, Truth, Dead, Attempted, Reports, Says, Live, Env
<1>7. SlotsOK'
  <2>1. \A x \in Orders : Attempted(x) => Attempted(x)'
    BY <1>0 DEF Attempted
  <2>2. ASSUME NEW t \in Slots, NEW x \in ord'[t]
        PROVE  /\ pc'[t] # "idle"
               /\ pc'[t] \in Sending => at'[x] = "session" /\ by'[x] \in {"deployment", "standalone"}
               /\ pc'[t] = "insert" => status'[x] # "submitted"
               /\ pc'[t] \notin Sending => at'[x] = "db"
               /\ pc'[t] = "update" => Attempted(x)'
    <3>1. CASE t = s
      BY <2>1, <2>2, <3>1, <1>0, <1>1, <1>2, <1>3 DEF Sending
    <3>2. CASE t # s
      <4>1. x \in ord[t] /\ pc'[t] = pc[t] /\ x \in Orders
        BY <2>2, <3>2, <1>2 DEF SlotTypes
      <4>. QED BY <4>1, <2>1, <1>0 DEF SlotsOK
    <3>. QED BY <3>1, <3>2
  <2>3. ASSUME NEW x \in Orders, at'[x] = "session", by'[x] # "strategy"
        PROVE  \E t \in Slots : x \in ord'[t] /\ pc'[t] \in Sending
    BY <2>3, <1>0, <1>2 DEF SlotsOK, Sending
  <2>4. ASSUME NEW t \in Slots, NEW u \in Slots, t # u, pc'[t] \in Sending, pc'[u] \in Sending
        PROVE  ord'[t] \cap ord'[u] = {}
    BY <2>4, <1>2 DEF SlotsOK, Sending
  <2>5. ASSUME NEW t \in Slots, NEW x \in ord'[t], NEW y \in ord'[t] PROVE x = y
    BY <2>5, <1>2 DEF SlotsOK
  <2>. QED BY <2>2, <2>3, <2>4, <2>5 DEF SlotsOK
<1>. QED BY <1>4, <1>5, <1>6, <1>7

(* The end of a call to the exchange: it is told, refuses, or knows no     *)
(* such order.                                                             *)
LEMMA CancelAtBrokerInv ==
  ASSUME Inv, NEW s \in Slots, CancelAtBroker(s), UNCHANGED setting
  PROVE  Inv'
<1> USE DEF Inv, Types
<1>0. /\ pc[s] = "cancel" /\ pc' = [pc EXCEPT ![s] = "update"]
      /\ UNCHANGED <<by, at, status, id, running, bought, tick, batch, next, ord, unsure, losses>>
  BY DEF CancelAtBroker, Goto, runner, rows
<1>1. PICK o \in ord[s] :
          \/ /\ exch[o] = "open" /\ UNCHANGED refused
             /\ \E e \in {"cancelled", "partial"} : exch' = [exch EXCEPT ![o] = e]
          \/ /\ ~Reaches(o) \/ exch[o] # "open"
             /\ UNCHANGED <<exch, refused>>
          \/ /\ refused' = refused \cup {o}
             /\ UNCHANGED exch
  BY DEF CancelAtBroker
<1>2. /\ o \in Orders /\ at[o] = "db" /\ ord[s] = {o}
      /\ pc'[s] = "update" /\ \A t \in Slots \ {s} : pc'[t] = pc[t]
  BY <1>0, <1>1 DEF SlotsOK, SlotTypes, Sending
<1>3. /\ \A x \in Orders : /\ exch'[x] # exch[x] => exch[x] = "open" /\ exch'[x] \in Ended /\ x = o
                           /\ Attempted(x) => Attempted(x)'
      /\ refused \subseteq refused' /\ refused' \subseteq Orders
      /\ exch' \in [Orders -> {"none"} \cup Known]
  <2>1. /\ \A x \in Orders : exch'[x] # exch[x] => exch[x] = "open" /\ exch'[x] \in Ended /\ x = o
        /\ refused \subseteq refused' /\ refused' \subseteq Orders
        /\ exch' \in [Orders -> {"none"} \cup Known]
    BY <1>1, <1>2 DEF RowTypes, PastTypes, Known, Ended
  <2>2. \A x \in Orders : Attempted(x) => Attempted(x)'
    BY <2>1, <1>0 DEF Attempted, Ended
  <2>. QED BY <2>1, <2>2
<1>4. Attempted(o)'
  <2>1. CASE exch'[o] # "open" \/ o \in refused'
    BY <2>1 DEF Attempted
  <2>2. CASE ~Reaches(o) /\ UNCHANGED <<exch, refused>>
    <3>1. ~(id[o] = "real" /\ (setting.broker = "binance" => by[o] = "standalone"))
      BY <2>2 DEF Reaches, BinanceKnows, Exchange1Knows
    <3>. QED BY <3>1, <1>0 DEF Attempted
  <2>. QED BY <1>1, <1>2, <2>1, <2>2 DEF RowTypes
<1>5. RowTypes' /\ RunnerTypes' /\ SlotTypes' /\ PastTypes'
  BY <1>0, <1>3 DEF RowTypes, RunnerTypes, SlotTypes, PastTypes
<1>6. FlagTypes'
  BY <1>0, Zenon DEF FlagTypes
<1>7. Life' /\ TickOK'
  BY <1>0, <1>3 DEF Life, TickOK, Live, Env
<1>8. Truth' /\ Dead'
  BY <1>0, <1>3 DEF Truth, Dead, Reports, Says, Live, Ended
<1>9. SlotsOK'
  <2>1. ASSUME NEW t \in Slots, NEW x \in ord[t]
        PROVE  /\ pc'[t] # "idle"
               /\ pc'[t] \in Sending => at[x] = "session" /\ by[x] \in {"deployment", "standalone"}
               /\ pc'[t] = "insert" => status[x] # "submitted"
               /\ pc'[t] \notin Sending => at[x] = "db"
               /\ pc'[t] = "update" => Attempted(x)'
    <3>1. CASE t = s
      BY <2>1, <3>1, <1>2, <1>4 DEF Sending
    <3>2. CASE t # s
      <4>1. x \in Orders /\ pc'[t] = pc[t]
        BY <2>1, <3>2, <1>2 DEF SlotTypes
      <4>. QED BY <4>1, <2>1, <1>3 DEF SlotsOK
    <3>. QED BY <3>1, <3>2
  <2>2. \A t \in Slots : pc'[t] \in Sending <=> pc[t] \in Sending
    BY <1>0, <1>2 DEF Sending
  <2>. QED BY <1>0, <2>1, <2>2 DEF SlotsOK
<1>. QED BY <1>5, <1>6, <1>7, <1>8, <1>9
LEMMA UpdateRowInv ==
  ASSUME Inv, NEW s \in Slots, UpdateRow(s), UNCHANGED setting
  PROVE  Inv'
<1> USE DEF Inv, Types
<1>0. /\ pc[s] = "update" /\ pc' = [pc EXCEPT ![s] = "idle"] /\ ord' = [ord EXCEPT ![s] = {}]
      /\ status' = [o \in Orders |-> IF o \in ord[s] THEN "cancelled" ELSE status[o]]
      /\ UNCHANGED <<exch, by, at, id, running, bought, tick, batch, next, unsure, refused, losses>>
  BY DEF UpdateRow, Done, Goto, runner
<1>1. /\ pc'[s] = "idle" /\ ord'[s] = {}
      /\ \A t \in Slots \ {s} : pc'[t] = pc[t] /\ ord'[t] = ord[t]
  BY <1>0 DEF SlotTypes
<1>2. \A o \in Orders : /\ status'[o] # status[o] => at[o] = "db" /\ Attempted(o) /\ status'[o] = "cancelled"
                        /\ status'[o] \in Statuses
  <2>1. \A o \in ord[s] : at[o] = "db" /\ Attempted(o)
    BY <1>0 DEF SlotsOK, Sending
  <2>. QED BY <1>0, <2>1 DEF RowTypes, Statuses
<1>3. \A o \in Orders : Attempted(o) => Attempted(o)'
  BY <1>0 DEF Attempted
<1>4. RowTypes' /\ RunnerTypes' /\ SlotTypes' /\ PastTypes'
  <2>1. DOMAIN status' = Orders /\ status' = [o \in Orders |-> status'[o]]
    BY <1>0
  <2>. QED BY <1>0, <1>2, <2>1 DEF RowTypes, RunnerTypes, SlotTypes, PastTypes
<1>5. FlagTypes'
  BY <1>0, Zenon DEF FlagTypes
<1>6. Life' /\ TickOK'
  BY <1>0, <1>2 DEF Life, TickOK, Live, Env
<1>7. Truth' /\ Dead'
  <2>1. Truth'
    BY <1>0, <1>2 DEF Truth, Reports, Says, Live
  <2>2. Dead'
    BY <1>0, <1>2, <1>3 DEF Dead
  <2>. QED BY <2>1, <2>2
<1>8. SlotsOK'
  <2>1. ASSUME NEW t \in Slots, NEW o \in ord'[t]
        PROVE  /\ pc'[t] # "idle"
               /\ pc'[t] \in Sending => at[o] = "session" /\ by[o] \in {"deployment", "standalone"}
               /\ pc'[t] = "insert" => status'[o] # "submitted"
               /\ pc'[t] \notin Sending => at[o] = "db"
               /\ pc'[t] = "update" => Attempted(o)'
    <3>1. t # s /\ pc'[t] = pc[t] /\ o \in ord[t] /\ o \in Orders
      BY <2>1, <1>1 DEF SlotTypes
    <3>. QED BY <3>1, <1>2, <1>3 DEF SlotsOK
  <2>2. \A o \in Orders : at[o] = "session" /\ by[o] # "strategy" =>
            \E t \in Slots : o \in ord'[t] /\ pc'[t] \in Sending
    BY <1>0, <1>1 DEF SlotsOK, Sending
  <2>3. /\ \A t \in Slots : \A o, x \in ord'[t] : o = x
        /\ \A t, u \in Slots : t # u /\ pc'[t] \in Sending /\ pc'[u] \in Sending =>
              ord'[t] \cap ord'[u] = {}
    BY <1>1 DEF SlotsOK, Sending
  <2>. QED BY <1>0, <2>1, <2>2, <2>3 DEF SlotsOK
<1>. QED BY <1>4, <1>5, <1>6, <1>7, <1>8

(* No committed row is still "submitted": stop-all finds none to cancel.   *)
LEMMA StopAllInv ==
  ASSUME Inv, StopAll, UNCHANGED setting
  PROVE  Inv'
<1> USE DEF Inv, Types
<1>0. /\ running' = FALSE
      /\ UNCHANGED <<exch, by, at, id, bought, tick, batch, next, pc, ord, unsure, refused, losses>>
  BY DEF StopAll, runner
<1>1. status' = status
  <2>1. \A o \in Orders : status'[o] = status[o]
    BY DEF StopAll, Life
  <2>2. status' = [o \in Orders |-> status'[o]]
    BY DEF StopAll
  <2>. QED BY <2>1, <2>2 DEF RowTypes
<1>2. RowTypes' /\ RunnerTypes' /\ SlotTypes' /\ PastTypes'
  BY <1>0, <1>1 DEF RowTypes, RunnerTypes, SlotTypes, PastTypes
<1>3. FlagTypes'
  BY <1>0, Zenon DEF FlagTypes
<1>4. Life' /\ TickOK'
  BY <1>0, <1>1 DEF Life, TickOK, Live, Env
<1>5. SlotsOK' /\ Truth' /\ Dead'
  BY <1>0, <1>1 DEF SlotsOK, Truth, Dead, Attempted, Reports, Says, Live
<1>. QED BY <1>2, <1>3, <1>4, <1>5

-----------------------------------------------------------------------------
(* The steps of the environment.                                           *)

LEMMA ExchangeEndsInv ==
  ASSUME Inv, NEW o \in Orders, ExchangeEnds(o), UNCHANGED setting
  PROVE  Inv'
<1> USE DEF Inv, Types
<1>0. /\ exch[o] = "open" /\ (\E e \in Ended : exch' = [exch EXCEPT ![o] = e])
      /\ UNCHANGED <<by, at, status, id, running, bought, tick, batch, next, pc, ord,
                     unsure, refused, losses>>
  BY DEF ExchangeEnds, rows, runner
<1>1. exch'[o] \in Ended /\ \A x \in Orders \ {o} : exch'[x] = exch[x]
  BY <1>0 DEF RowTypes
<1>2. RowTypes' /\ RunnerTypes' /\ SlotTypes' /\ PastTypes'
  BY <1>0 DEF RowTypes, RunnerTypes, SlotTypes, PastTypes, Known
<1>3. FlagTypes'
  BY <1>0, Zenon DEF FlagTypes
<1>4. Life' /\ TickOK'
  BY <1>0, <1>1 DEF Life, TickOK, Live, Env
<1>5. \A x \in Orders : Attempted(x) => Attempted(x)'
  BY <1>0, <1>1 DEF Attempted, Ended
<1>6. Truth' /\ Dead'
  <2>1. ASSUME NEW x \in Orders, Reports(x)' PROVE Says(x)'
    BY <2>1, <1>0, <1>1 DEF Truth, Reports, Says, Live, Ended
  <2>2. Dead'
    BY <1>0, <1>5 DEF Dead
  <2>. QED BY <2>1, <2>2 DEF Truth
<1>7. SlotsOK'
  BY <1>0, <1>5 DEF SlotsOK, SlotTypes
<1>. QED BY <1>2, <1>3, <1>4, <1>6, <1>7

LEMMA TickLostInv ==
  ASSUME Inv, TickFails \/ RunnerCrash, UNCHANGED setting
  PROVE  Inv'
<1> USE DEF Inv, Types
<1>0. /\ tick' = "idle" /\ batch' = << >> /\ next' = FALSE
      /\ losses < MaxLosses /\ losses' = losses + 1
      /\ at' = [o \in Orders |-> IF at[o] = "session" /\ by[o] = "strategy" THEN "lost" ELSE at[o]]
      /\ UNCHANGED <<exch, by, status, id, running, bought, pc, ord, unsure, refused>>
  BY DEF TickFails, RunnerCrash, TickLost, Lose
<1>1. \A o \in Orders : /\ at'[o] # at[o] => at[o] = "session" /\ by[o] = "strategy" /\ at'[o] = "lost"
                        /\ at[o] = "session" /\ by[o] = "strategy" => at'[o] = "lost"
  BY <1>0
<1>2. RowTypes' /\ RunnerTypes' /\ SlotTypes' /\ PastTypes'
  BY <1>0, OrdersAssumption DEF RowTypes, RunnerTypes, SlotTypes, PastTypes
<1>3. FlagTypes'
  BY <1>0, Zenon DEF FlagTypes
<1>4. losses' > 0 /\ {"crash", "rollback"} \cap Env # {}
  BY <1>0, OrdersAssumption DEF PastTypes, TickFails, RunnerCrash
<1>5. Life' /\ TickOK'
  BY <1>0, <1>1, <1>4 DEF Life, TickOK, Live, Env
<1>6. Truth' /\ Dead'
  BY <1>0, <1>1 DEF Truth, Dead, Attempted, Reports, Says, Live
<1>7. SlotsOK'
  <2>1. \A s \in Slots : \A o \in ord[s] : o \in Orders /\ at'[o] = at[o]
    BY <1>1 DEF SlotsOK, SlotTypes, Sending
  <2>2. \A o \in Orders : Attempted(o) => Attempted(o)'
    BY <1>0 DEF Attempted
  <2>. QED BY <1>0, <1>1, <2>1, <2>2 DEF SlotsOK
<1>. QED BY <1>2, <1>3, <1>5, <1>6, <1>7

LEMMA ServerCrashInv ==
  ASSUME Inv, ServerCrash, UNCHANGED setting
  PROVE  Inv'
<1> USE DEF Inv, Types
<1>0. /\ pc' = [s \in Slots |-> "idle"] /\ ord' = [s \in Slots |-> {}]
      /\ at' = [o \in Orders |->
                   IF at[o] = "session" /\ by[o] # "strategy" THEN "lost" ELSE at[o]]
      /\ UNCHANGED <<exch, by, status, id, running, bought, tick, batch, next, unsure, refused, losses>>
  BY DEF ServerCrash, Lose, runner
<1>1. \A o \in Orders : /\ at'[o] # at[o] => /\ at[o] = "session" /\ by[o] # "strategy"
                                             /\ at'[o] = "lost"
                        /\ at'[o] = "session" => by[o] = "strategy"
  BY <1>0 DEF Life, RowTypes, Sources
<1>2. RowTypes' /\ RunnerTypes' /\ SlotTypes' /\ PastTypes'
  BY <1>0, OrdersAssumption DEF RowTypes, RunnerTypes, SlotTypes, PastTypes
<1>3. FlagTypes'
  BY <1>0, Zenon DEF FlagTypes
<1>4. {"crash", "rollback"} \cap Env # {}
  BY DEF ServerCrash
<1>5. Life'
  BY <1>0, <1>1, <1>4 DEF Life, Live, Env
<1>6. TickOK'
  <2>1. \A i \in DOMAIN batch : batch[i] \in Orders
    BY DEF RunnerTypes
  <2>. QED BY <1>0, <1>1, <2>1 DEF TickOK
<1>7. Truth' /\ Dead'
  BY <1>0, <1>1 DEF Truth, Dead, Attempted, Reports, Says, Live
<1>8. SlotsOK'
  BY <1>0, <1>1 DEF SlotsOK
<1>. QED BY <1>2, <1>3, <1>5, <1>6, <1>7, <1>8

(* A request whose transaction fails holds one order, which it alone was   *)
(* placing, or one that is committed.                                      *)
LEMMA RequestFailsInv ==
  ASSUME Inv, NEW s \in Slots, RequestFails(s), UNCHANGED setting
  PROVE  Inv'
<1> USE DEF Inv, Types
<1>0. /\ pc[s] \in {"insert", "update"}
      /\ pc' = [pc EXCEPT ![s] = "idle"] /\ ord' = [ord EXCEPT ![s] = {}]
      /\ at' = [o \in Orders |-> IF at[o] = "session" /\ o \in ord[s] THEN "lost" ELSE at[o]]
      /\ UNCHANGED <<exch, by, status, id, running, bought, tick, batch, next, unsure, refused, losses>>
  BY DEF RequestFails, Lose, Done, Goto, runner
<1>1. /\ pc'[s] = "idle" /\ ord'[s] = {}
      /\ \A t \in Slots \ {s} : pc'[t] = pc[t] /\ ord'[t] = ord[t]
  BY <1>0 DEF SlotTypes
<1>2. \A o \in Orders : /\ at'[o] # at[o] => /\ at[o] = "session" /\ at'[o] = "lost"
                                             /\ o \in ord[s] /\ by[o] # "strategy"
                        /\ at'[o] = "session" => o \notin ord[s] /\ at[o] = "session"
  BY <1>0 DEF SlotsOK, Sending
<1>3. RowTypes' /\ RunnerTypes' /\ SlotTypes' /\ PastTypes'
  BY <1>0, OrdersAssumption DEF RowTypes, RunnerTypes, SlotTypes, PastTypes
<1>4. FlagTypes'
  BY <1>0, Zenon DEF FlagTypes
<1>5. {"crash", "rollback"} \cap Env # {}
  BY DEF RequestFails
<1>6. Life'
  BY <1>0, <1>2, <1>5 DEF Life, Live, Env
<1>7. TickOK'
  <2>1. \A i \in DOMAIN batch : batch[i] \in Orders
    BY DEF RunnerTypes
  <2>. QED BY <1>0, <1>2, <2>1 DEF TickOK
<1>8. Truth' /\ Dead'
  BY <1>0, <1>2 DEF Truth, Dead, Attempted, Reports, Says, Live
<1>9. SlotsOK'
  <2>1. \A x \in Orders : Attempted(x) => Attempted(x)'
    BY <1>0 DEF Attempted
  <2>2. ASSUME NEW t \in Slots \ {s}, NEW x \in ord[t] PROVE x \in Orders /\ at'[x] = at[x]
    <3>1. x \in Orders
      BY DEF SlotTypes
    <3>2. CASE at[x] = "session" /\ x \in ord[s]
      BY <3>2, <1>0 DEF SlotsOK, Sending
    <3>3. CASE ~(at[x] = "session" /\ x \in ord[s])
      BY <3>1, <3>3, <1>0
    <3>. QED BY <3>1, <3>2, <3>3
  <2>3. ASSUME NEW t \in Slots, NEW x \in ord'[t]
        PROVE  /\ pc'[t] # "idle"
               /\ pc'[t] \in Sending => at'[x] = "session" /\ by'[x] \in {"deployment", "standalone"}
               /\ pc'[t] = "insert" => status'[x] # "submitted"
               /\ pc'[t] \notin Sending => at'[x] = "db"
               /\ pc'[t] = "update" => Attempted(x)'
    <3>1. t # s /\ x \in ord[t]
      BY <2>3, <1>1
    <3>. QED BY <3>1, <1>0, <1>1, <2>1, <2>2 DEF SlotsOK
  <2>4. ASSUME NEW x \in Orders, at'[x] = "session", by'[x] # "strategy"
        PROVE  \E t \in Slots : x \in ord'[t] /\ pc'[t] \in Sending
    <3>1. x \notin ord[s] /\ at[x] = "session"
      BY <2>4, <1>2
    <3>2. PICK t \in Slots : x \in ord[t] /\ pc[t] \in Sending
      BY <2>4, <3>1, <1>0 DEF SlotsOK
    <3>. QED BY <3>1, <3>2, <1>1
  <2>5. /\ \A t \in Slots : \A o, x \in ord'[t] : o = x
        /\ \A t, u \in Slots : t # u /\ pc'[t] \in Sending /\ pc'[u] \in Sending =>
              ord'[t] \cap ord'[u] = {}
    BY <1>1 DEF SlotsOK, Sending
  <2>. QED BY <2>3, <2>4, <2>5 DEF SlotsOK
<1>. QED BY <1>3, <1>4, <1>6, <1>7, <1>8, <1>9

-----------------------------------------------------------------------------
(* Every step keeps the invariant.                                         *)
LEMMA StepInv ==
  ASSUME Inv, [Next]_vars
  PROVE  Inv'
<1>1. CASE Next
  <2>0. UNCHANGED setting
    BY <1>1 DEF Next
  <2>1. CASE Tick
    BY <2>0, <2>1, StartTickInv, RunStrategyInv, DispatchOrderInv, CommitTickInv DEF Tick
  <2>2. ASSUME NEW s \in Slots, AcceptOrder(s, "deployment") \/ AcceptOrder(s, "standalone")
        PROVE  Inv'
    BY <2>0, <2>2, AcceptOrderInv
  <2>3. ASSUME NEW s \in Slots, AcceptCancel(s) PROVE Inv'
    BY <2>0, <2>3, AcceptCancelInv
  <2>4. ASSUME NEW s \in Slots, Handle(s) PROVE Inv'
    BY <2>0, <2>4, SendOrderInv, InsertRowInv, CancelAtBrokerInv, UpdateRowInv DEF Handle
  <2>5. ASSUME NEW o \in Orders, ExchangeEnds(o) PROVE Inv'
    BY <2>0, <2>5, ExchangeEndsInv
  <2>6. CASE StopAll \/ TickFails \/ RunnerCrash \/ ServerCrash
    BY <2>0, <2>6, StopAllInv, TickLostInv, ServerCrashInv
  <2>7. ASSUME NEW s \in Slots, RequestFails(s) PROVE Inv'
    BY <2>0, <2>7, RequestFailsInv
  <2>. QED BY <2>7, <1>1, <2>1, <2>2, <2>3, <2>4, <2>5, <2>6 DEF Next
<1>2. CASE UNCHANGED vars
  <2>0. UNCHANGED <<setting, exch, by, at, status, id, running, bought, tick, batch, next, pc, ord,
                    unsure, refused, losses>>
    BY <1>2 DEF vars, rows, runner
  <2> USE DEF Inv, Types
  <2>1. RowTypes' /\ RunnerTypes' /\ SlotTypes' /\ PastTypes'
    BY <2>0 DEF RowTypes, RunnerTypes, SlotTypes, PastTypes
  <2>2. FlagTypes'
    BY <2>0, Zenon DEF FlagTypes
  <2>3. Life' /\ TickOK'
    BY <2>0 DEF Life, TickOK, Live, Env
  <2>4. SlotsOK' /\ Truth' /\ Dead'
    BY <2>0 DEF SlotsOK, Truth, Dead, Attempted, Reports, Says, Live
  <2>. QED BY <2>1, <2>2, <2>3, <2>4
<1>. QED BY <1>1, <1>2

LEMMA Invariance == Spec => []Inv
<1>1. Inv /\ [Next]_vars => Inv'
  BY StepInv
<1>. QED BY <1>1, InitInv, PTL DEF Spec

-----------------------------------------------------------------------------
(* Theorems.                                                               *)

(* Orders, rows, requests and the runner's tick stay in the values the     *)
(* code gives them.                                                        *)
THEOREM TypeCorrect == Spec => []TypeOK
<1>1. Inv => TypeOK
  <2> SUFFICES ASSUME Inv PROVE TypeOK
    OBVIOUS
  <2> USE DEF Inv, Types
  <2>1. running \in BOOLEAN /\ bought \in BOOLEAN /\ next \in BOOLEAN
    BY Zenon DEF FlagTypes
  <2>. QED BY <2>1 DEF TypeOK, RowTypes, RunnerTypes, SlotTypes, PastTypes
<1>. QED BY <1>1, Invariance, PTL

(* dispatch_orders, place_manual_order and place_manual_trade: whatever    *)
(* the broker answers and whenever the exchange acts, a committed row      *)
(* claims no more than the answer said.  It never denies an order that     *)
(* has bought, unless the answer was lost or a market order expired in     *)
(* part.                                                                   *)
THEOREM RowsTellTruth == Spec => []StatusTrue
<1>1. Inv => StatusTrue
  BY DEF Inv, Truth, StatusTrue, Recorded, Reports, Says
<1>. QED BY <1>1, Invariance, PTL

(* cancel_manual_trade and the deployments' cancel_order: an order shown   *)
(* as cancelled has been cancelled at the exchange, or it was no longer    *)
(* open there, or the exchange refused.                                    *)
THEOREM CancelledOrdersDead == Spec => []CancelledIsDead
<1>1. Inv => CancelledIsDead
  BY DEF Inv, Dead, Attempted, CancelledIsDead
<1>. QED BY <1>1, Invariance, PTL

(* The runner and the two manual endpoints: an order the exchange got has  *)
(* its row, once the process that sent it has finished; the exceptions     *)
(* are the rows of a process that died or a transaction that failed.       *)
THEOREM ExecutedRecorded == Spec => []ExecutedIsRecorded
<1>1. Inv => ExecutedIsRecorded
  <2> SUFFICES ASSUME Inv, NEW o \in Orders, exch[o] # "none",
                      by[o] = "strategy" => tick = "idle",
                      \A s \in Slots : o \notin ord[s]
               PROVE  \/ at[o] = "db"
                      \/ /\ at[o] = "lost" /\ {"crash", "rollback"} \cap Env # {}
                         /\ by[o] = "strategy" => losses > 0
    BY DEF ExecutedIsRecorded
  <2>1. /\ at[o] # "none"
        /\ at[o] = "lost" => /\ {"crash", "rollback"} \cap Env # {}
                             /\ by[o] = "strategy" => losses > 0
    BY DEF Inv, Life
  <2>2. at[o] # "session"
    BY DEF Inv, TickOK, SlotsOK
  <2>. QED BY <2>1, <2>2 DEF Inv, Types, RowTypes
<1>. QED BY <1>1, Invariance, PTL
-----------------------------------------------------------------------------
(* How often a strategy buys that buys once.                               *)
Placed == {o \in Orders : by[o] = "strategy"}

(* One order is accounted for by the user_state, committed or about to be, *)
(* every other one by a tick whose user_state was lost.                    *)
Once ==
    setting.policy = "once" =>
        /\ Cardinality(Placed) <= losses + 1
        /\ ~bought /\ (tick = "dispatch" => ~next) => Cardinality(Placed) <= losses
        /\ tick = "dispatch" /\ bought => next

LEMMA PlacedFinite == IsFiniteSet(Placed) /\ Cardinality(Placed) \in Nat
BY OrdersAssumption, FS_Subset, FS_CardinalityType DEF Placed

(* A step that places no order of the strategy and keeps its user_state.   *)
LEMMA OnceKept ==
  ASSUME Once, Placed' = Placed, UNCHANGED <<setting, bought, next, losses>>,
         tick' = tick \/ (tick # "dispatch" /\ tick' # "dispatch")
  PROVE  Once'
<1>1. CASE tick' = tick
  BY <1>1, Zenon DEF Once
<1>2. CASE tick # "dispatch" /\ tick' # "dispatch"
  BY <1>2, Zenon DEF Once
<1>. QED BY <1>1, <1>2

LEMMA OnceRun ==
  ASSUME Inv, Once, RunStrategy, UNCHANGED setting
  PROVE  Once'
<1>0. tick = "run" /\ UNCHANGED <<bought, losses>>
  BY DEF RunStrategy
<1>1. CASE tick' = "idle" /\ UNCHANGED <<batch, next, by, at>>
  <2>1. Placed' = Placed
    BY <1>1 DEF Placed
  <2>. QED BY <1>0, <1>1, <2>1, OnceKept
<1>2. ASSUME NEW n \in Wants, NEW os \in SUBSET Fresh, Cardinality(os) = n,
             next' = (bought \/ n > 0),
             by' = [o \in Orders |-> IF o \in os THEN "strategy" ELSE by[o]],
             tick' = "dispatch", setting.policy = "once"
      PROVE  /\ Cardinality(Placed') <= losses' + 1
             /\ ~bought' /\ (tick' = "dispatch" => ~next') => Cardinality(Placed') <= losses'
             /\ tick' = "dispatch" /\ bought' => next'
  <2>1. Placed' = Placed \cup os /\ os \subseteq Orders
    BY <1>2 DEF Placed, Fresh
  <2>2. IsFiniteSet(os)
    BY <2>1, OrdersAssumption, FS_Subset
  <2>3. Placed \cap os = {}
    BY DEF Placed, Fresh, Inv, Life
  <2>4. Cardinality(Placed') = Cardinality(Placed) + n
    <3>1. Cardinality(Placed \cup os) = Cardinality(Placed) + Cardinality(os) - Cardinality(Placed \cap os)
      BY <2>2, PlacedFinite, FS_Union
    <3>2. Cardinality(Placed \cap os) = 0
      BY <2>3, FS_EmptySet
    <3>. QED BY <3>1, <3>2, <2>1, <1>2, PlacedFinite, WantsNat
  <2>5. losses \in Int /\ Cardinality(Placed) \in Int
    BY PlacedFinite DEF Inv, Types, PastTypes
  <2>6. CASE bought
    <3>1. n = 0
      BY <1>2, <2>6 DEF Wants
    <3>2. Cardinality(Placed') <= losses' + 1
      BY <3>1, <2>4, <2>5, <1>0, <1>2 DEF Once
    <3>3. bought' /\ next'
      BY <2>6, <1>0, <1>2, Zenon
    <3>. QED BY <3>2, <3>3
  <2>7. CASE ~bought
    <3>1. n = 1
      BY <1>2, <2>7 DEF Wants
    <3>2. Cardinality(Placed) <= losses
      <4>1. tick # "dispatch"
        BY <1>0
      <4>. QED BY <4>1, <1>2, <2>7, Zenon DEF Once
    <3>3. Cardinality(Placed') <= losses' + 1
      BY <3>1, <3>2, <2>4, <2>5, <1>0
    <3>4. n > 0
      BY <3>1
    <3>5. next'
      BY <1>2, <3>4, Zenon
    <3>. QED BY <3>3, <3>5, <1>2
  <2>. QED BY <2>6, <2>7
<1>. QED BY <1>1, <1>2, Zenon DEF RunStrategy, Once

LEMMA OnceCommit ==
  ASSUME Once, CommitTick, UNCHANGED setting
  PROVE  Once'
<1>1. /\ tick = "dispatch" /\ tick' = "idle" /\ bought' = next
      /\ UNCHANGED <<by, losses>>
  BY DEF CommitTick
<1>2. Placed' = Placed /\ tick' # "dispatch"
  BY <1>1 DEF Placed
<1>. QED BY <1>1, <1>2, Zenon DEF Once

(* A lost tick may lose the user_state, and is counted.                    *)
LEMMA OnceCrash ==
  ASSUME Inv, Once, TickLost, UNCHANGED setting
  PROVE  Once'
<1>1. /\ losses' = losses + 1 /\ UNCHANGED <<by, bought>>
      /\ tick' = "idle" \/ (tick' = tick /\ next' = next)
  BY DEF TickLost
<1>2. Placed' = Placed /\ Cardinality(Placed) \in Int /\ losses \in Int
  BY <1>1, PlacedFinite DEF Placed, Inv, Types, PastTypes
<1>3. setting.policy = "once" => Cardinality(Placed') <= losses' /\ Cardinality(Placed') <= losses' + 1
  <2>1. setting.policy = "once" => Cardinality(Placed) <= losses + 1
    BY DEF Once
  <2>. QED BY <2>1, <1>1, <1>2
<1>4. setting.policy = "once" => (tick' = "dispatch" /\ bought' => next')
  <2>1. CASE tick' = "idle"
    BY <2>1
  <2>2. CASE tick' = tick /\ next' = next
    BY <2>2, <1>1, Zenon DEF Once
  <2>. QED BY <2>1, <2>2, <1>1
<1>. QED BY <1>3, <1>4, Zenon DEF Once

LEMMA OnceStep ==
  ASSUME Inv, Once, [Next]_vars
  PROVE  Once'
<1>1. CASE UNCHANGED vars
  <2>1. UNCHANGED <<setting, by, tick, bought, next, losses>>
    BY <1>1 DEF vars, rows, runner
  <2>2. Placed' = Placed
    BY <2>1 DEF Placed
  <2>. QED BY <2>1, <2>2, OnceKept
<1>2. CASE Next
  <2>0. UNCHANGED setting
    BY <1>2 DEF Next
  <2>1. CASE RunStrategy \/ CommitTick \/ TickFails \/ RunnerCrash
    BY <2>0, <2>1, OnceRun, OnceCommit, OnceCrash DEF TickFails, RunnerCrash
  <2>2. CASE StartTick
    <3>1. tick # "dispatch" /\ tick' # "dispatch" /\ UNCHANGED <<by, bought, next, losses>>
      BY <2>2 DEF StartTick, rows
    <3>2. Placed' = Placed
      BY <3>1 DEF Placed
    <3>. QED BY <2>0, <3>1, <3>2, OnceKept
  <2>3. ASSUME NEW s \in Slots, AcceptOrder(s, "deployment") \/ AcceptOrder(s, "standalone")
        PROVE  Once'
    <3>1. UNCHANGED <<tick, bought, next, losses>>
      BY <2>3 DEF AcceptOrder, runner
    <3>2. PICK o \in Fresh : by' = [by EXCEPT ![o] = "deployment"] \/ by' = [by EXCEPT ![o] = "standalone"]
      BY <2>3 DEF AcceptOrder
    <3>3. Placed' = Placed
      <4>1. o \in Orders /\ by[o] = "none"
        BY <3>2 DEF Fresh, Inv, Life
      <4>. QED BY <3>2, <4>1 DEF Placed, Inv, Types, RowTypes
    <3>. QED BY <2>0, <3>1, <3>3, OnceKept
  <2>4. CASE DispatchOrder \/ StopAll \/ ServerCrash
             \/ (\E s \in Slots : AcceptCancel(s) \/ Handle(s) \/ RequestFails(s))
             \/ (\E o \in Orders : ExchangeEnds(o))
    <3>1. UNCHANGED <<by, tick, bought, next, losses>>
      BY <2>4 DEF DispatchOrder, StopAll, AcceptCancel, Handle, SendOrder, InsertRow,
                  CancelAtBroker, UpdateRow, RequestFails, ServerCrash, ExchangeEnds, rows, runner
    <3>2. Placed' = Placed
      BY <3>1 DEF Placed
    <3>. QED BY <2>0, <3>1, <3>2, OnceKept
  <2>. QED BY <1>2, <2>1, <2>2, <2>3, <2>4 DEF Next, Tick
<1>. QED BY <1>1, <1>2

(* run_tick: the orders of a strategy that notes in its user_state that it *)
(* has bought are at most one, and one more for every tick of which a      *)
(* crash or a rollback lost the state; failed orders, lost answers and     *)
(* orders by hand change nothing.                                          *)
THEOREM BuysOnce == Spec => []ActsOnce
<1>1. Init => Once
  <2> SUFFICES ASSUME Init PROVE Once
    OBVIOUS
  <2>1. Placed = {} /\ losses = 0 /\ tick # "dispatch"
    BY DEF Init, Placed
  <2>2. Cardinality(Placed) = 0
    BY <2>1, FS_EmptySet
  <2>. QED BY <2>1, <2>2 DEF Once
<1>2. Inv /\ Once /\ [Next]_vars => Once'
  BY OnceStep
<1>3. Inv /\ Once => ActsOnce
  <2> SUFFICES ASSUME Inv, Once, setting.policy = "once"
               PROVE  Cardinality(StrategyBuys) <= 1 + losses
    BY DEF ActsOnce
  <2>1. StrategyBuys \subseteq Placed
    BY DEF StrategyBuys, Placed
  <2>2. /\ Cardinality(StrategyBuys) <= Cardinality(Placed)
        /\ Cardinality(StrategyBuys) \in Nat
    BY <2>1, PlacedFinite, FS_Subset, FS_CardinalityType
  <2>3. Cardinality(Placed) <= losses + 1 /\ losses \in Int
    BY DEF Once, Inv, Types, PastTypes
  <2>. QED BY <2>2, <2>3, PlacedFinite
<1>. QED BY <1>1, <1>2, <1>3, Invariance, PTL DEF Spec
=============================================================================
