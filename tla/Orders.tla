------------------------------- MODULE Orders -------------------------------
(***************************************************************************)
(* The life of an order and of the row that records it: orders a           *)
(* deployment's strategy places on a tick (strategy_runner/tick_runner.py, *)
(* order_router.py and the subprocess of strategy_sdk), manual orders of a *)
(* deployment (deployments/router.py), standalone manual trades            *)
(* (manual_trades/router.py), their cancellation, and the adapters         *)
(* (brokers/exchange1.py, binance_testnet.py) that send them.              *)
(*                                                                         *)
(* A row is added to the transaction of the process that places the order  *)
(* and committed after the broker has answered; what happens to the order  *)
(* at the exchange in between, and later, is the exchange's own business:  *)
(* nothing in the code asks for the status of an order again.              *)
(***************************************************************************)
EXTENDS Integers, Sequences, FiniteSets

CONSTANTS
    Orders,      \* bound: the orders of a behaviour
    Slots,       \* API requests in progress at a time
    Settings,    \* the deployments and environments to consider, see setting
    MaxBatch,    \* bound: orders a strategy places on one tick
    MaxLosses    \* bound: ticks lost by a crash or a rollback

(* What the environment may do: refuse an order, lose the exchange's       *)
(* answer, fail a commit, or kill a process.                               *)
Events == {"reject", "lost", "rollback", "crash"}

(* What the strategy decides on: anything, its own user_state (buy once,  *)
(* remember it), or self.position (buy while there is none).               *)
Policies == {"any", "once", "position"}

ASSUME OrdersAssumption ==
    /\ IsFiniteSet(Orders)
    /\ Settings \subseteq [mode: {"paper", "live"}, broker: {"exchange1", "binance"},
                           product: {"SPOT", "FUTURES"}, policy: Policies,
                           env: SUBSET Events]
    /\ MaxBatch \in Nat
    /\ MaxLosses \in Nat

(* STOP: SL and SL-M.  INVALID: a limit order without a price, or an       *)
(* Exchange1 futures order that opens with take_profit or stop_loss.       *)
(* CLOSE: a limit order that closes an Exchange1 futures position.         *)
Kinds    == {"MARKET", "LIMIT", "STOP", "CLOSE", "INVALID"}
Sources  == {"none", "strategy", "deployment", "standalone"}
Statuses == {"submitted", "open", "filled", "rejected", "failed", "cancelled"}
Ids      == {"none", "real", "made"}

(* What becomes of an order the exchange has: it rests there, or has ended *)
(* filled, filled in part, or with nothing filled.                         *)
Ended    == {"filled", "partial", "cancelled"}
Known    == {"open"} \cup Ended

VARIABLES
    setting,    \* the deployment, its broker and environment; never changes
    exch,       \* per order: what the exchange has of it
    by,         \* per order: who placed it
    at,         \* per order: its row is nowhere, in a transaction, committed, lost
    status,     \* per order: the row's status
    id,         \* per order: the row's broker_order_id
    running,    \* the deployment is running
    bought,     \* DeploymentState.user_state of a strategy that buys once
    tick, batch, \* the runner's tick: next step, orders still to dispatch
    next,       \* the user_state the subprocess returned
    pc, ord,    \* per slot: next step of its request, and its order
    unsure,     \* history: orders whose answer was lost
    refused,    \* history: orders whose cancellation failed at the exchange
    losses      \* history: ticks lost by a crash or a rollback

rows   == <<by, at, status, id>>
runner == <<bought, tick, batch, next>>
vars   == <<setting, exch, rows, running, runner, pc, ord, unsure, refused, losses>>

Env      == setting.env
Live     == setting.mode = "live"
Futures  == setting.broker = "exchange1" /\ setting.product = "FUTURES"
Fresh    == {o \in Orders : at[o] = "none"}

Init ==
    /\ setting \in Settings
    /\ exch = [o \in Orders |-> "none"]
    /\ by = [o \in Orders |-> "none"]
    /\ at = [o \in Orders |-> "none"]
    /\ status = [o \in Orders |-> "submitted"]
    /\ id = [o \in Orders |-> "none"]
    /\ running = TRUE
    /\ bought = FALSE
    /\ tick = "idle" /\ batch = <<>> /\ next = FALSE
    /\ pc = [s \in Slots |-> "idle"]
    /\ ord = [s \in Slots |-> {}]
    /\ unsure = {} /\ refused = {}
    /\ losses = 0

-----------------------------------------------------------------------------
(* The adapters: what place_order may do at the exchange and answer.       *)

Outcome(e, a, i) == [ex |-> e, answer |-> a, id |-> i, lost |-> FALSE]
Lost(e, a)       == [ex |-> e, answer |-> a, id |-> "none", lost |-> TRUE]

(* Exchange1 answers with an id only: whatever becomes of it, a market     *)
(* order is reported filled, any other open.  The close endpoint may       *)
(* return no id, then one is made up of the symbol and the time.           *)
Exchange1Accepts(k) ==
    CASE k = "MARKET"            -> {Outcome(e, "filled", "real") : e \in Known}
      [] k \in {"LIMIT", "STOP"} -> {Outcome(e, "open", "real") : e \in Known}
      [] k = "CLOSE"             -> {Outcome(e, "open", i) : e \in Known, i \in {"real", "made"}}
      [] OTHER                   -> {}

(* Binance answers with the order's status; a market order that finds no   *)
(* counterpart for all of it expires, and is then cancelled to the code.   *)
(* The answer to a stop order may be without the status the adapter reads. *)
BinanceAccepts(k) ==
    CASE k = "MARKET" -> {Outcome("filled", "filled", "real"),
                          Outcome("partial", "cancelled", "real"),
                          Outcome("cancelled", "cancelled", "real")}
      [] k = "LIMIT"  -> {Outcome("open", "open", "real"), Outcome("filled", "filled", "real")}
      [] k = "STOP"   -> {Outcome("open", "open", "real"), Lost("open", "error")}
      [] OTHER        -> {}

Accepts(k) == IF setting.broker = "exchange1" THEN Exchange1Accepts(k) ELSE BinanceAccepts(k)

(* No order was sent, or the exchange refused it.                          *)
Refusal == Outcome("none", "rejected", "none")

(* The exchange has got the order or not, and the adapter does not learn   *)
(* which: a timeout, or a broker that cannot be authenticated, is an       *)
(* exception ("error"); an HTTP status of 400 and more, that of a gateway  *)
(* included, is "rejected".                                                *)
LostAnswers(k) ==
    {Lost(e, a) : e \in {"none"} \cup {r.ex : r \in Accepts(k)}, a \in {"error", "rejected"}}

PlaceOrder(k) ==
    Accepts(k)
    \cup (IF "reject" \in Env \/ k = "INVALID" THEN {Refusal} ELSE {})
    \cup (IF "lost" \in Env THEN LostAnswers(k) ELSE {})

KindsFor(source) ==
    {k \in Kinds : /\ k = "CLOSE" => Futures
                   /\ k = "INVALID" /\ source = "standalone" => Futures}

-----------------------------------------------------------------------------
(* A tick of the deployment.                                               *)

(* Mutant: every answer but an error counts as a fill.                     *)
AnyAnswerFills(a) == IF a = "error" THEN "failed" ELSE "filled"

(* Mutant: the broker's answer is stored as it is.                         *)
AnswerAsStatus(a) == a

(* dispatch_orders: only filled and open are taken over from the broker.   *)
DispatchStatus(a) == IF a \in {"filled", "open"} THEN a ELSE "failed"

(* DeploymentState.position: created as None, and no statement changes it. *)
SeesPosition == FALSE

(* How many orders the strategy places: the subprocess is handed state and *)
(* position, and returns the orders it collected.                          *)
Wants ==
    CASE setting.policy = "once"     -> {IF bought THEN 0 ELSE 1}
      [] setting.policy = "position" -> {IF SeesPosition THEN 0 ELSE 1}
      [] OTHER                       -> 0 .. MaxBatch

StartTick ==
    /\ tick = "idle"
    /\ running
    /\ tick' = "run"
    /\ UNCHANGED <<exch, rows, running, bought, batch, next, pc, ord, unsure, refused, losses>>

(* The subprocess ends with orders and a new user_state; or with an error, *)
(* an exit code or a timeout: then the tick only writes a log entry.       *)
RunStrategy ==
    /\ tick = "run"
    /\ \/ \E n \in Wants, os \in SUBSET Fresh :
            /\ Cardinality(os) = n
            /\ batch' \in {q \in [1..n -> os] : \A i, j \in 1..n : q[i] = q[j] => i = j}
            /\ next' = (bought \/ n > 0)
            /\ by' = [o \in Orders |-> IF o \in os THEN "strategy" ELSE by[o]]
            /\ at' = [o \in Orders |-> IF o \in os THEN "session" ELSE at[o]]
            /\ tick' = "dispatch"
       \/ /\ tick' = "idle"
          /\ UNCHANGED <<batch, next, by, at>>
    /\ UNCHANGED <<exch, status, id, running, bought, pc, ord, unsure, refused, losses>>

(* What is noted of the outcome r of sending order o, with status st.      *)
Noted(o, r, st) ==
    /\ exch' = [exch EXCEPT ![o] = r.ex]
    /\ id' = [id EXCEPT ![o] = r.id]
    /\ status' = [status EXCEPT ![o] = st]
    /\ unsure' = IF r.lost THEN unsure \cup {o} ELSE unsure

(* A paper order is filled without an exchange.                            *)
NotedPaper(o) ==
    /\ status' = [status EXCEPT ![o] = "filled"]
    /\ UNCHANGED <<exch, id, unsure>>

(* Mutant: a failed order ends the tick; nothing of it is committed.       *)
DispatchStopsAtError ==
    /\ tick = "dispatch" /\ batch # <<>>
    /\ LET o == Head(batch)
       IN  \/ ~Live /\ NotedPaper(o) /\ batch' = Tail(batch) /\ UNCHANGED tick
           \/ /\ Live
              /\ \E k \in KindsFor("strategy") : \E r \in PlaceOrder(k) :
                    /\ Noted(o, r, DispatchStatus(r.answer))
                    /\ batch' = IF r.answer = "error" THEN <<>> ELSE Tail(batch)
                    /\ tick' = IF r.answer = "error" THEN "idle" ELSE tick
    /\ UNCHANGED <<by, at, running, bought, next, pc, ord, refused, losses>>

(* One order of the batch; a missing broker connection is "rejected", an   *)
(* exception of the broker is caught and noted, and the loop goes on.      *)
DispatchOrder ==
    /\ tick = "dispatch" /\ batch # <<>>
    /\ LET o == Head(batch)
       IN  \/ ~Live /\ NotedPaper(o)
           \/ /\ Live
              /\ \/ Noted(o, Refusal, "rejected")
                 \/ \E k \in KindsFor("strategy") : \E r \in PlaceOrder(k) :
                       Noted(o, r, DispatchStatus(r.answer))
    /\ batch' = Tail(batch)
    /\ UNCHANGED <<by, at, running, bought, tick, next, pc, ord, refused, losses>>

(* Mutant: the tick's rows are committed, the new user_state is not.       *)
CommitKeepsState ==
    /\ tick = "dispatch" /\ batch = <<>>
    /\ at' = [o \in Orders |-> IF by[o] = "strategy" /\ at[o] = "session" THEN "db" ELSE at[o]]
    /\ tick' = "idle" /\ next' = FALSE
    /\ UNCHANGED <<exch, by, status, id, running, bought, batch, pc, ord, unsure, refused, losses>>

(* The rows of the batch and the new user_state are committed together,    *)
(* or see TickFails.                                                       *)
CommitTick ==
    /\ tick = "dispatch" /\ batch = <<>>
    /\ at' = [o \in Orders |-> IF by[o] = "strategy" /\ at[o] = "session" THEN "db" ELSE at[o]]
    /\ bought' = next
    /\ tick' = "idle" /\ next' = FALSE
    /\ UNCHANGED <<exch, by, status, id, running, batch, pc, ord, unsure, refused, losses>>

Tick == StartTick \/ RunStrategy \/ DispatchOrder \/ CommitTick

-----------------------------------------------------------------------------
(* Orders placed by hand.                                                  *)

Goto(s, step) == pc' = [pc EXCEPT ![s] = step]
Done(s) == Goto(s, "idle") /\ ord' = [ord EXCEPT ![s] = {}]

(* POST .../manual-order and POST /trades/manual: the checks before the    *)
(* order is sent.                                                          *)
AcceptOrder(s, source) ==
    /\ pc[s] = "idle"
    /\ source = "deployment" => running
    /\ \E o \in Fresh :
          /\ by' = [by EXCEPT ![o] = source]
          /\ at' = [at EXCEPT ![o] = "session"]
          /\ ord' = [ord EXCEPT ![s] = {o}]
    /\ Goto(s, "place")
    /\ UNCHANGED <<exch, status, id, running, runner, unsure, refused, losses>>

(* place_manual_order takes any answer for a fill; place_manual_trade      *)
(* tells filled and rejected from the rest.                                *)
ManualStatus(source, a) ==
    IF a = "error" THEN "failed"
    ELSE IF source = "deployment" THEN "filled"
    ELSE IF a \in {"filled", "rejected"} THEN a ELSE "open"

SendOrder(s) ==
    /\ pc[s] = "place"
    /\ \E o \in ord[s] :
          \/ by[o] = "deployment" /\ ~Live /\ NotedPaper(o)
          \/ /\ by[o] = "standalone" \/ Live
             /\ \/ by[o] = "deployment" /\ Noted(o, Refusal, "rejected")
                \/ \E k \in KindsFor(by[o]) : \E r \in PlaceOrder(k) :
                      Noted(o, r, ManualStatus(by[o], r.answer))
    /\ Goto(s, "insert")
    /\ UNCHANGED <<by, at, running, runner, ord, refused, losses>>

InsertRow(s) ==
    /\ pc[s] = "insert"
    /\ at' = [o \in Orders |-> IF o \in ord[s] THEN "db" ELSE at[o]]
    /\ Done(s)
    /\ UNCHANGED <<exch, by, status, id, running, runner, unsure, refused, losses>>

-----------------------------------------------------------------------------
(* Cancellation.                                                           *)

(* Only standalone trades are checked for a status that can be cancelled.  *)
MayCancel(o) == by[o] = "standalone" => status[o] \in {"submitted", "open"}

(* With a broker_order_id (and, for a deployment, in live mode) the broker *)
(* is asked to cancel.                                                     *)
AsksBroker(o) == id[o] # "none" /\ (by[o] = "standalone" \/ Live)

AcceptCancel(s) ==
    /\ pc[s] = "idle"
    /\ \E o \in Orders :
          /\ at[o] = "db" /\ MayCancel(o)
          /\ ord' = [ord EXCEPT ![s] = {o}]
          /\ Goto(s, IF AsksBroker(o) THEN "cancel" ELSE "update")
    /\ UNCHANGED <<exch, rows, running, runner, unsure, refused, losses>>

(* Mutant: the new Binance adapter is not told the order's symbol.         *)
ReachesUnlessBinance(o) == setting.broker # "binance" /\ id[o] = "real"

(* The adapter is a new one: a Binance adapter only knows the symbols of   *)
(* its own orders and those cancel_manual_trade gives it again ...         *)
BinanceKnows(o) == by[o] = "standalone" /\ id[o] = "real"

(* ... and a made up id means nothing to Exchange1.                        *)
Exchange1Knows(o) == id[o] = "real"

Reaches(o) == IF setting.broker = "binance" THEN BinanceKnows(o) ELSE Exchange1Knows(o)

(* Any error of the call is swallowed.                                     *)
CancelAtBroker(s) ==
    /\ pc[s] = "cancel"
    /\ \E o \in ord[s] :
          \/ /\ Reaches(o) /\ exch[o] = "open"
             /\ \E e \in {"cancelled", "partial"} : exch' = [exch EXCEPT ![o] = e]
             /\ UNCHANGED refused
          \/ /\ ~Reaches(o) \/ exch[o] # "open"
             /\ UNCHANGED <<exch, refused>>
          \/ /\ Reaches(o) /\ {"reject", "lost"} \cap Env # {}
             /\ refused' = refused \cup {o}
             /\ UNCHANGED exch
    /\ Goto(s, "update")
    /\ UNCHANGED <<rows, running, runner, ord, unsure, losses>>

UpdateRow(s) ==
    /\ pc[s] = "update"
    /\ status' = [o \in Orders |-> IF o \in ord[s] THEN "cancelled" ELSE status[o]]
    /\ Done(s)
    /\ UNCHANGED <<exch, by, at, id, running, runner, unsure, refused, losses>>

(* stop-all: rows still "submitted" are marked cancelled.                  *)
StopAll ==
    /\ running
    /\ running' = FALSE
    /\ status' = [o \in Orders |->
                    IF by[o] \in {"strategy", "deployment"} /\ at[o] = "db" /\ status[o] = "submitted"
                      THEN "cancelled" ELSE status[o]]
    /\ UNCHANGED <<exch, by, at, id, runner, pc, ord, unsure, refused, losses>>

Handle(s) == SendOrder(s) \/ InsertRow(s) \/ CancelAtBroker(s) \/ UpdateRow(s)

-----------------------------------------------------------------------------
(* The environment.                                                        *)

ExchangeEnds(o) ==
    /\ exch[o] = "open"
    /\ \E e \in Ended : exch' = [exch EXCEPT ![o] = e]
    /\ UNCHANGED <<rows, running, runner, pc, ord, unsure, refused, losses>>

(* What is lost with a transaction: the rows added to it.                  *)
Lose(os) ==
    at' = [o \in Orders |-> IF at[o] = "session" /\ o \in os THEN "lost" ELSE at[o]]

TickLost ==
    /\ losses < MaxLosses /\ losses' = losses + 1
    /\ Lose({o \in Orders : by[o] = "strategy"})
    /\ tick' = "idle" /\ batch' = <<>> /\ next' = FALSE
    /\ UNCHANGED <<exch, by, status, id, running, bought, pc, ord, unsure, refused>>

RunnerCrash == "crash" \in Env /\ tick # "idle" /\ TickLost

(* An order of the strategy without a quantity ends the loop with an       *)
(* exception, or the commit fails: on a user_state that is no JSON for the *)
(* database, a level too long for the log, a deployment that is gone.      *)
TickFails == "rollback" \in Env /\ tick = "dispatch" /\ TickLost

(* The INSERT or UPDATE of a request fails.                                *)
RequestFails(s) ==
    /\ "rollback" \in Env
    /\ pc[s] \in {"insert", "update"}
    /\ Lose(ord[s])
    /\ Done(s)
    /\ UNCHANGED <<exch, by, status, id, running, runner, unsure, refused, losses>>

ServerCrash ==
    /\ "crash" \in Env
    /\ \E s \in Slots : pc[s] # "idle"
    /\ Lose({o \in Orders : by[o] # "strategy"})
    /\ pc' = [s \in Slots |-> "idle"]
    /\ ord' = [s \in Slots |-> {}]
    /\ UNCHANGED <<exch, by, status, id, running, runner, unsure, refused, losses>>

Next ==
    /\ \/ Tick
       \/ \E s \in Slots : \/ AcceptOrder(s, "deployment")
                           \/ AcceptOrder(s, "standalone")
                           \/ AcceptCancel(s)
                           \/ Handle(s)
                           \/ RequestFails(s)
       \/ StopAll
       \/ \E o \in Orders : ExchangeEnds(o)
       \/ TickFails \/ RunnerCrash \/ ServerCrash
    /\ UNCHANGED setting

Spec == Init /\ [][Next]_vars

-----------------------------------------------------------------------------
(* Properties.                                                             *)

(* Every variable stays in the values the code gives it.                   *)
TypeOK ==
    /\ setting \in Settings
    /\ exch \in [Orders -> {"none"} \cup Known]
    /\ by \in [Orders -> Sources]
    /\ at \in [Orders -> {"none", "session", "db", "lost"}]
    /\ status \in [Orders -> Statuses]
    /\ id \in [Orders -> Ids]
    /\ running \in BOOLEAN /\ bought \in BOOLEAN /\ next \in BOOLEAN
    /\ tick \in {"idle", "run", "dispatch"}
    /\ batch \in Seq(Orders)
    /\ pc \in [Slots -> {"idle", "place", "insert", "cancel", "update"}]
    /\ ord \in [Slots -> SUBSET Orders]
    /\ unsure \subseteq Orders /\ refused \subseteq Orders
    /\ losses \in 0 .. MaxLosses

(* Orders that were for the exchange and have a committed row.             *)
Recorded == {o \in Orders : at[o] = "db" /\ (by[o] = "standalone" \/ Live)}

(* What a committed row says of the order at the exchange.  Filled is what *)
(* Binance said of it, and that Exchange1 has taken a market order; open   *)
(* is an order the exchange has got; rejected and failed are orders that   *)
(* bought nothing, unless the answer was lost, and but for the part of a   *)
(* Binance market order that expired.  A manual order of a deployment is   *)
(* filled whatever the broker answers, and then says nothing.              *)
StatusTrue ==
    \A o \in Recorded :
        /\ status[o] = "filled" /\ by[o] # "deployment" =>
              IF setting.broker = "binance" THEN exch[o] = "filled" ELSE exch[o] # "none"
        /\ status[o] = "open" => exch[o] # "none"
        /\ status[o] = "rejected" => exch[o] = "none" \/ o \in unsure
        /\ status[o] = "failed" =>
              \/ exch[o] \in {"none", "cancelled"}
              \/ exch[o] = "partial" /\ setting.broker = "binance"
              \/ o \in unsure

(* An order shown as cancelled no longer rests at the exchange, unless the *)
(* cancellation itself failed there; for every order the exchange gave an  *)
(* id, but a Binance deployment's (see Reaches).                           *)
CancelledIsDead ==
    \A o \in Orders :
        /\ at[o] = "db" /\ status[o] = "cancelled" /\ id[o] = "real"
        /\ setting.broker = "binance" => by[o] = "standalone"
        /\ exch[o] = "open"
        => o \in refused

StrategyBuys == {o \in Orders : by[o] = "strategy" /\ exch[o] \in {"open", "filled", "partial"}}

(* A strategy that notes in its user_state that it has bought buys once,  *)
(* whatever its orders meet; only a runner that dies, or whose transaction *)
(* fails, between the order and the commit makes it buy again, once for    *)
(* each time.                                                              *)
ActsOnce == setting.policy = "once" => Cardinality(StrategyBuys) <= 1 + losses

(* Every order the exchange has got is recorded once the process that sent *)
(* it has finished with it, however the other orders of its batch fare;    *)
(* only a process that dies in between, or a transaction that fails, loses *)
(* rows.                                                                   *)
ExecutedIsRecorded ==
    \A o \in Orders :
        /\ exch[o] # "none"
        /\ by[o] = "strategy" => tick = "idle"
        /\ \A s \in Slots : o \notin ord[s]
        => \/ at[o] = "db"
           \/ /\ at[o] = "lost" /\ {"crash", "rollback"} \cap Env # {}
              /\ by[o] = "strategy" => losses > 0

(* "The runner is responsible for updating position": a strategy that buys *)
(* only while it sees no position never buys twice.                        *)
(* The code does not keep this; see "More disagreements" in the README.    *)
BuysOnePosition == setting.policy = "position" => Cardinality(StrategyBuys) <= 1
=============================================================================
