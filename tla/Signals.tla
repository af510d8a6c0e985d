------------------------------ MODULE Signals ------------------------------
(***************************************************************************)
(* From a webhook to the signal log: execute() of webhooks/executor.py and *)
(* the routes in webhooks/router.py that call it, with the rules and the   *)
(* Redis counters of webhooks/processor.py.                                *)
(*                                                                         *)
(* One payload goes to several strategies.  Their rules are evaluated one  *)
(* after the other, the orders that pass run concurrently, with each other *)
(* and with those of other webhooks, and the outcome is logged after the   *)
(* response.  Nothing is locked: a rule reads a counter that is written    *)
(* when the order is done.                                                 *)
(*                                                                         *)
(* Dual-leg strategies have a module of their own (DualLeg).               *)
(***************************************************************************)
EXTENDS Integers, FiniteSets

CONSTANTS
    Strategies,
    Mode,          \* "log", "paper" or "live"
    Hooks,         \* webhooks handled at a time
    MaxOpen,       \* per strategy: rules.max_open_positions, 0 = no such rule
    MaxSignals,    \* per strategy: rules.max_signals_per_day, likewise
    Env,           \* what the environment may do, a subset of Events
    MaxRequests    \* bound: webhooks in a behaviour

Events == {"redis",     \* a Redis call may raise
           "rules",     \* the rules of a strategy, which nothing validates, may raise
           "timeout",   \* an order may be executed though its call raised
           "database",  \* writing the log may fail
           "crash",     \* a server process may die
           "midnight"}

ASSUME SignalsAssumption ==
    /\ IsFiniteSet(Hooks) /\ Hooks # {}
    /\ Mode \in [Strategies -> {"log", "paper", "live"}]
    /\ MaxOpen \in [Strategies -> Nat] /\ MaxSignals \in [Strategies -> Nat]
    /\ Env \subseteq Events
    /\ MaxRequests \in Nat

Actions == {"BUY", "SELL"}

(* Where one strategy's share of a webhook is: before its rules, placing   *)
(* its order, filled on paper and waiting for the other orders, in one of  *)
(* the calls that update the counters, or nowhere.                         *)
Steps == {"none", "rules", "order", "paper", "held", "positions", "decr", "signals"}

VARIABLES
    positions,   \* Redis wh:positions:{strategy}
    signals,     \* Redis wh:signals:{strategy}:{today}
    pc,          \* per webhook: "idle", "run" (execute), "log" (answered), or
                 \* "failed" (execute raised; its orders go on)
    action,      \* per webhook: the action of its signal
    step,        \* per webhook and strategy
    filled,      \* per webhook: strategies with execution_result "filled"
    logged,      \* per strategy: webhook_signals rows that say "filled"
    fills,       \* history: orders filled, on paper or at the exchange
    today,       \* history: those answered "filled" since midnight
    escaped,     \* history: filled for webhooks that failed
    faults,      \* history: faults that happened
    received

redis   == <<positions, signals>>
hooks   == <<pc, action, step, filled>>
history == <<fills, today, escaped, faults>>
vars    == <<redis, hooks, logged, history, received>>

Init ==
    /\ positions = [s \in Strategies |-> 0]
    /\ signals = [s \in Strategies |-> 0]
    /\ pc = [h \in Hooks |-> "idle"]
    /\ action = [h \in Hooks |-> "BUY"]
    /\ step = [h \in Hooks |-> [s \in Strategies |-> "none"]]
    /\ filled = [h \in Hooks |-> {}]
    /\ logged = [s \in Strategies |-> 0]
    /\ fills = [s \in Strategies |-> 0]
    /\ today = [s \in Strategies |-> 0]
    /\ escaped = [s \in Strategies |-> 0]
    /\ faults = {}
    /\ received = 0

Goto(h, s, next) == step' = [step EXCEPT ![h][s] = next]

(* Something of kind e goes wrong.                                         *)
Fault(e) == e \in Env /\ faults' = faults \cup {e}

(* The webhooks H are over.                                                *)
Forget(H) ==
    /\ pc' = [h \in Hooks |-> IF h \in H THEN "idle" ELSE pc[h]]
    /\ action' = [h \in Hooks |-> IF h \in H THEN "BUY" ELSE action[h]]
    /\ step' = [h \in Hooks |-> IF h \in H THEN [s \in Strategies |-> "none"] ELSE step[h]]
    /\ filled' = [h \in Hooks |-> IF h \in H THEN {} ELSE filled[h]]

-----------------------------------------------------------------------------
(* One webhook.                                                            *)

(* receive_webhook with the active strategies, or _targeted with one.      *)
Receive(h) ==
    /\ pc[h] = "idle"
    /\ received < MaxRequests
    /\ received' = received + 1
    /\ pc' = [pc EXCEPT ![h] = "run"]
    /\ \E a \in Actions, S \in SUBSET Strategies :
          /\ action' = [action EXCEPT ![h] = a]
          /\ step' = [step EXCEPT ![h] =
                        [s \in Strategies |-> IF s \in S THEN "rules" ELSE "none"]]
    /\ UNCHANGED <<redis, filled, logged, history>>

(* Mutant: the limits are compared with > instead of >=.                   *)
AllowsOneMore(s, open, sent) ==
    /\ MaxOpen[s] # 0 => open <= MaxOpen[s]
    /\ MaxSignals[s] # 0 => sent <= MaxSignals[s]

(* The two rules of evaluate_rules that read counters.                     *)
Allows(s, open, sent) ==
    /\ MaxOpen[s] # 0 => open < MaxOpen[s]
    /\ MaxSignals[s] # 0 => sent < MaxSignals[s]

Start(h, s) == Goto(h, s, IF Mode[s] = "live" THEN "order" ELSE "paper")

(* Mapping, the MGET of the counters ((0, 0) when it raises), the rules,   *)
(* and the task that is created for the order.  A strategy drops out when  *)
(* it has no template or broker, its mapping fails or another rule blocks. *)
Evaluate(h, s) ==
    /\ step[h][s] = "rules"
    /\ \/ Goto(h, s, "none") /\ UNCHANGED faults
       \/ /\ Mode[s] # "log"
          /\ Allows(s, positions[s], signals[s])
          /\ Start(h, s)
          /\ UNCHANGED faults
       \/ /\ Mode[s] # "log"
          /\ Fault("redis")
          /\ Allows(s, 0, 0)
          /\ Start(h, s)
    /\ UNCHANGED <<redis, pc, action, filled, logged, fills, today, escaped, received>>

(* No try is around the rules, so that a malformed one ends execute() with *)
(* a 500, though not the tasks it has created: live orders go on and are   *)
(* counted, while nobody asks for the outcome of the paper trades, which   *)
(* go with the request's session.                                          *)
Raise(h, s) ==
    /\ step[h][s] = "rules"
    /\ Fault("rules")
    /\ pc' = [pc EXCEPT ![h] = "failed"]
    /\ step' = [step EXCEPT ![h] =
                  [u \in Strategies |-> IF step[h][u] \in {"rules", "paper", "held"} THEN "none"
                                        ELSE step[h][u]]]
    /\ UNCHANGED <<redis, action, filled, logged, fills, today, escaped, received>>

Fill(h, s) ==
    /\ filled' = [filled EXCEPT ![h] = @ \cup {s}]
    /\ fills' = [fills EXCEPT ![s] = @ + 1]
    /\ today' = [today EXCEPT ![s] = @ + 1]

(* _place_live_order: only "filled" is counted; the order may be refused,  *)
(* rest at the exchange ("open"), or raise.                                *)
PlaceOrder(h, s) ==
    /\ step[h][s] = "order"
    /\ \/ Fill(h, s) /\ Goto(h, s, "positions") /\ UNCHANGED faults
       \/ Goto(h, s, "none") /\ UNCHANGED <<filled, fills, today, faults>>
       \/ /\ Fault("timeout")
          /\ fills' = [fills EXCEPT ![s] = @ + 1]
          /\ Goto(h, s, "none")
          /\ UNCHANGED <<filled, today>>
    /\ UNCHANGED <<redis, pc, action, logged, escaped, received>>

(* execute_paper_trade, in the session of the request, which is never      *)
(* committed: no position is ever there to be sold.                        *)
PaperFills(h) == action[h] = "BUY"

(* Mutant: an exception of one trade ends the whole request.               *)
ExceptionEscapes(h, s) ==
    /\ step[h][s] = "paper"
    /\ \/ PaperFills(h) /\ Goto(h, s, "held") /\ UNCHANGED <<pc, action, filled>>
       \/ Forget({h})
    /\ UNCHANGED <<redis, logged, history, received>>

(* _execute_paper: without an active session, price or balance the trade   *)
(* is rejected; trades that use the session at the same time may raise.    *)
PaperTrade(h, s) ==
    /\ step[h][s] = "paper"
    /\ \/ PaperFills(h) /\ Goto(h, s, "held")
       \/ Goto(h, s, "none")
    /\ UNCHANGED <<redis, pc, action, filled, logged, history, received>>

(* After the gather, the paper trades are counted one after the other.     *)
CountPaper(h, s) ==
    /\ step[h][s] = "held"
    /\ \A u \in Strategies : step[h][u] \in {"none", "held"}
    /\ Fill(h, s)
    /\ Goto(h, s, "positions")
    /\ UNCHANGED <<redis, pc, action, logged, escaped, faults, received>>

(* Mutant: a SELL decrements without looking.                              *)
NoFloor(h, s) ==
    /\ step[h][s] = "positions"
    /\ positions' = [positions EXCEPT ![s] = IF action[h] = "BUY" THEN @ + 1 ELSE @ - 1]
    /\ Goto(h, s, "signals")
    /\ UNCHANGED <<signals, pc, action, filled, logged, history, received>>

(* update_position_count: INCR for a BUY; GET for a SELL, then ...         *)
UpdatePositions(h, s) ==
    /\ step[h][s] = "positions"
    /\ \/ /\ action[h] = "BUY"
          /\ positions' = [positions EXCEPT ![s] = @ + 1]
          /\ Goto(h, s, "signals")
          /\ UNCHANGED faults
       \/ /\ action[h] = "SELL"
          /\ Goto(h, s, IF positions[s] > 0 THEN "decr" ELSE "signals")
          /\ UNCHANGED <<positions, faults>>
       \/ /\ Fault("redis")
          /\ Goto(h, s, "signals")
          /\ UNCHANGED positions
    /\ UNCHANGED <<signals, pc, action, filled, logged, fills, today, escaped, received>>

(* ... DECR in another call if what it got was positive.                   *)
Decrement(h, s) ==
    /\ step[h][s] = "decr"
    /\ \/ positions' = [positions EXCEPT ![s] = @ - 1] /\ UNCHANGED faults
       \/ Fault("redis") /\ UNCHANGED positions
    /\ Goto(h, s, "signals")
    /\ UNCHANGED <<signals, pc, action, filled, logged, fills, today, escaped, received>>

(* Mutant: a SELL takes its signal back.                                   *)
SellsUncount(h, s) ==
    /\ step[h][s] = "signals"
    /\ signals' = [signals EXCEPT ![s] = IF action[h] = "BUY" THEN @ + 1 ELSE @ - 1]
    /\ Goto(h, s, "none")
    /\ UNCHANGED <<positions, pc, action, filled, logged, history, received>>

(* increment_signals_today.                                                *)
CountSignal(h, s) ==
    /\ step[h][s] = "signals"
    /\ \/ signals' = [signals EXCEPT ![s] = @ + 1] /\ UNCHANGED faults
       \/ Fault("redis") /\ UNCHANGED signals
    /\ Goto(h, s, "none")
    /\ UNCHANGED <<positions, pc, action, filled, logged, fills, today, escaped, received>>

Handle(h, s) ==
    \/ Evaluate(h, s) \/ PlaceOrder(h, s) \/ PaperTrade(h, s)
    \/ CountPaper(h, s) \/ UpdatePositions(h, s) \/ Decrement(h, s) \/ CountSignal(h, s)

(* execute() returns when every task has; the response is sent.            *)
Respond(h) ==
    /\ pc[h] = "run"
    /\ \A s \in Strategies : step[h][s] = "none"
    /\ pc' = [pc EXCEPT ![h] = "log"]
    /\ UNCHANGED <<redis, action, step, filled, logged, history, received>>

(* The last order of a webhook that failed is done; nothing is logged.     *)
Gone(h) ==
    /\ pc[h] = "failed"
    /\ \A s \in Strategies : step[h][s] = "none"
    /\ escaped' = [s \in Strategies |-> escaped[s] + IF s \in filled[h] THEN 1 ELSE 0]
    /\ Forget({h})
    /\ UNCHANGED <<redis, logged, fills, today, faults, received>>

(* _write_signal_logs, in the background and in one transaction.           *)
WriteLog(h) ==
    /\ pc[h] = "log"
    /\ \/ /\ logged' = [s \in Strategies |-> logged[s] + IF s \in filled[h] THEN 1 ELSE 0]
          /\ UNCHANGED faults
       \/ Fault("database") /\ UNCHANGED logged
    /\ Forget({h})
    /\ UNCHANGED <<redis, fills, today, escaped, received>>

-----------------------------------------------------------------------------
(* The environment.                                                        *)

(* The webhooks whose share for strategy s is at one of the steps Q.       *)
Number(Q, s) == Cardinality({h \in Hooks : step[h][s] \in Q})

(* Steps of an order that was answered "filled" and is still to be counted *)
Booking == {"positions", "decr", "signals"}

(* A new day has a new key; what is being booked is counted in it.         *)
Midnight ==
    /\ "midnight" \in Env
    /\ signals' = [s \in Strategies |-> 0]
    /\ today' = [s \in Strategies |-> Number(Booking, s)]
    /\ UNCHANGED <<positions, hooks, logged, fills, escaped, faults, received>>

(* A server process dies with the webhooks it was handling.                *)
Crash ==
    /\ Fault("crash")
    /\ \E H \in SUBSET {h \in Hooks : pc[h] # "idle"} : H # {} /\ Forget(H)
    /\ UNCHANGED <<redis, logged, fills, today, escaped, received>>

Next ==
    \/ \E h \in Hooks : Receive(h) \/ Respond(h) \/ Gone(h) \/ WriteLog(h)
    \/ \E h \in Hooks, s \in Strategies : Handle(h, s) \/ Raise(h, s)
    \/ Midnight \/ Crash

Spec == Init /\ [][Next]_vars

-----------------------------------------------------------------------------
(* Properties.                                                             *)

(* Every variable stays in its set.                                        *)
TypeOK ==
    /\ positions \in [Strategies -> Int] /\ signals \in [Strategies -> Nat]
    /\ pc \in [Hooks -> {"idle", "run", "log", "failed"}]
    /\ action \in [Hooks -> Actions]
    /\ step \in [Hooks -> [Strategies -> Steps]]
    /\ filled \in [Hooks -> SUBSET Strategies]
    /\ logged \in [Strategies -> Nat]
    /\ fills \in [Strategies -> Nat] /\ today \in [Strategies -> Nat]
    /\ escaped \in [Strategies -> Nat]
    /\ faults \subseteq Events
    /\ received \in Nat

(* "decrement (SELL, floor 0)": the floor is tested in one call and the    *)
(* decrement made in another, so SELLs that cross may pass it, by one less *)
(* than the webhooks handled at a time and never further.                  *)
PositionsFloor == \A s \in Strategies : positions[s] >= 1 - Cardinality(Hooks)

(* max_open_positions is checked before the order and counted after it;    *)
(* with n webhooks at a time and a Redis that answers, the counter passes  *)
(* the limit by at most n - 1, whatever crashes.                           *)
OpenPositionsLimit ==
    "redis" \notin faults =>
        \A s \in Strategies : MaxOpen[s] # 0 =>
            positions[s] <= MaxOpen[s] - 1 + Cardinality(Hooks)

(* max_signals_per_day likewise limits the orders filled in a day, paper   *)
(* and live, if no increment is lost with a process or by Redis.           *)
DailyLimit ==
    faults \cap {"redis", "crash"} = {} =>
        \A s \in Strategies : MaxSignals[s] # 0 =>
            today[s] <= MaxSignals[s] - 1 + Cardinality(Hooks)

(* Filled for a strategy by webhooks that have not been logged.            *)
Unlogged(s) == {h \in Hooks : s \in filled[h]}

(* Every filled order is reported as such by exactly one row of the log,   *)
(* or will be: one strategy's failure does not lose another's row, unless  *)
(* the rules of one raised, and then the rows lost are those of the orders *)
(* that its webhook had started.                                           *)
EveryFillLogged ==
    faults \cap {"timeout", "database", "crash"} = {} =>
        \A s \in Strategies :
            /\ logged[s] + Cardinality(Unlogged(s)) + escaped[s] = fills[s]
            /\ "rules" \notin faults => escaped[s] = 0
=============================================================================
