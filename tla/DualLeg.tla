------------------------------ MODULE DualLeg ------------------------------
(***************************************************************************)
(* The dual-leg ("close, then open") execution of webhook signals for one  *)
(* live strategy on Exchange1 futures: _execute_dual_leg in                *)
(* webhooks/executor.py, its Redis keys in webhooks/processor.py, and the  *)
(* routing of a futures order in brokers/exchange1.py.                     *)
(*                                                                         *)
(* Every await of the coroutine is a point where another request, another  *)
(* uvicorn worker or the outside world may step in, so one request is a    *)
(* sequence of actions, one per await.  A request slot is reused once its  *)
(* request is done; the number of slots is the number of requests the      *)
(* server works on at a time.                                              *)
(***************************************************************************)
EXTENDS Integers, FiniteSets

CONSTANTS
    Slots,        \* request slots: webhook requests in progress at a time
    Settings,     \* the strategies and environments to consider, see setting
    MaxRequests   \* bound: webhook requests received in a behaviour

(* What the environment may do.                                            *)
Events == {"reject", "timeout", "external", "redis", "midnight", "limit", "crash"}

ASSUME DualLegAssumption ==
    /\ IsFiniteSet(Slots)
    /\ Settings \subseteq [maxTrades: Nat, hours: BOOLEAN, serial: BOOLEAN,
                           env: SUBSET Events]
    /\ MaxRequests \in Nat

Sides   == {"long", "short"}
NoSide  == "none"            \* the empty (or absent) position_side
Actions == {"BUY", "SELL"}
Steps == {"idle", "read", "auth", "close", "clear", "open", "set", "count"}

Results == {"none", "blocked_by_rule", "no_action", "broker_not_found",
            "close_failed", "open_failed", "opened", "reversed", "closed",
            "crashed"}

VARIABLES
    setting,          \* the strategy's rules and its environment; never changes
    side, sideTTL,    \* Redis dual_leg:{id}:position_side, and whether it expires
    count, countTTL,  \* Redis dual_leg:{id}:trade_count (0 = no key), likewise
    pos,              \* contracts held at the exchange on each side
    resting,          \* unfilled limit orders at the exchange that would open a side
    inHours,          \* the wall clock is within rules.trading_hours
    pc,               \* per slot: the next await of its request, or "idle"
    action, kind,     \* per slot: the signal's action and order type
    tracked, stop,    \* per slot: position_side read, stop condition computed
    result,           \* execution_result of the request that finished last
    received,         \* requests received so far
    openLegs,         \* history: open legs executed today
    missed            \* history: those of them that no request will count

redis == <<side, sideTTL, count, countTTL>>
exch  == <<pos, resting>>
local == <<action, kind, tracked, stop>>
legs  == <<openLegs, missed>>
vars  == <<setting, redis, exch, inHours, pc, local, result, received, legs>>

MaxTrades == setting.maxTrades  \* rules.dual_leg.max_trades, 0 = unlimited
Hours     == setting.hours      \* rules.trading_hours is configured
Serial    == setting.serial     \* a signal only arrives when no other is in progress
Env       == setting.env        \* what the environment may do

OrderKinds == {"MARKET"} \cup (IF "limit" \in Env THEN {"LIMIT"} ELSE {})

(* Mutant: the action itself is stored as the side.                        *)
ActionAsSide(a) == a

NewSide(a) == IF a = "BUY" THEN "long" ELSE "short"

Idle    == \A t \in Slots : pc[t] = "idle"
Booking == {t \in Slots : pc[t] \in {"set", "count"}}

(* Which legs a signal a needs when s is tracked and st the stop condition *)
ClosesFor(s, st, a) == s # NoSide /\ (st \/ s # NewSide(a))

(* Mutant: the "already on this side" case is not skipped.                 *)
OpensAlways(s, st, a) == ~st

OpensFor(s, st, a)  == ~st /\ s # NewSide(a)

NeedClose(t) == ClosesFor(tracked[t], stop[t], action[t])
NeedOpen(t)  == OpensFor(tracked[t], stop[t], action[t])

(* Mutant: the limit is compared with > instead of >=.                     *)
StopsLate(n) == (MaxTrades # 0 /\ n > MaxTrades) \/ (Hours /\ ~inHours)

StopCondition(n) == (MaxTrades # 0 /\ n >= MaxTrades) \/ (Hours /\ ~inHours)

Goto(t, step) == /\ pc' = [pc EXCEPT ![t] = step]
                 /\ UNCHANGED <<local, result>>

(* The request returns res; its local variables are gone.                  *)
Finish(t, res) == /\ pc' = [pc EXCEPT ![t] = "idle"]
                  /\ action' = [action EXCEPT ![t] = "BUY"]
                  /\ kind' = [kind EXCEPT ![t] = "MARKET"]
                  /\ tracked' = [tracked EXCEPT ![t] = NoSide]
                  /\ stop' = [stop EXCEPT ![t] = FALSE]
                  /\ result' = res

Init ==
    /\ setting \in Settings
    /\ side = NoSide /\ sideTTL = FALSE
    /\ count = 0 /\ countTTL = FALSE
    /\ pos = [s \in Sides |-> 0]
    /\ resting = [s \in Sides |-> 0]
    /\ inHours \in BOOLEAN /\ (~Hours => inHours)
    /\ pc = [t \in Slots |-> "idle"]
    /\ action = [t \in Slots |-> "BUY"]
    /\ kind = [t \in Slots |-> "MARKET"]
    /\ tracked = [t \in Slots |-> NoSide]
    /\ stop = [t \in Slots |-> FALSE]
    /\ result = "none"
    /\ received = 0
    /\ openLegs = 0 /\ missed = 0

-----------------------------------------------------------------------------
(* The handler of one request.                                             *)

(* execute(): the strategy's rules run first; outside trading_hours they   *)
(* block the signal before the dual-leg code is reached.                   *)
Receive(t) ==
    /\ pc[t] = "idle"
    /\ received < MaxRequests
    /\ Serial => Idle
    /\ received' = received + 1
    /\ IF Hours /\ ~inHours
         THEN Finish(t, "blocked_by_rule")
         ELSE /\ \E a \in Actions, k \in OrderKinds :
                    /\ action' = [action EXCEPT ![t] = a]
                    /\ kind' = [kind EXCEPT ![t] = k]
              /\ pc' = [pc EXCEPT ![t] = "read"]
              /\ UNCHANGED <<tracked, stop, result>>
    /\ UNCHANGED <<redis, exch, inHours, legs>>

(* One MGET of both keys, (NoSide, 0) when Redis is down, and the decision *)
(* taken on what was read.                                                 *)
ReadState(t) ==
    /\ pc[t] = "read"
    /\ \E read \in {<<side, count>>} \cup (IF "redis" \in Env THEN {<<NoSide, 0>>} ELSE {}) :
          LET s  == read[1]
              st == StopCondition(read[2])
          IN  IF ClosesFor(s, st, action[t]) \/ OpensFor(s, st, action[t])
                THEN /\ tracked' = [tracked EXCEPT ![t] = s]
                     /\ stop' = [stop EXCEPT ![t] = st]
                     /\ pc' = [pc EXCEPT ![t] = "auth"]
                     /\ UNCHANGED <<action, kind, result>>
                ELSE Finish(t, "no_action")
    /\ UNCHANGED <<redis, exch, inHours, received, legs>>

(* _get_authenticated_broker: without a broker nothing is sent.            *)
Authenticate(t) ==
    /\ pc[t] = "auth"
    /\ \/ Goto(t, IF NeedClose(t) THEN "close" ELSE "open")
       \/ "reject" \in Env /\ Finish(t, "broker_not_found")
    /\ UNCHANGED <<redis, exch, inHours, received, legs>>

(* Mutant: BUY opens and SELL closes, whatever the position_side.          *)
RoutesByAction(a, s) == a = "BUY"

(* _place_futures_order: the pair (action, position_side) decides whether  *)
(* the order opens position_side or closes everything held in the symbol.  *)
RoutesToOpen(a, s) == s = NewSide(a)

(* What a market order (a, s) does at the exchange once accepted.  The     *)
(* close endpoint is called with closeType "all" and no side.              *)
Filled(a, s) ==
    /\ pos' = IF RoutesToOpen(a, s) THEN [pos EXCEPT ![s] = @ + 1]
                                    ELSE [x \in Sides |-> 0]
    /\ UNCHANGED resting

(* Mutant: every rejected close is taken for "position not found".         *)
AnyRejectionIsNotFound(a, s) == ~RoutesToOpen(a, s)

NothingToClose(a, s) == ~RoutesToOpen(a, s) /\ \A x \in Sides : pos[x] = 0

(* The close leg: a MARKET order with the signal's action and the tracked  *)
(* side.  "9012 position not found" counts as closed; any other failure    *)
(* ends the request.  After a timeout the order may have been executed.    *)
CloseLeg(t) ==
    LET a == action[t]
        s == tracked[t]
    IN  /\ pc[t] = "close"
        /\ \/ ~NothingToClose(a, s) /\ Filled(a, s) /\ Goto(t, "clear")
           \/ NothingToClose(a, s) /\ UNCHANGED exch /\ Goto(t, "clear")
           \/ "reject" \in Env /\ UNCHANGED exch /\ Finish(t, "close_failed")
           \/ "timeout" \in Env /\ Filled(a, s) /\ Finish(t, "close_failed")
        /\ UNCHANGED <<redis, inHours, received, legs>>

(* A Redis write followed by EXPIREAT; an exception in either is swallowed *)
(* by the helper, so neither, one or both may have happened.               *)
WriteSide(s) ==
    \/ side' = s /\ sideTTL' = TRUE
    \/ "redis" \in Env /\ side' = s /\ sideTTL' = FALSE
    \/ "redis" \in Env /\ UNCHANGED <<side, sideTTL>>

AfterClear(t) == IF NeedOpen(t) THEN Goto(t, "open") ELSE Finish(t, "closed")

ClearPosition(t) ==
    /\ pc[t] = "clear"
    /\ WriteSide(NoSide)
    /\ AfterClear(t)
    /\ UNCHANGED <<count, countTTL, exch, inHours, received, legs>>

(* The open leg: the signal itself with position_side = the new side.      *)
(* Only "filled" counts as success: a limit order that rests at the        *)
(* exchange is reported as open_failed.                                    *)
OpenLeg(t) ==
    LET s == NewSide(action[t])
    IN  /\ pc[t] = "open"
        /\ \/ /\ kind[t] = "MARKET"
              /\ Filled(action[t], s)
              /\ openLegs' = openLegs + 1
              /\ UNCHANGED missed
              /\ Goto(t, "set")
           \/ /\ kind[t] = "LIMIT"
              /\ resting' = [resting EXCEPT ![s] = @ + 1]
              /\ UNCHANGED <<pos, legs>>
              /\ Finish(t, "open_failed")
           \/ /\ "reject" \in Env
              /\ UNCHANGED <<exch, legs>>
              /\ Finish(t, "open_failed")
           \/ /\ "timeout" \in Env
              /\ Filled(action[t], s)
              /\ openLegs' = openLegs + 1
              /\ missed' = missed + 1
              /\ Finish(t, "open_failed")
        /\ UNCHANGED <<redis, inHours, received>>

SetPosition(t) ==
    /\ pc[t] = "set"
    /\ WriteSide(NewSide(action[t]))
    /\ Goto(t, "count")
    /\ UNCHANGED <<count, countTTL, exch, inHours, received, legs>>

(* INCR keeps the TTL an existing key has; EXPIREAT gives it one.          *)
IncrementTradeCount(t) ==
    /\ pc[t] = "count"
    /\ \/ count' = count + 1 /\ countTTL' = TRUE
       \/ "redis" \in Env /\ count' = count + 1 /\ UNCHANGED countTTL
       \/ "redis" \in Env /\ UNCHANGED <<count, countTTL>>
    /\ Finish(t, IF NeedClose(t) THEN "reversed" ELSE "opened")
    /\ UNCHANGED <<side, sideTTL, exch, inHours, received, legs>>

Handle(t) ==
    \/ ReadState(t) \/ Authenticate(t) \/ CloseLeg(t) \/ ClearPosition(t)
    \/ OpenLeg(t) \/ SetPosition(t) \/ IncrementTradeCount(t)

-----------------------------------------------------------------------------
(* The environment.                                                        *)

(* Mutant: trade_count never gets a TTL.                                   *)
MidnightKeepsCount ==
    /\ "midnight" \in Env
    /\ side' = IF sideTTL THEN NoSide ELSE side
    /\ sideTTL' = FALSE
    /\ openLegs' = Cardinality(Booking) /\ missed' = 0
    /\ UNCHANGED <<count, countTTL, exch, inHours, pc, local, result, received>>

(* Midnight IST: the keys that have a TTL expire.  A leg that is still     *)
(* being booked will be counted in the new day.                            *)
Midnight ==
    /\ "midnight" \in Env
    /\ side' = IF sideTTL THEN NoSide ELSE side
    /\ count' = IF countTTL THEN 0 ELSE count
    /\ sideTTL' = FALSE /\ countTTL' = FALSE
    /\ openLegs' = Cardinality(Booking) /\ missed' = 0
    /\ UNCHANGED <<exch, inHours, pc, local, result, received>>

TradingHoursChange ==
    /\ Hours
    /\ inHours' = ~inHours
    /\ UNCHANGED <<redis, exch, pc, local, result, received, legs>>

(* The user closes the position on the exchange's own site.                *)
ExternalClose ==
    /\ "external" \in Env
    /\ pos' = [s \in Sides |-> 0]
    /\ UNCHANGED <<redis, resting, inHours, pc, local, result, received, legs>>

RestingOrderFills(s) ==
    /\ resting[s] > 0
    /\ resting' = [resting EXCEPT ![s] = @ - 1]
    /\ pos' = [pos EXCEPT ![s] = @ + 1]
    /\ openLegs' = openLegs + 1 /\ missed' = missed + 1
    /\ UNCHANGED <<redis, inHours, pc, local, result, received>>

(* The server process dies: its requests are gone, Redis and the exchange  *)
(* keep what they have.                                                    *)
Crash ==
    /\ "crash" \in Env
    /\ ~Idle
    /\ pc' = [t \in Slots |-> "idle"]
    /\ action' = [t \in Slots |-> "BUY"]
    /\ kind' = [t \in Slots |-> "MARKET"]
    /\ tracked' = [t \in Slots |-> NoSide]
    /\ stop' = [t \in Slots |-> FALSE]
    /\ result' = "crashed"
    /\ missed' = missed + Cardinality(Booking)
    /\ UNCHANGED <<redis, exch, inHours, received, openLegs>>

Environment ==
    \/ Midnight
    \/ TradingHoursChange
    \/ ExternalClose
    \/ \E s \in Sides : RestingOrderFills(s)
    \/ Crash

Next ==
    /\ \/ \E t \in Slots : Receive(t) \/ Handle(t)
       \/ Environment
    /\ UNCHANGED setting

Spec == Init /\ [][Next]_vars

-----------------------------------------------------------------------------
(* Properties.                                                             *)

(* Every variable stays in the values the code gives it: Redis only ever   *)
(* holds an empty side, "long" or "short", and a non-negative count.       *)
TypeOK ==
    /\ setting \in Settings
    /\ side \in {NoSide} \cup Sides /\ sideTTL \in BOOLEAN
    /\ count \in Nat /\ countTTL \in BOOLEAN
    /\ pos \in [Sides -> Nat]
    /\ resting \in [Sides -> Nat]
    /\ inHours \in BOOLEAN
    /\ pc \in [Slots -> Steps]
    /\ action \in [Slots -> Actions]
    /\ kind \in [Slots -> {"MARKET", "LIMIT"}]
    /\ tracked \in [Slots -> {NoSide} \cup Sides]
    /\ stop \in [Slots -> BOOLEAN]
    /\ result \in Results
    /\ received \in Nat
    /\ openLegs \in Nat /\ missed \in Nat

(* One signal at a time, no trade limit, no trading hours, market orders,  *)
(* and an exchange that may reject an order or have its position closed    *)
(* by hand but never loses an answer.                                      *)
Benign ==
    /\ Serial /\ MaxTrades = 0 /\ ~Hours
    /\ Env \subseteq {"reject", "external"}

(* Redis takes every write; orders may be rejected or rest, answers be     *)
(* lost and the server die.                                                *)
BookingReliable == "redis" \notin Env

(* In a benign setting the strategy never holds more than one contract, so *)
(* never both sides at once and never a doubled position, at any moment of *)
(* a reversal.                                                             *)
SinglePosition == Benign => pos["long"] + pos["short"] <= 1

(* In a benign setting, between requests a position the exchange holds is  *)
(* the one Redis tracks, so the next opposite signal will close it.        *)
HeldIsTracked == Benign /\ Idle => \A s \in Sides : pos[s] > 0 => side = s

(* trade_count is the number of open legs executed today, less those whose *)
(* booking is under way and those that were missed: their answer was lost, *)
(* they rested before they filled, or the server died before it booked     *)
(* them (_execute_dual_leg increments only after "filled").                *)
TradeCountExact ==
    BookingReliable => count + Cardinality(Booking) + missed = openLegs

(* Requests that have decided to open a leg and have not finished.         *)
Opening == {t \in Slots : /\ pc[t] \in {"auth", "close", "clear", "open", "set", "count"}
                          /\ NeedOpen(t)}

(* max_trades is checked when the state is read and counted when the leg   *)
(* is booked.  With n requests at a time, the open legs executed in a day  *)
(* overshoot the limit by at most n - 1 and one more for every leg that    *)
(* was missed.                                                             *)
MaxTradesOvershoot ==
    BookingReliable /\ MaxTrades # 0 =>
        openLegs <= MaxTrades - 1 + Cardinality(Slots) + missed

(* The documented row "position long, stop condition, any signal: close    *)
(* LONG, no open leg": a request that met the stop condition never adds to *)
(* the position held.                                                      *)
StopOnlyCloses ==
    [][\A t \in Slots : pc[t] = "close" /\ stop[t] /\ pc'[t] # "close"
            => \A s \in Sides : pos'[s] <= pos[s]]_vars

(* A close leg of a reversal that is taken for a success leaves nothing    *)
(* held, whatever failed before: the open leg never stacks on a position   *)
(* its own request has just seen closed.                                   *)
ConfirmedCloseIsFlat ==
    [][\A t \in Slots : pc[t] = "close" /\ pc'[t] = "clear" /\ ~stop[t]
            => \A s \in Sides : pos'[s] = 0]_vars
=============================================================================
