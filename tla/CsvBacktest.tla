----------------------------- MODULE CsvBacktest -----------------------------
(***************************************************************************)
(* A backtest of signals from a CSV file: the request that creates it      *)
(* (backtesting/router.py), the engine that replays the signals through a  *)
(* simulated broker (backtesting/engine.py, brokers/simulated.py), and the *)
(* metrics of the result (analytics/metrics.py).                           *)
(*                                                                         *)
(* Money is counted in whole units, as small as an instance likes: fills,  *)
(* averages and commissions are rounded down to one, and the percentages   *)
(* of the metrics to whole ones.  Nothing checks what the request and the  *)
(* file say: every number may be zero or negative.                         *)
(*                                                                         *)
(* The names are apart from those of Candles, so that BacktestProofs can   *)
(* extend both.                                                            *)
(***************************************************************************)
EXTENDS Integers, Sequences, FiniteSetsExt, SequencesExt

CONSTANTS
    Symbols, Prices, Quantities,  \* what a row of the file may say
    Configs,      \* [capital, slippage, commission], the last two in percent
    MaxSignals    \* bound: rows of the file

ASSUME CsvAssumption ==
    /\ Prices \subseteq Int /\ Quantities \subseteq Int
    /\ Configs \subseteq [capital : Int, slippage : Int, commission : Int]
    /\ MaxSignals \in Nat

Actions == {"BUY", "SELL", "other"}
Signals == [symbol : Symbols, action : Actions, quantity : Quantities, price : Prices]

Position == [symbol : Symbols, action : {"BUY", "SELL"}, quantity : Int, entry : Int,
             current : Int, pnl : Int, status : {"open", "closed"}]

VARIABLES
    row,       \* status of the row of strategy_results, or none, or deleted
    config,    \* its config; never changes
    metrics,   \* its metrics
    phase,     \* the next step of the request
    outcome,   \* the status the request is about to commit
    broker,    \* the simulated broker
    log,       \* trade_log
    curve,     \* equity_curve
    fees,      \* history: commissions paid
    lost,      \* history: what averages were rounded by
    orderly    \* history: the orders so far were Orderly

csvVars == <<row, config, metrics, phase, outcome, broker, log, curve, fees, lost, orderly>>

NoBroker == [balance |-> 0, margin |-> 0, positions |-> << >>]
NoResult == [trades |-> 0, winners |-> 0, profit |-> 0, loss |-> 0, return |-> 0, drawdown |-> 0]

CsvInit ==
    /\ row = "none" /\ config \in Configs /\ metrics = NoResult
    /\ phase = "idle" /\ outcome = "none"
    /\ broker = NoBroker /\ log = << >> /\ curve = << >> /\ fees = 0 /\ lost = 0
    /\ orderly = TRUE

-----------------------------------------------------------------------------
(* The simulated broker.                                                   *)

Percent(x, p) == (x * p) \div 100

(* \div is for divisors above zero.                                        *)
Ratio(x, n) == IF n > 0 THEN x \div n ELSE (-x) \div (-n)

(* _apply_slippage: whatever is not BUY is sold.                           *)
FillPrice(o) ==
    IF o.action = "BUY" THEN o.price + Percent(o.price, config.slippage)
                        ELSE o.price - Percent(o.price, config.slippage)

Cost(o)       == FillPrice(o) * o.quantity
Commission(o) == Percent(Cost(o), config.commission)   \* of the whole order

(* What a file with numbers of sense asks for ...                          *)
Orderly(o) == o.quantity > 0 /\ FillPrice(o) >= 0

(* ... so far, of a request with numbers of sense.                         *)
InOrder == orderly /\ config.capital >= 0 /\ config.commission >= 0

IsOpen(p) == p.status = "open"

(* _find_open_position; 0 for None.                                        *)
FindOpen(b, symbol) ==
    LET found == {i \in DOMAIN b.positions :
                      LET p == b.positions[i]
                      IN  p.symbol = symbol /\ p.action = "BUY" /\ IsOpen(p)}
    IN  IF found = {} THEN 0 ELSE Min(found)

Affordable(b, o) == Cost(o) + Commission(o) <= b.balance

Paid(b, o, positions) ==
    [balance   |-> b.balance - (Cost(o) + Commission(o)),
     margin    |-> b.margin + Cost(o),
     positions |-> positions]

NewPosition(b, o) ==
    Append(b.positions,
           [symbol |-> o.symbol, action |-> IF o.action = "BUY" THEN "BUY" ELSE "SELL",
            quantity |-> o.quantity, entry |-> FillPrice(o), current |-> FillPrice(o),
            pnl |-> 0, status |-> "open"])

Averaged(b, i, o) ==
    LET p     == b.positions[i]
        total == p.quantity + o.quantity
    IN  [b.positions EXCEPT ![i].entry = Ratio(p.entry * p.quantity + Cost(o), total),
                            ![i].quantity = total]

Averages(b, o) == o.action = "BUY" /\ FindOpen(b, o.symbol) # 0 /\ Affordable(b, o)

(* A BUY that undoes the position it adds to is a division by zero.        *)
Undoes(b, o) ==
    Averages(b, o) /\ b.positions[FindOpen(b, o.symbol)].quantity + o.quantity = 0

(* What the average of a BUY leaves out of the cost.                       *)
Rounding(b, o) ==
    LET i == FindOpen(b, o.symbol)
        p == b.positions[i]
        a == Averaged(b, i, o)[i]
    IN  IF Averages(b, o)
        THEN p.entry * p.quantity + Cost(o) - a.entry * a.quantity ELSE 0

(* Mutant: a sale larger than the position.                                *)
WholeOrder(p, o) == o.quantity

FillQuantity(p, o) == Min({o.quantity, p.quantity})

Gain(p, o) == FillPrice(o) - p.entry

(* Mutant: the profit of the whole order.                                  *)
RealisedOnOrder(p, o) == Gain(p, o) * o.quantity

Realised(p, o) == Gain(p, o) * FillQuantity(p, o)

Reduced(b, i, o) ==
    LET p == b.positions[i]
        q == FillQuantity(p, o)
    IN  [balance   |-> b.balance + FillPrice(o) * q - Commission(o),
         margin    |-> b.margin - p.entry * q,
         positions |-> [b.positions EXCEPT
                           ![i].quantity = @ - q,
                           ![i].pnl = @ + Realised(p, o),
                           ![i].status = IF p.quantity = q THEN "closed" ELSE "open"]]

(* place_order.  A BUY adds to an open BUY and never closes a short; a sale *)
(* reduces an open BUY, and is a short without one.                        *)
PlaceOrder(b, o) ==
    LET i == FindOpen(b, o.symbol)
    IN  IF o.action # "BUY" /\ i # 0 THEN Reduced(b, i, o)
        ELSE IF ~Affordable(b, o) THEN b
        ELSE Paid(b, o, IF i # 0 THEN Averaged(b, i, o) ELSE NewPosition(b, o))

Filled(b, o) ==
    Affordable(b, o) \/ (o.action # "BUY" /\ FindOpen(b, o.symbol) # 0)

-----------------------------------------------------------------------------
(* The metrics, of the filled SELLs and of the equity curve.               *)

(* Mutant: the peak is the first equity.                                   *)
FirstPeak(peak, equity) == peak

Peak(peak, equity) == IF equity > peak THEN equity ELSE peak

Drop(from, to) == Ratio((from - to) * 100, from)

(* _compute_max_drawdown.                                                  *)
MaxDrawdown(c) ==
    LET Step(acc, equity) ==
            LET peak == Peak(acc.peak, equity)
            IN  [peak |-> peak, worst |-> Max({acc.worst, Drop(peak, equity)})]
    IN  FoldLeft(Step, [peak |-> Head(c), worst |-> 0], c).worst

(* No division by zero: of the return, of a daily return, of a drawdown.   *)
Divides(c) ==
    \/ Len(c) < 2
    \/ /\ config.capital # 0
       /\ \A i \in 1 .. Len(c) - 1 : c[i] # 0
       /\ Last(c) # 0 \/ \E i \in DOMAIN c : c[i] > 0

Metrics ==
    LET sells == {i \in DOMAIN log : log[i].action = "SELL" /\ log[i].status = "filled"}
        wins  == {i \in sells : log[i].pnl > 0}
        Pnl(i) == log[i].pnl
    IN  [trades   |-> Cardinality(sells),
         winners  |-> Cardinality(wins),
         profit   |-> MapThenSumSet(Pnl, wins),
         loss     |-> -MapThenSumSet(Pnl, sells \ wins),
         return   |-> IF Len(curve) < 2 THEN 0
                      ELSE -Drop(config.capital, Last(curve)),
         drawdown |-> IF Len(curve) < 2 THEN 0 ELSE MaxDrawdown(curve)]

-----------------------------------------------------------------------------
(* The request.                                                            *)

Create ==
    /\ phase = "idle"
    /\ row' = "queued"
    /\ phase' = "refresh"
    /\ UNCHANGED <<config, metrics, outcome, broker, log, curve, fees, lost, orderly>>

(* The coroutine is over; its variables are gone.                          *)
Return ==
    /\ phase' = "over" /\ outcome' = "none"
    /\ broker' = NoBroker /\ log' = << >> /\ curve' = << >> /\ fees' = 0 /\ lost' = 0
    /\ orderly' = TRUE /\ UNCHANGED config

(* The row is read back, and the file parsed.  A row with more fields than *)
(* the header, or no row in the table, is an error nothing catches.        *)
Load ==
    /\ phase = "refresh" /\ row = "queued"
    /\ phase' = "replay"
    /\ broker' = [NoBroker EXCEPT !.balance = config.capital]
    /\ curve' = <<config.capital>>
    /\ UNCHANGED <<row, config, metrics, outcome, log, fees, lost, orderly>>

LoadFails ==
    /\ phase = "refresh"
    /\ Return
    /\ UNCHANGED <<row, metrics>>

(* Equity: the value of a position is at the price of its first fill, and  *)
(* that of a short is added as well.                                       *)
Equity(b) ==
    LET Value(i) == LET p == b.positions[i]
                    IN  (IF p.current # 0 THEN p.current ELSE p.entry) * p.quantity
    IN  b.balance + MapThenSumSet(Value, {i \in DOMAIN b.positions : IsOpen(b.positions[i])})

(* The pnl of a log entry, from the first closed position of the symbol,   *)
(* or else from its first position.                                        *)
LoggedPnl(b, o) ==
    LET of     == {i \in DOMAIN b.positions : b.positions[i].symbol = o.symbol}
        closed == {i \in of : ~IsOpen(b.positions[i])}
    IN  b.positions[Min(IF closed # {} THEN closed ELSE of)].pnl

(* One signal, in order of time.                                           *)
Signal ==
    /\ phase = "replay" /\ Len(log) < MaxSignals
    /\ \E o \in Signals :
           LET b      == PlaceOrder(broker, o)
               filled == Filled(broker, o)
           IN  /\ ~Undoes(broker, o)
               /\ broker' = b
               /\ fees' = fees + IF filled THEN Commission(o) ELSE 0
               /\ lost' = lost + Rounding(broker, o)
               /\ orderly' = (orderly /\ Orderly(o))
               /\ log' = Append(log,
                      [symbol |-> o.symbol, action |-> o.action,
                       status |-> IF filled THEN "filled" ELSE "rejected",
                       pnl |-> IF o.action = "SELL" /\ filled THEN LoggedPnl(b, o) ELSE 0])
               /\ curve' = Append(curve, Equity(b))
    /\ UNCHANGED <<row, config, metrics, phase, outcome>>

(* A field that is missing or no number, at the sort or at its signal; or  *)
(* a signal that undoes a position.                                        *)
BadSignal ==
    /\ phase = "replay" /\ Len(log) < MaxSignals
    /\ phase' = "commit" /\ outcome' = "failed"
    /\ UNCHANGED <<row, config, metrics, broker, log, curve, fees, lost, orderly>>

End ==
    /\ phase = "replay"
    /\ phase' = "commit"
    /\ outcome' = IF Divides(curve) THEN "completed" ELSE "failed"
    /\ UNCHANGED <<row, config, metrics, broker, log, curve, fees, lost, orderly>>

(* The results are attributes of the row; if it is gone the flush fails.   *)
Commit ==
    /\ phase = "commit"
    /\ IF row = "queued"
         THEN /\ row' = outcome
              /\ metrics' = IF outcome = "completed" THEN Metrics ELSE NoResult
              /\ phase' = "saved"
              /\ UNCHANGED <<config, outcome, broker, log, curve, fees, lost, orderly>>
         ELSE Return /\ UNCHANGED <<row, metrics>>

(* The answer, with the row.                                               *)
Respond == phase = "saved" /\ Return /\ UNCHANGED <<row, metrics>>

(* delete_backtest, from a client that has listed the row.                 *)
Delete ==
    /\ row \in {"queued", "completed", "failed"}
    /\ row' = "deleted" /\ metrics' = NoResult
    /\ UNCHANGED <<config, phase, outcome, broker, log, curve, fees, lost, orderly>>

(* The process is killed.                                                  *)
Crash ==
    /\ phase \notin {"idle", "over"}
    /\ Return
    /\ UNCHANGED <<row, metrics>>

CsvNext ==
    \/ Create \/ Load \/ LoadFails \/ Signal \/ BadSignal \/ End
    \/ Commit \/ Respond \/ Delete \/ Crash

CsvSpec == CsvInit /\ [][CsvNext]_csvVars

-----------------------------------------------------------------------------
(* Types; a closed position is empty, whatever the file says.  With no     *)
(* number out of order, an open one is not, no sequence of orders sells    *)
(* more than was bought, and the balance is overdrawn by no more than      *)
(* commissions: those of sales are of the whole order, and taken whether   *)
(* or not the proceeds cover them.                                         *)
CsvTypeOK ==
    /\ row \in {"none", "queued", "completed", "failed", "deleted"}
    /\ config \in Configs
    /\ DOMAIN metrics = DOMAIN NoResult
    /\ phase \in {"idle", "refresh", "replay", "commit", "saved", "over"}
    /\ outcome \in {"none", "completed", "failed"}
    /\ broker.balance \in Int /\ broker.margin \in Int
    /\ fees \in Int /\ lost \in Int /\ orderly \in BOOLEAN
    /\ \A i \in DOMAIN broker.positions :
           LET p == broker.positions[i]
           IN  /\ p \in Position /\ (~IsOpen(p) => p.quantity = 0)
               /\ InOrder => p.quantity >= 0 /\ (IsOpen(p) => p.quantity # 0)
    /\ InOrder => fees >= 0 /\ broker.balance + fees >= 0
    /\ Len(log) <= MaxSignals
    /\ Len(curve) = 0 \/ Len(curve) = Len(log) + 1

(* Double entry: whatever is bought, averaged, sold in parts and sold      *)
(* short, the used margin is what the open positions cost, up to what      *)
(* their averages were rounded by, and the cash and the margin together    *)
(* are the capital and the realised profit and loss, less the commissions. *)
BooksBalance ==
    phase \in {"replay", "commit", "saved"} =>
        LET Held(i) == broker.positions[i].entry * broker.positions[i].quantity
            Pnl(i)  == broker.positions[i].pnl
        IN  /\ broker.margin = MapThenSumSet(Held, DOMAIN broker.positions) + lost
            /\ broker.balance + broker.margin
                   = config.capital + MapThenSumSet(Pnl, DOMAIN broker.positions) - fees

(* The drawdown stored, computed in one pass over the curve, is the worst  *)
(* loss between any two points of it, unless it was overdrawn: a loss is   *)
(* not a part of what is less than nothing.                                *)
DrawdownIsWorst ==
    phase = "saved" /\ row = "completed" /\ Len(curve) > 1 /\ curve \in Seq(Nat) =>
        LET Later == {p \in (DOMAIN curve) \X (DOMAIN curve) : p[1] < p[2]}
        IN  metrics.drawdown = Max({0} \cup {Drop(curve[p[1]], curve[p[2]]) : p \in Later})

(* The comment of the log's pnl, "Compute PnL for this trade entry": the   *)
(* entries of the log add up to what was realised.                         *)
(* The code does not keep this; see "More disagreements" in the README.    *)
PnlIsOwn ==
    phase = "commit" =>
        LET Logged(i) == log[i].pnl
            Pnl(i)    == broker.positions[i].pnl
        IN  MapThenSumSet(Logged, DOMAIN log) = MapThenSumSet(Pnl, DOMAIN broker.positions)
=============================================================================
