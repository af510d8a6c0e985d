------------------------------- MODULE Candles -------------------------------
(***************************************************************************)
(* Candles of one market: the table historical_ohlcv, the downloader that  *)
(* fills it from the exchange page by page (historical/downloader.py,      *)
(* historical/binance.py) on behalf of backtests, which do so only if they *)
(* find no candle of their range, and of the command line; the daily fetch *)
(* of a stock's candles (historical/tasks.py, service.py); and the latest  *)
(* candles a tick of a strategy is given (strategy_runner/tick_runner.py). *)
(*                                                                         *)
(* Time is the number of the candle that is open.  Of a candle's data only *)
(* this is kept: it was read while the candle was open, or after it had    *)
(* closed.                                                                 *)
(***************************************************************************)
EXTENDS Integers, FiniteSets

CONSTANTS
    Clients,      \* backtests, ticks and command lines at work at a time
    LastCandle,         \* bound: the last candle
    Ranges,       \* the ranges asked for, <<first candle, last candle>>
    Page,         \* candles per answer of the exchange
    Limit,        \* candles a tick is given
    Env,          \* SUBSET {"http"}: requests to the exchange may fail
    MaxRequests   \* bound: requests for candles

ASSUME CandlesAssumption ==
    /\ LastCandle \in Nat \ {0}
    /\ Ranges \subseteq ((1 .. LastCandle) \X (1 .. LastCandle))
    /\ Page \in Nat \ {0} /\ Limit \in Nat \ {0}
    /\ MaxRequests \in Nat

Markets == {"binance", "yfinance"}
Slots   == 1 .. LastCandle
Candle  == {"none", "open", "closed"}
NoCandles == [i \in Slots |-> "none"]

VARIABLES
    now,          \* the candle that is open
    market,       \* where its candles come from; never changes
    listed,       \* its first candle; never changes
    store,        \* the table
    pc, from, to, \* per client: next step, and the range it asks for
    cursor, got,  \* per client: startTime of the next page, candles so far
    result,       \* per client: the candles a backtest or a tick is given
    began,        \* history, per client: the candle open when it began
    fetched,      \* history, per client: its candles come from a download
    requests

client == <<pc, from, to, cursor, got, result, began, fetched>>
vars   == <<now, market, listed, store, client, requests>>

Init ==
    /\ now \in Slots /\ listed \in Slots /\ market \in Markets
    /\ store = NoCandles
    /\ pc = [c \in Clients |-> "idle"]
    /\ from = [c \in Clients |-> 1] /\ to = [c \in Clients |-> 1]
    /\ cursor = [c \in Clients |-> 1]
    /\ got = [c \in Clients |-> NoCandles]
    /\ result = [c \in Clients |-> NoCandles]
    /\ began = [c \in Clients |-> 1]
    /\ fetched = [c \in Clients |-> FALSE]
    /\ requests = 0

(* What the exchange has of candle i.                                      *)
AtExchange(i) ==
    IF i \notin listed .. now THEN "none"
    ELSE IF i = now THEN "open" ELSE "closed"

Within(m, a, b) == [i \in Slots |-> IF a <= i /\ i <= b THEN m[i] ELSE "none"]
Known(m)        == {i \in Slots : m[i] # "none"}

-----------------------------------------------------------------------------
(* The downloader.                                                         *)

Goto(c, step) == pc' = [pc EXCEPT ![c] = step]

(* The coroutine is over; its variables are gone.                          *)
Over(c) ==
    /\ Goto(c, "idle")
    /\ from' = [from EXCEPT ![c] = 1] /\ to' = [to EXCEPT ![c] = 1]
    /\ cursor' = [cursor EXCEPT ![c] = 1]
    /\ got' = [got EXCEPT ![c] = NoCandles]
    /\ result' = [result EXCEPT ![c] = NoCandles]
    /\ began' = [began EXCEPT ![c] = 1]
    /\ fetched' = [fetched EXCEPT ![c] = FALSE]

Begin(c, a, b, step) ==
    /\ pc[c] = "idle" /\ requests < MaxRequests
    /\ from' = [from EXCEPT ![c] = a]
    /\ to' = [to EXCEPT ![c] = b]
    /\ cursor' = [cursor EXCEPT ![c] = a]
    /\ began' = [began EXCEPT ![c] = now]
    /\ Goto(c, step)
    /\ requests' = requests + 1
    /\ UNCHANGED <<now, market, listed, store, got, result, fetched>>

(* A backtest calls ensure_candles; the command line downloads at once.    *)
Request(c) ==
    /\ market = "binance"
    /\ \E r \in Ranges : \/ Begin(c, r[1], r[2], "check")
                         \/ Begin(c, r[1], r[2], "download")

(* daily_data_fetch: the last two days, in the middle of a third.          *)
Daily(c) ==
    /\ market = "yfinance"
    /\ Begin(c, IF now > 2 THEN now - 2 ELSE 1, now, "daily")

(* run_tick.                                                               *)
Tick(c) ==
    /\ market = "binance"
    /\ Begin(c, 1, 1, "tick")

(* check_coverage: a single candle of the range is enough.                 *)
Covered(c) == Known(Within(store, from[c], to[c])) # {}

Check(c) ==
    /\ pc[c] = "check"
    /\ Goto(c, IF Covered(c) THEN "read" ELSE "fetch")
    /\ UNCHANGED <<now, market, listed, store, from, to, cursor, got, result, began, fetched, requests>>

Fetching(c) == pc[c] \in {"fetch", "download"}

(* The candles of one answer: the first Page of those that open at         *)
(* startTime or later.                                                     *)
Answer(c) ==
    {i \in cursor[c] .. to[c] :
        /\ AtExchange(i) # "none"
        /\ Cardinality({j \in cursor[c] .. i : AtExchange(j) # "none"}) <= Page}

Newest(s) == CHOOSE i \in s : \A j \in s : j <= i

(* Mutant: the next page starts one candle too late.                       *)
SkipsOne(page) == Newest(page) + 2

(* Mutant: startTime is not advanced.                                      *)
SameAgain(page) == CHOOSE i \in page : \A j \in page : i <= j

(* After a full page: the close time of its last candle and a millisecond. *)
NextStart(page) == Newest(page) + 1

(* One request while startTime < endTime.  A page that is not full, or     *)
(* empty, is the last one.                                                 *)
FetchPage(c) ==
    /\ Fetching(c) /\ cursor[c] < to[c]
    /\ LET page == Answer(c)
           full == Cardinality(page) = Page
       IN  /\ got' = [got EXCEPT ![c] = [i \in Slots |-> IF i \in page THEN AtExchange(i) ELSE @[i]]]
           /\ cursor' = [cursor EXCEPT ![c] = IF full THEN NextStart(page) ELSE @]
           /\ IF full THEN UNCHANGED pc
                      ELSE Goto(c, IF pc[c] = "fetch" THEN "insert" ELSE "store")
    /\ UNCHANGED <<now, market, listed, store, from, to, result, began, fetched, requests>>

(* The loop ends without a request.                                        *)
NoMorePages(c) ==
    /\ Fetching(c) /\ cursor[c] >= to[c]
    /\ Goto(c, IF pc[c] = "fetch" THEN "insert" ELSE "store")
    /\ UNCHANGED <<now, market, listed, store, from, to, cursor, got, result, began, fetched, requests>>

(* fetch_and_cache_ohlcv: one request.                                     *)
FetchDaily(c) ==
    /\ pc[c] = "daily"
    /\ got' = [got EXCEPT ![c] = Within([i \in Slots |-> AtExchange(i)], from[c], to[c])]
    /\ Goto(c, "store")
    /\ UNCHANGED <<now, market, listed, store, from, to, cursor, result, began, fetched, requests>>

(* Mutant: the open candle is kept.                                        *)
OpenToo(answer) == answer

(* The answer but its last candle, unless it is the only one.              *)
WithoutLast(answer) ==
    IF Cardinality(answer) > 1 THEN answer \ {Newest(answer)} ELSE answer

(* fetch_latest_candles; without any candle the tick ends.                 *)
FetchLatest(c) ==
    /\ pc[c] = "tick"
    /\ LET answer == {i \in Slots : now - Limit <= i /\ AtExchange(i) # "none"}
       IN  IF answer = {}
             THEN Over(c)
             ELSE /\ result' = [result EXCEPT ![c] = [i \in Slots |->
                         IF i \in WithoutLast(answer) THEN AtExchange(i) ELSE "none"]]
                  /\ Goto(c, "ticked")
                  /\ UNCHANGED <<from, to, cursor, got, began, fetched>>
    /\ UNCHANGED <<now, market, listed, store, requests>>

(* An error answer or a timeout of any request: nothing is stored, and the *)
(* backtest or the tick fails.                                             *)
FetchFails(c) ==
    /\ (Fetching(c) /\ cursor[c] < to[c]) \/ pc[c] \in {"daily", "tick"}
    /\ "http" \in Env
    /\ Over(c)
    /\ UNCHANGED <<now, market, listed, store, requests>>

(* ON CONFLICT DO NOTHING.                                                 *)
Merged(old, new) == IF old = "none" THEN new ELSE old

(* Mutant: pages are stored as they come.                                  *)
StoreSome(c) == \E k \in Slots :
    store' = [i \in Slots |-> Merged(store[i], IF i <= k THEN got[c][i] ELSE "none")]

(* One transaction for all batches.                                        *)
StoreAll(c) == store' = [i \in Slots |-> Merged(store[i], got[c][i])]

Insert(c) ==
    /\ pc[c] \in {"insert", "store"}
    /\ StoreAll(c)
    /\ IF pc[c] = "store"
         THEN Over(c)
         ELSE /\ Goto(c, "read")
              /\ got' = [got EXCEPT ![c] = NoCandles]
              /\ fetched' = [fetched EXCEPT ![c] = TRUE]
              /\ UNCHANGED <<from, to, cursor, result, began>>
    /\ UNCHANGED <<now, market, listed, requests>>

(* The end of ensure_candles: the range, from the table.                   *)
Read(c) ==
    /\ pc[c] = "read"
    /\ result' = [result EXCEPT ![c] = Within(store, from[c], to[c])]
    /\ Goto(c, "done")
    /\ UNCHANGED <<now, market, listed, store, from, to, cursor, got, began, fetched, requests>>

(* The strategy runs over the candles.                                     *)
Finish(c) ==
    /\ pc[c] \in {"done", "ticked"}
    /\ Over(c)
    /\ UNCHANGED <<now, market, listed, store, requests>>

Work(c) ==
    \/ Check(c) \/ FetchPage(c) \/ NoMorePages(c) \/ FetchDaily(c)
    \/ FetchLatest(c) \/ Insert(c) \/ Read(c) \/ Finish(c)

-----------------------------------------------------------------------------
(* A candle closes and the next one opens.                                 *)
Close ==
    /\ now < LastCandle
    /\ now' = now + 1
    /\ UNCHANGED <<market, listed, store, client, requests>>

Next ==
    \/ \E c \in Clients : Request(c) \/ Daily(c) \/ Tick(c) \/ Work(c) \/ FetchFails(c)
    \/ Close

(* A client that has begun goes on: its statements are one coroutine, and  *)
(* every request to the exchange has a timeout.                            *)
Fairness == \A c \in Clients : WF_vars(Work(c))

Spec     == Init /\ [][Next]_vars
FairSpec == Spec /\ Fairness

-----------------------------------------------------------------------------
(* Types; a page never starts past the candle after the last.              *)
TypeOK ==
    /\ now \in Slots /\ listed \in Slots /\ market \in Markets
    /\ store \in [Slots -> Candle]
    /\ pc \in [Clients -> {"idle", "check", "fetch", "download", "daily", "tick",
                       "insert", "store", "read", "done", "ticked"}]
    /\ from \in [Clients -> Slots] /\ to \in [Clients -> Slots]
    /\ cursor \in [Clients -> 1 .. LastCandle + 1]
    /\ got \in [Clients -> [Slots -> Candle]]
    /\ result \in [Clients -> [Slots -> Candle]]
    /\ began \in [Clients -> Slots]
    /\ fetched \in [Clients -> BOOLEAN]
    /\ requests \in 0 .. MaxRequests

(* What a backtest should get: the candles of its range that had closed    *)
(* when it began.                                                          *)
Wanted(c) == {i \in from[c] .. to[c] : listed <= i /\ i < began[c]}

(* A backtest that downloaded gets all of them but perhaps the one that    *)
(* opens at its end date, and no gap, however candles close, pages and     *)
(* other downloads fall between its steps.                                 *)
DownloadIsComplete ==
    \A c \in Clients : pc[c] = "done" /\ fetched[c] =>
        /\ Wanted(c) \ {to[c]} \subseteq Known(result[c])
        /\ \A i \in Known(result[c]) : listed <= i

(* The docstring of fetch_latest_candles: "The last candle is the most     *)
(* recent *closed* candle".  A tick of a market that had closed a candle   *)
(* when it began sees closed ones only, the newest Limit without a gap.    *)
TicksSeeClosed ==
    \A c \in Clients : pc[c] = "ticked" /\ listed < began[c] =>
        LET newest == Newest(Known(result[c]))
        IN  /\ began[c] - 1 <= newest
            /\ \A i \in Slots :
                   result[c][i] = IF i \in listed .. newest /\ newest - Limit < i
                                  THEN "closed" ELSE "none"

(* The docstring of ensure_candles: "Downloads from Binance if             *)
(* insufficient"; a backtest gets the closed candles of its range.         *)
(* The code does not keep this; see "More disagreements" in the README.    *)
RangeIsReturned ==
    \A c \in Clients : pc[c] = "done" => Wanted(c) \ {to[c]} \subseteq Known(result[c])

(* Every request ends, whatever the exchange answers.                      *)
RequestEnds == \A c \in Clients : pc[c] # "idle" ~> pc[c] = "idle"
=============================================================================
