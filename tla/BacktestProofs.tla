---------------------------- MODULE BacktestProofs ---------------------------
(***************************************************************************)
(* Theorems about the two things backtests work with: the candles they are *)
(* given (Candles, for any number of clients, candles and requests, any    *)
(* ranges, and any size of the exchange's pages), and the replay of a file *)
(* of signals (CsvBacktest, for any prices, quantities and configurations  *)
(* and files of any length).                                               *)
(***************************************************************************)
EXTENDS Candles, CsvBacktest, FiniteSetTheorems, SequenceTheorems, WellFoundedInduction, TLAPS

-----------------------------------------------------------------------------
(* TypeOK in parts.                                                        *)
MarketTypes ==
    /\ now \in Slots /\ listed \in Slots /\ market \in Markets
    /\ store \in [Slots -> Candle]
    /\ requests \in 0 .. MaxRequests

ClientTypes ==
    /\ pc \in [Clients -> {"idle", "check", "fetch", "download", "daily", "tick",
                       "insert", "store", "read", "done", "ticked"}]
    /\ from \in [Clients -> Slots] /\ to \in [Clients -> Slots]
    /\ cursor \in [Clients -> 1 .. LastCandle + 1]
    /\ began \in [Clients -> Slots]

CandleTypes ==
    /\ got \in [Clients -> [Slots -> Candle]]
    /\ result \in [Clients -> [Slots -> Candle]]

FlagTypes == fetched \in [Clients -> BOOLEAN]

Types == MarketTypes /\ ClientTypes /\ CandleTypes /\ FlagTypes

(* The candles a tick is given that the exchange answers while n is open.  *)
Latest(n) == [i \in Slots |-> IF i \in listed .. n - 1 /\ n - 1 - Limit < i
                              THEN "closed" ELSE "none"]

(* The candles of client c before its end date that had closed when it     *)
(* began.                                                                  *)
Due(c, i) == from[c] <= i /\ i < to[c] /\ listed <= i /\ i < began[c]

(* A download has every candle before its cursor; when its pages are done, *)
(* every candle due; and these it has stored and reads again.              *)
ClientOK(c) ==
    /\ began[c] <= now
    /\ \A i \in Slots : got[c][i] # "none" => listed <= i
    /\ pc[c] = "check" => cursor[c] = from[c]
    /\ Fetching(c) => \A i \in Slots :
          from[c] <= i /\ i < cursor[c] /\ listed <= i => got[c][i] # "none"
    /\ pc[c] = "insert" => \A i \in Slots : Due(c, i) => got[c][i] # "none"
    /\ fetched[c] => pc[c] \in {"read", "done"}
    /\ pc[c] = "read" /\ fetched[c] => \A i \in Slots : Due(c, i) => store[i] # "none"
    /\ pc[c] = "done" =>
          /\ \A i \in Slots : result[c][i] # "none" => listed <= i
          /\ fetched[c] => \A i \in Slots : Due(c, i) => result[c][i] # "none"
    /\ pc[c] = "ticked" /\ listed < began[c] =>
          \E n \in began[c] .. now : result[c] = Latest(n)

StoreOK == \A i \in Slots : store[i] # "none" => listed <= i

Inv == Types /\ StoreOK /\ \A c \in Clients : ClientOK(c)

LEMMA Positive == LastCandle \in Nat \ {0} /\ Page \in Nat \ {0} /\ Limit \in Nat \ {0}
                  /\ Slots = 1 .. LastCandle /\ MaxRequests \in Nat
BY CandlesAssumption DEF Slots

LEMMA Exists ==
  ASSUME Types, NEW i \in Slots
  PROVE  /\ AtExchange(i) # "none" <=> listed <= i /\ i <= now
         /\ AtExchange(i) = "closed" <=> listed <= i /\ i < now
         /\ AtExchange(i) \in Candle
<1>1. now \in Int /\ listed \in Int /\ i \in Int
  BY Positive DEF Types, MarketTypes
<1>2. i \in listed .. now <=> listed <= i /\ i <= now
  BY <1>1
<1>. QED BY <1>1, <1>2 DEF AtExchange, Candle

-----------------------------------------------------------------------------
(* The exchange's answer is an interval that begins with the first candle  *)
(* at or after startTime.                                                  *)
LEMMA AnswerIsInterval ==
  ASSUME Types, NEW c \in Clients
  PROVE  LET lo == IF cursor[c] < listed THEN listed ELSE cursor[c]
             hi == IF to[c] < now THEN to[c] ELSE now
         IN  Answer(c) = {i \in lo .. hi : i - lo + 1 <= Page}
<1> DEFINE lo == IF cursor[c] < listed THEN listed ELSE cursor[c]
           hi == IF to[c] < now THEN to[c] ELSE now
           Upto(i) == {j \in cursor[c] .. i : AtExchange(j) # "none"}
<1>0. /\ cursor[c] \in 1 .. LastCandle + 1 /\ to[c] \in 1 .. LastCandle
      /\ now \in 1 .. LastCandle /\ listed \in 1 .. LastCandle /\ LastCandle \in Nat
  BY Positive DEF Types, MarketTypes, ClientTypes
<1>1. ASSUME NEW i \in cursor[c] .. to[c], AtExchange(i) # "none"
      PROVE  i \in lo .. hi /\ Cardinality(Upto(i)) = i - lo + 1
  <2>1. i \in Slots /\ listed <= i /\ i <= now
    BY <1>0, <1>1, Exists, Positive
  <2>2. i \in lo .. hi
    BY <1>0, <2>1
  <2>3. \A j \in cursor[c] .. i : j \in Slots
    BY <1>0, <1>1, Positive
  <2>4. Upto(i) = lo .. i
    BY <1>0, <2>1, <2>3, Exists
  <2>5. lo \in Int /\ i \in Int /\ lo <= i
    BY <1>0, <2>2
  <2>6. Cardinality(lo .. i) = i - lo + 1
    <3> HIDE DEF lo
    <3>. QED BY <2>5, FS_Interval
  <2>. QED BY <2>2, <2>4, <2>6
<1>2. ASSUME NEW i \in lo .. hi
      PROVE  i \in cursor[c] .. to[c] /\ AtExchange(i) # "none"
  <2>1. i \in cursor[c] .. to[c] /\ i \in Slots /\ listed <= i /\ i <= now
    BY <1>0, Positive
  <2>. QED BY <2>1, Exists
<1>3. Answer(c) = {i \in cursor[c] .. to[c] : AtExchange(i) # "none" /\ Cardinality(Upto(i)) <= Page}
  BY DEF Answer
<1> HIDE DEF lo, hi, Upto
<1>4. Answer(c) = {i \in lo .. hi : i - lo + 1 <= Page}
  BY <1>1, <1>2, <1>3
<1>. QED BY <1>4 DEF lo, hi

LEMMA NewestOf ==
  ASSUME NEW a \in Int, NEW b \in Int, a <= b
  PROVE  Newest(a .. b) = b
<1>1. \E i \in a .. b : \A j \in a .. b : j <= i
  <2> WITNESS b \in a .. b
  <2>. QED OBVIOUS
<1>2. /\ Newest(a .. b) \in a .. b
      /\ \A j \in a .. b : j <= Newest(a .. b)
  BY <1>1 DEF Newest
<1>. QED BY <1>2

(* What a page holds: a full one has every candle up to its newest, any    *)
(* other one every candle of the range that the exchange has.              *)
LEMMA PageIsComplete ==
  ASSUME Types, NEW c \in Clients, Fetching(c)
  PROVE  /\ Answer(c) \subseteq cursor[c] .. to[c]
         /\ \A i \in Answer(c) : listed <= i /\ i <= now
         /\ Cardinality(Answer(c)) = Page =>
               /\ NextStart(Answer(c)) \in 1 .. LastCandle + 1 /\ cursor[c] < NextStart(Answer(c))
               /\ \A i \in Slots : cursor[c] <= i /\ listed <= i /\ i < NextStart(Answer(c)) =>
                     i \in Answer(c)
         /\ Cardinality(Answer(c)) # Page =>
               \A i \in Slots : cursor[c] <= i /\ i <= to[c] /\ listed <= i /\ i <= now =>
                  i \in Answer(c)
<1> DEFINE lo == IF cursor[c] < listed THEN listed ELSE cursor[c]
           hi == IF to[c] < now THEN to[c] ELSE now
           up == IF lo + Page - 1 < hi THEN lo + Page - 1 ELSE hi
<1>0. /\ cursor[c] \in 1 .. LastCandle + 1 /\ to[c] \in 1 .. LastCandle
      /\ now \in 1 .. LastCandle /\ listed \in 1 .. LastCandle
      /\ LastCandle \in Nat /\ Page \in Nat \ {0} /\ Slots = 1 .. LastCandle
  BY Positive DEF Types, MarketTypes, ClientTypes
<1>1. /\ lo \in Int /\ hi \in Int /\ up \in Int
      /\ cursor[c] <= lo /\ listed <= lo /\ (lo = cursor[c] \/ lo = listed)
      /\ hi <= to[c] /\ hi <= now /\ (hi = to[c] \/ hi = now)
      /\ up = lo + Page - 1 \/ up = hi
      /\ up <= lo + Page - 1 /\ up <= hi
  BY <1>0
<1>2. Answer(c) = lo .. up
  <2>1. Answer(c) = {i \in lo .. hi : i - lo + 1 <= Page}
    BY AnswerIsInterval
  <2>. QED BY <2>1, <1>0
<1> HIDE DEF lo, hi, up
<1>3. Cardinality(Answer(c)) = IF lo > up THEN 0 ELSE up - lo + 1
  <2>1. Cardinality(lo .. up) = IF lo > up THEN 0 ELSE up - lo + 1
    BY <1>1, FS_Interval
  <2>. QED BY <2>1, <1>2
<1>4. /\ Answer(c) \subseteq cursor[c] .. to[c]
      /\ \A i \in Answer(c) : listed <= i /\ i <= now
  BY <1>0, <1>1, <1>2
<1>5. ASSUME Cardinality(Answer(c)) = Page
      PROVE  /\ NextStart(Answer(c)) \in 1 .. LastCandle + 1 /\ cursor[c] < NextStart(Answer(c))
             /\ \A i \in Slots : cursor[c] <= i /\ listed <= i /\ i < NextStart(Answer(c)) =>
                   i \in Answer(c)
  <2>1. lo <= up
    BY <1>0, <1>1, <1>3, <1>5
  <2>2. NextStart(Answer(c)) = up + 1
    <3>1. Newest(lo .. up) = up
      BY <1>1, <2>1, NewestOf
    <3>. QED BY <3>1, <1>2 DEF NextStart
  <2>3. up + 1 \in 1 .. LastCandle + 1 /\ cursor[c] < up + 1
    BY <1>0, <1>1, <1>2, <1>4, <2>1
  <2>4. \A i \in Slots : cursor[c] <= i /\ listed <= i /\ i < up + 1 => i \in lo .. up
    BY <1>0, <1>1
  <2>. QED BY <1>2, <2>2, <2>3, <2>4
<1>6. ASSUME Cardinality(Answer(c)) # Page
      PROVE  \A i \in Slots : cursor[c] <= i /\ i <= to[c] /\ listed <= i /\ i <= now =>
                i \in Answer(c)
  <2>1. up = hi \/ lo > up
    BY <1>0, <1>1, <1>3, <1>6
  <2>2. CASE up = hi
    BY <2>2, <1>0, <1>1, <1>2
  <2>3. CASE lo > up /\ up # hi
    BY <2>3, <1>0, <1>1
  <2>. QED BY <2>1, <2>2, <2>3
<1>. QED BY <1>4, <1>5, <1>6
-----------------------------------------------------------------------------
(* A client that does nothing: other clients only add to the table, and    *)
(* time passes.                                                            *)
Idles(d) ==
    /\ pc'[d] = pc[d] /\ from'[d] = from[d] /\ to'[d] = to[d] /\ cursor'[d] = cursor[d]
    /\ got'[d] = got[d] /\ result'[d] = result[d] /\ began'[d] = began[d]
    /\ fetched'[d] = fetched[d]

Grows ==
    /\ listed' = listed /\ now <= now' /\ now' \in Slots
    /\ \A i \in Slots : store[i] # "none" => store'[i] # "none"

LEMMA IdleKept ==
  ASSUME Types, NEW d \in Clients, ClientOK(d), Idles(d), Grows
  PROVE  ClientOK(d)'
<1> USE DEF Idles, Grows
<1>1. /\ now \in Int /\ now' \in Int /\ now <= now' /\ began[d] \in Int /\ began'[d] = began[d]
  BY Positive DEF Types, MarketTypes, ClientTypes
<1>2. \A i \in Slots : Due(d, i)' <=> Due(d, i)
  BY DEF Due
<1>3. pc'[d] = "ticked" /\ listed' < began'[d] =>
         \E n \in began'[d] .. now' : result'[d] = Latest(n)'
  <2>1. SUFFICES ASSUME NEW n \in began[d] .. now, result[d] = Latest(n)
                 PROVE  n \in began'[d] .. now' /\ result'[d] = Latest(n)'
    BY DEF ClientOK
  <2>. QED BY <2>1, <1>1 DEF Latest
<1>4. began'[d] <= now' /\ (\A i \in Slots : got'[d][i] # "none" => listed' <= i)
  <2>1. began[d] <= now
    BY DEF ClientOK
  <2>2. \A i \in Slots : got[d][i] # "none" => listed <= i
    BY Zenon DEF ClientOK
  <2>. QED BY <1>1, <2>1, <2>2
<1>5. Fetching(d)' => \A i \in Slots :
          from'[d] <= i /\ i < cursor'[d] /\ listed' <= i => got'[d][i] # "none"
  BY DEF ClientOK, Fetching
<1>6. /\ pc'[d] = "check" => cursor'[d] = from'[d]
      /\ pc'[d] = "insert" => \A i \in Slots : Due(d, i)' => got'[d][i] # "none"
      /\ fetched'[d] => pc'[d] \in {"read", "done"}
      /\ pc'[d] = "read" /\ fetched'[d] => \A i \in Slots : Due(d, i)' => store'[i] # "none"
      /\ pc'[d] = "done" =>
            /\ \A i \in Slots : result'[d][i] # "none" => listed' <= i
            /\ fetched'[d] => \A i \in Slots : Due(d, i)' => result'[d][i] # "none"
  BY <1>2 DEF ClientOK
<1>. QED BY <1>3, <1>4, <1>5, <1>6, Zenon DEF ClientOK

(* A client that is done, or fails.                                        *)
LEMMA OverInv ==
  ASSUME Inv, NEW c \in Clients, Over(c), UNCHANGED <<now, market, listed, store, requests>>
  PROVE  Inv'
<1>0. Types /\ StoreOK /\ \A d \in Clients : ClientOK(d)
  BY DEF Inv
<1>1. /\ pc'[c] = "idle" /\ began'[c] = 1 /\ got'[c] = NoCandles /\ fetched'[c] = FALSE
      /\ \A d \in Clients \ {c} : Idles(d)
  BY <1>0 DEF Over, Goto, Idles, Types, ClientTypes, CandleTypes, FlagTypes
<1>2. 1 \in Slots /\ 1 \in 1 .. LastCandle + 1 /\ NoCandles \in [Slots -> Candle]
  BY Positive DEF NoCandles, Candle
<1>3. Types'
  <2>1. MarketTypes' /\ ClientTypes'
    BY <1>0, <1>2 DEF Over, Goto, Types, MarketTypes, ClientTypes
  <2>2. CandleTypes' /\ FlagTypes'
    BY <1>0, <1>2 DEF Over, Types, CandleTypes, FlagTypes
  <2>. QED BY <2>1, <2>2 DEF Types
<1>4. \A d \in Clients \ {c} : ClientOK(d)'
  <2>1. Grows
    BY <1>0, Positive DEF Grows, Types, MarketTypes
  <2>. QED BY <1>0, <1>1, <2>1, IdleKept
<1>5. ClientOK(c)'
  <2>1. began'[c] <= now' /\ \A i \in Slots : got'[c][i] = "none"
    BY <1>0, <1>1, Positive DEF NoCandles, Types, MarketTypes
  <2>. QED BY <1>1, <2>1 DEF ClientOK, Fetching
<1>6. StoreOK'
  BY <1>0 DEF StoreOK
<1>. QED BY <1>3, <1>4, <1>5, <1>6 DEF Inv

LEMMA BeginInv ==
  ASSUME Inv, NEW c \in Clients, NEW a \in Slots, NEW b \in Slots,
         NEW step \in {"check", "download", "daily", "tick"}, Begin(c, a, b, step)
  PROVE  Inv'
<1>0. Types /\ StoreOK /\ \A d \in Clients : ClientOK(d)
  BY DEF Inv
<1>1. /\ pc[c] = "idle" /\ pc'[c] = step /\ from'[c] = a /\ cursor'[c] = a /\ began'[c] = now
      /\ UNCHANGED <<now, market, listed, store, got, result, fetched>>
      /\ \A d \in Clients \ {c} : Idles(d)
  BY <1>0 DEF Begin, Goto, Idles, Types, ClientTypes
<1>2. Types'
  <2>1. MarketTypes'
    BY <1>0, <1>1, Positive DEF Begin, Types, MarketTypes
  <2>2. ClientTypes'
    BY <1>0, Positive DEF Begin, Goto, Types, MarketTypes, ClientTypes
  <2>3. CandleTypes' /\ FlagTypes'
    BY <1>0, <1>1 DEF Types, CandleTypes, FlagTypes
  <2>. QED BY <2>1, <2>2, <2>3 DEF Types
<1>3. \A d \in Clients \ {c} : ClientOK(d)'
  <2>1. Grows
    BY <1>0, <1>1, Positive DEF Grows, Types, MarketTypes
  <2>. QED BY <1>0, <1>1, <2>1, IdleKept
<1>4. ClientOK(c)'
  <2>1. ~fetched[c] /\ \A i \in Slots : got[c][i] # "none" => listed <= i
    BY <1>0, <1>1 DEF ClientOK
  <2>2. now \in Int /\ \A i \in Slots : i \in Int
    BY <1>0, Positive DEF Types, MarketTypes
  <2>3. a \in Int
    BY Positive
  <2>4. \A i \in Slots : ~(from'[c] <= i /\ i < cursor'[c])
    <3>1. from'[c] = a /\ cursor'[c] = a
      BY <1>1
    <3>2. \A i \in Int : ~(a <= i /\ i < a)
      BY <2>3
    <3>. QED BY <2>2, <3>1, <3>2
  <2>5. /\ pc'[c] \notin {"insert", "read", "done", "ticked"} /\ ~fetched'[c]
        /\ cursor'[c] = from'[c] /\ began'[c] <= now'
        /\ \A i \in Slots : got'[c][i] # "none" => listed' <= i
    BY <1>1, <2>1, <2>2
  <2>. QED BY <2>4, <2>5 DEF ClientOK
<1>5. StoreOK'
  BY <1>0, <1>1 DEF StoreOK
<1>. QED BY <1>2, <1>3, <1>4, <1>5 DEF Inv

(* Only the client's next step changes.                                    *)
LEMMA GotoInv ==
  ASSUME Inv, NEW c \in Clients, NEW step \in {"fetch", "insert", "store", "read"},
         Goto(c, step), ~fetched[c], step = "fetch" => cursor[c] = from[c] \/ Fetching(c),
         step = "insert" => \A i \in Slots : Due(c, i) => got[c][i] # "none",
         UNCHANGED <<now, market, listed, store, from, to, cursor, got, result, began, fetched, requests>>
  PROVE  Inv'
<1>0. Types /\ StoreOK /\ \A d \in Clients : ClientOK(d)
  BY DEF Inv
<1>1. pc'[c] = step /\ \A d \in Clients \ {c} : Idles(d)
  BY <1>0 DEF Goto, Idles, Types, ClientTypes
<1>2. Types'
  <2>1. MarketTypes' /\ ClientTypes'
    BY <1>0 DEF Goto, Types, MarketTypes, ClientTypes
  <2>2. CandleTypes' /\ FlagTypes'
    BY <1>0 DEF Types, CandleTypes, FlagTypes
  <2>. QED BY <2>1, <2>2 DEF Types
<1>3. \A d \in Clients \ {c} : ClientOK(d)'
  <2>1. Grows
    BY <1>0, Positive DEF Grows, Types, MarketTypes
  <2>. QED BY <1>0, <1>1, <2>1, IdleKept
<1>4. ClientOK(c)'
  <2>1. /\ began[c] <= now /\ (\A i \in Slots : got[c][i] # "none" => listed <= i)
        /\ Fetching(c) => \A i \in Slots :
              from[c] <= i /\ i < cursor[c] /\ listed <= i => got[c][i] # "none"
    BY <1>0 DEF ClientOK
  <2>2. from[c] \in Int /\ \A i \in Slots : i \in Int
    BY <1>0, Positive DEF Types, ClientTypes
  <2>3. \A i \in Slots : Due(c, i)' <=> Due(c, i)
    BY DEF Due
  <2>. QED BY <1>1, <2>1, <2>2, <2>3 DEF ClientOK, Fetching
<1>5. StoreOK'
  BY <1>0 DEF StoreOK
<1>. QED BY <1>2, <1>3, <1>4, <1>5 DEF Inv
LEMMA CheckInv ==
  ASSUME Inv, NEW c \in Clients, Check(c)
  PROVE  Inv'
<1>1. pc[c] = "check" /\ ~fetched[c] /\ cursor[c] = from[c]
  BY DEF Check, Inv, ClientOK
<1>2. Goto(c, "read") \/ Goto(c, "fetch")
  BY DEF Check
<1>3. UNCHANGED <<now, market, listed, store, from, to, cursor, got, result, began, fetched, requests>>
  BY DEF Check
<1>. QED BY <1>1, <1>2, <1>3, GotoInv

LEMMA NoMorePagesInv ==
  ASSUME Inv, NEW c \in Clients, NoMorePages(c)
  PROVE  Inv'
<1>1. Fetching(c) /\ cursor[c] >= to[c]
  BY DEF NoMorePages
<1>2. ~fetched[c]
  BY <1>1 DEF Inv, ClientOK, Fetching
<1>3. \A i \in Slots : Due(c, i) => got[c][i] # "none"
  <2>1. \A i \in Slots : Due(c, i) => i < cursor[c]
    BY <1>1, Positive DEF Due, Inv, Types, ClientTypes
  <2>2. \A i \in Slots : from[c] <= i /\ i < cursor[c] /\ listed <= i => got[c][i] # "none"
    BY <1>1 DEF Inv, ClientOK
  <2>. QED BY <2>1, <2>2 DEF Due
<1>4. Goto(c, "insert") \/ Goto(c, "store")
  BY DEF NoMorePages
<1>5. UNCHANGED <<now, market, listed, store, from, to, cursor, got, result, began, fetched, requests>>
  BY DEF NoMorePages
<1>. QED BY <1>2, <1>3, <1>4, <1>5, GotoInv

(* A page: its candles, and where the next one starts.                     *)
LEMMA FetchPageInv ==
  ASSUME Inv, NEW c \in Clients, FetchPage(c)
  PROVE  Inv'
<1> DEFINE page == Answer(c)
           full == Cardinality(page) = Page
<1>0. /\ Types /\ StoreOK /\ \A d \in Clients : ClientOK(d)
      /\ Fetching(c) /\ pc[c] \in {"fetch", "download"} /\ ~fetched[c]
      /\ UNCHANGED <<now, market, listed, store, from, to, result, began, fetched, requests>>
  BY DEF Inv, FetchPage, ClientOK, Fetching
<1>1. /\ got' = [got EXCEPT ![c] = [i \in Slots |-> IF i \in page THEN AtExchange(i) ELSE @[i]]]
      /\ cursor' = [cursor EXCEPT ![c] = IF full THEN NextStart(page) ELSE @]
      /\ full => UNCHANGED pc
      /\ ~full => Goto(c, IF pc[c] = "fetch" THEN "insert" ELSE "store")
  BY DEF FetchPage
<1>2. /\ page \subseteq cursor[c] .. to[c]
      /\ \A i \in page : listed <= i /\ i <= now
      /\ full => /\ NextStart(page) \in 1 .. LastCandle + 1
                 /\ \A i \in Slots : cursor[c] <= i /\ listed <= i /\ i < NextStart(page) => i \in page
      /\ ~full => \A i \in Slots : cursor[c] <= i /\ i <= to[c] /\ listed <= i /\ i <= now => i \in page
  BY <1>0, PageIsComplete
<1> HIDE DEF page, full
<1>3. /\ \A i \in Slots : got'[c][i] = IF i \in page THEN AtExchange(i) ELSE got[c][i]
      /\ cursor'[c] = IF full THEN NextStart(page) ELSE cursor[c]
      /\ full => pc'[c] = pc[c]
      /\ ~full => pc'[c] = IF pc[c] = "fetch" THEN "insert" ELSE "store"
      /\ \A d \in Clients \ {c} : Idles(d)
  BY <1>0, <1>1 DEF Goto, Idles, Types, ClientTypes, CandleTypes
<1>4. Types'
  <2>1. MarketTypes'
    BY <1>0 DEF Types, MarketTypes
  <2>2. ClientTypes'
    <3>1. cursor' \in [Clients -> 1 .. LastCandle + 1]
      BY <1>0, <1>1, <1>2 DEF Types, ClientTypes
    <3>2. CASE full
      BY <1>0, <1>1, <3>1, <3>2 DEF Types, ClientTypes
    <3>3. CASE ~full
      BY <1>0, <1>1, <3>1, <3>3 DEF Types, ClientTypes, Goto
    <3>. QED BY <3>2, <3>3
  <2>3. CandleTypes'
    <3>1. \A i \in Slots : AtExchange(i) \in Candle /\ got[c][i] \in Candle
      BY <1>0, Exists DEF Types, CandleTypes
    <3>2. [i \in Slots |-> IF i \in page THEN AtExchange(i) ELSE got[c][i]] \in [Slots -> Candle]
      BY <3>1
    <3>3. got' = [got EXCEPT ![c] = [i \in Slots |-> IF i \in page THEN AtExchange(i) ELSE got[c][i]]]
      BY <1>0, <1>1 DEF Types, CandleTypes
    <3>. QED BY <1>0, <3>2, <3>3 DEF Types, CandleTypes
  <2>4. FlagTypes'
    BY <1>0 DEF Types, FlagTypes
  <2>. QED BY <2>1, <2>2, <2>3, <2>4 DEF Types
<1>5. \A d \in Clients \ {c} : ClientOK(d)'
  <2>1. Grows
    BY <1>0, Positive DEF Grows, Types, MarketTypes
  <2>. QED BY <1>0, <1>3, <2>1, IdleKept
<1>6. ClientOK(c)'
  <2>1. /\ began[c] <= now
        /\ \A i \in Slots : got[c][i] # "none" => listed <= i
        /\ \A i \in Slots : from[c] <= i /\ i < cursor[c] /\ listed <= i => got[c][i] # "none"
    BY <1>0 DEF ClientOK
  <2>2. /\ cursor[c] \in Int /\ to[c] \in Int /\ from[c] \in Int /\ now \in Int
        /\ began[c] \in Int /\ listed \in Int /\ Slots \subseteq Int
    BY <1>0, Positive DEF Types, MarketTypes, ClientTypes
  <2>3. \A i \in page : i \in Slots => AtExchange(i) # "none"
    BY <1>0, <1>2, Exists
  <2>4. \A i \in Slots : got'[c][i] # "none" => listed <= i
    BY <1>2, <1>3, <2>1
  <2>5. \A i \in Slots : i \in page \/ got[c][i] # "none" => got'[c][i] # "none"
    BY <1>3, <2>3
  <2>6. CASE full
    <3>1. \A i \in Slots : from[c] <= i /\ i < NextStart(page) /\ listed <= i => got'[c][i] # "none"
      <4>1. \A i \in Slots : cursor[c] <= i /\ listed <= i /\ i < NextStart(page) => i \in page
        BY <1>2, <2>6
      <4>2. \A i \in Slots : i < cursor[c] \/ cursor[c] <= i
        BY <2>2
      <4>. QED BY <4>1, <4>2, <2>1, <2>5
    <3>. QED BY <1>0, <1>3, <2>1, <2>4, <2>6, <3>1 DEF ClientOK, Fetching
  <2>7. CASE ~full
    <3>1. \A i \in Slots : Due(c, i) => i \in page \/ got[c][i] # "none"
      <4>1. \A i \in Slots : cursor[c] <= i /\ i <= to[c] /\ listed <= i /\ i <= now => i \in page
        BY <1>2, <2>7
      <4>2. ASSUME NEW i \in Slots, Due(c, i)
            PROVE  from[c] <= i /\ listed <= i /\ i <= to[c] /\ i <= now
        <5>1. i \in Int /\ from[c] <= i /\ i < to[c] /\ listed <= i /\ i < began[c]
          BY <4>2, <2>2 DEF Due
        <5>. QED BY <5>1, <2>1, <2>2
      <4>3. \A i \in Slots : i < cursor[c] \/ cursor[c] <= i
        BY <2>2
      <4>. QED BY <4>1, <4>2, <4>3, <2>1
    <3>2. \A i \in Slots : Due(c, i)' <=> Due(c, i)
      BY <1>0 DEF Due
    <3>3. \A i \in Slots : Due(c, i)' => got'[c][i] # "none"
      BY <2>5, <3>1, <3>2
    <3>4. pc'[c] \in {"insert", "store"}
      BY <1>3, <2>7
    <3>. QED BY <1>0, <2>1, <2>4, <3>3, <3>4 DEF ClientOK, Fetching
  <2>. QED BY <2>6, <2>7
<1>7. StoreOK'
  BY <1>0 DEF StoreOK
<1>. QED BY <1>4, <1>5, <1>6, <1>7 DEF Inv

LEMMA FetchDailyInv ==
  ASSUME Inv, NEW c \in Clients, FetchDaily(c)
  PROVE  Inv'
<1> DEFINE answer == Within([i \in Slots |-> AtExchange(i)], from[c], to[c])
<1>0. /\ Types /\ StoreOK /\ \A d \in Clients : ClientOK(d)
      /\ pc[c] = "daily" /\ ~fetched[c]
      /\ got' = [got EXCEPT ![c] = answer] /\ Goto(c, "store")
      /\ UNCHANGED <<now, market, listed, store, from, to, cursor, result, began, fetched, requests>>
  BY DEF Inv, FetchDaily, ClientOK
<1>1. /\ answer \in [Slots -> Candle]
      /\ \A i \in Slots : answer[i] # "none" => listed <= i
  <2>1. \A i \in Slots : AtExchange(i) \in Candle /\ (AtExchange(i) # "none" => listed <= i)
    BY <1>0, Exists
  <2>. QED BY <2>1 DEF Within, Candle
<1> HIDE DEF answer
<1>2. pc'[c] = "store" /\ got'[c] = answer /\ \A d \in Clients \ {c} : Idles(d)
  BY <1>0 DEF Goto, Idles, Types, ClientTypes, CandleTypes
<1>3. Types'
  <2>1. MarketTypes' /\ ClientTypes'
    BY <1>0 DEF Goto, Types, MarketTypes, ClientTypes
  <2>2. CandleTypes' /\ FlagTypes'
    BY <1>0, <1>1 DEF Types, CandleTypes, FlagTypes
  <2>. QED BY <2>1, <2>2 DEF Types
<1>4. \A d \in Clients \ {c} : ClientOK(d)'
  <2>1. Grows
    BY <1>0, Positive DEF Grows, Types, MarketTypes
  <2>. QED BY <1>0, <1>2, <2>1, IdleKept
<1>5. ClientOK(c)'
  <2>1. began[c] <= now
    BY <1>0 DEF ClientOK
  <2>. QED BY <1>0, <1>1, <1>2, <2>1 DEF ClientOK, Fetching
<1>6. StoreOK'
  BY <1>0 DEF StoreOK
<1>. QED BY <1>3, <1>4, <1>5, <1>6 DEF Inv
(* A tick of a market that has closed a candle is given the newest closed  *)
(* ones.                                                                   *)
LEMMA LatestIsClosed ==
  ASSUME Types, listed < now
  PROVE  LET answer == {i \in Slots : now - Limit <= i /\ AtExchange(i) # "none"}
         IN  [i \in Slots |-> IF i \in WithoutLast(answer) THEN AtExchange(i) ELSE "none"] = Latest(now)
<1> DEFINE answer == {i \in Slots : now - Limit <= i /\ AtExchange(i) # "none"}
           lo == IF now - Limit < listed THEN listed ELSE now - Limit
<1>0. /\ now \in 1 .. LastCandle /\ listed \in 1 .. LastCandle /\ LastCandle \in Nat /\ Limit \in Nat \ {0}
      /\ Slots = 1 .. LastCandle
  BY Positive DEF Types, MarketTypes
<1>1. lo \in Int /\ lo < now /\ listed <= lo /\ now - Limit <= lo
      /\ (lo = listed \/ lo = now - Limit)
  BY <1>0
<1>2. answer = lo .. now
  <2>1. answer = {i \in Slots : now - Limit <= i /\ listed <= i /\ i <= now}
    BY Exists
  <2>. QED BY <2>1, <1>0
<1> HIDE DEF answer, lo
<1>3. WithoutLast(answer) = lo .. now - 1
  <2>1. Cardinality(lo .. now) = now - lo + 1
    BY <1>0, <1>1, FS_Interval
  <2>2. Newest(lo .. now) = now
    BY <1>0, <1>1, NewestOf
  <2>3. (lo .. now) \ {now} = lo .. now - 1
    BY <1>0, <1>1
  <2>4. now - lo + 1 > 1
    BY <1>0, <1>1
  <2>. QED BY <1>2, <2>1, <2>2, <2>3, <2>4 DEF WithoutLast
<1>4. ASSUME NEW i \in Slots
      PROVE  (IF i \in WithoutLast(answer) THEN AtExchange(i) ELSE "none")
                = IF i \in listed .. now - 1 /\ now - 1 - Limit < i THEN "closed" ELSE "none"
  <2>1. i \in lo .. now - 1 <=> (i \in listed .. now - 1 /\ now - 1 - Limit < i)
    BY <1>0, <1>1
  <2>2. i \in lo .. now - 1 => AtExchange(i) = "closed"
    BY <1>0, <1>1, Exists
  <2>. QED BY <1>3, <2>1, <2>2
<1>5. [i \in Slots |-> IF i \in WithoutLast(answer) THEN AtExchange(i) ELSE "none"] = Latest(now)
  BY <1>4 DEF Latest
<1>. QED BY <1>5 DEF answer

LEMMA FetchLatestInv ==
  ASSUME Inv, NEW c \in Clients, FetchLatest(c)
  PROVE  Inv'
<1> DEFINE answer == {i \in Slots : now - Limit <= i /\ AtExchange(i) # "none"}
           given == [i \in Slots |-> IF i \in WithoutLast(answer) THEN AtExchange(i) ELSE "none"]
<1>0. /\ Types /\ StoreOK /\ \A d \in Clients : ClientOK(d)
      /\ pc[c] = "tick" /\ ~fetched[c]
      /\ UNCHANGED <<now, market, listed, store, requests>>
  BY DEF Inv, FetchLatest, ClientOK
<1>1. CASE answer = {}
  <2>1. Over(c)
    BY <1>1 DEF FetchLatest
  <2>. QED BY <1>0, <2>1, OverInv
<1>2. CASE answer # {}
  <2>0. /\ result' = [result EXCEPT ![c] = given] /\ Goto(c, "ticked")
        /\ UNCHANGED <<from, to, cursor, got, began, fetched>>
    BY <1>2 DEF FetchLatest
  <2>1. given \in [Slots -> Candle]
    <3>1. \A i \in Slots : AtExchange(i) \in Candle
      BY <1>0, Exists
    <3>. QED BY <3>1 DEF Candle
  <2>2. listed < now => given = Latest(now)
    BY <1>0, LatestIsClosed
  <2> HIDE DEF given, answer
  <2>3. pc'[c] = "ticked" /\ result'[c] = given /\ \A d \in Clients \ {c} : Idles(d)
    BY <1>0, <2>0 DEF Goto, Idles, Types, ClientTypes, CandleTypes
  <2>4. Types'
    <3>1. MarketTypes' /\ ClientTypes'
      BY <1>0, <2>0 DEF Goto, Types, MarketTypes, ClientTypes
    <3>2. CandleTypes' /\ FlagTypes'
      BY <1>0, <2>0, <2>1 DEF Types, CandleTypes, FlagTypes
    <3>. QED BY <3>1, <3>2 DEF Types
  <2>5. \A d \in Clients \ {c} : ClientOK(d)'
    <3>1. Grows
      BY <1>0, Positive DEF Grows, Types, MarketTypes
    <3>. QED BY <1>0, <2>3, <3>1, IdleKept
  <2>6. ClientOK(c)'
    <3>1. began[c] <= now /\ \A i \in Slots : got[c][i] # "none" => listed <= i
      BY <1>0 DEF ClientOK
    <3>2. began[c] \in Int /\ now \in Int /\ listed \in Int
      BY <1>0, Positive DEF Types, MarketTypes, ClientTypes
    <3>3. listed < began[c] => now \in began[c] .. now /\ given = Latest(now)
      BY <2>2, <3>1, <3>2
    <3>4. Latest(now)' = Latest(now)
      BY <1>0 DEF Latest
    <3>5. listed' < began'[c] => \E n \in began'[c] .. now' : result'[c] = Latest(n)'
      <4>1. SUFFICES ASSUME listed < began[c]
                     PROVE  \E n \in began[c] .. now : given = Latest(n)'
        BY <1>0, <2>0, <2>3
      <4>2. given = Latest(now)'
        BY <4>1, <3>3, <3>4
      <4>3. now' = now
        BY <1>0
      <4>. QED BY <4>1, <4>2, <4>3, <3>3 DEF Latest
    <3>. QED BY <1>0, <2>0, <2>3, <3>1, <3>5 DEF ClientOK, Fetching
  <2>7. StoreOK'
    BY <1>0 DEF StoreOK
  <2>. QED BY <2>4, <2>5, <2>6, <2>7 DEF Inv
<1>. QED BY <1>1, <1>2

(* The table only grows, and then has what the client has got.             *)
LEMMA StoreAllGrows ==
  ASSUME Inv, NEW c \in Clients, StoreAll(c), UNCHANGED <<now, market, listed, requests>>
  PROVE  /\ MarketTypes' /\ StoreOK' /\ Grows
         /\ \A i \in Slots : got[c][i] # "none" => store'[i] # "none"
<1>0. Types /\ StoreOK /\ ClientOK(c)
  BY DEF Inv
<1>1. \A i \in Slots : store[i] \in Candle /\ got[c][i] \in Candle
  BY <1>0 DEF Types, MarketTypes, CandleTypes
<1>2. /\ store' = [i \in Slots |-> IF store[i] = "none" THEN got[c][i] ELSE store[i]]
      /\ \A i \in Slots : store'[i] = IF store[i] = "none" THEN got[c][i] ELSE store[i]
  BY DEF StoreAll, Merged
<1>3. MarketTypes'
  <2>1. store' \in [Slots -> Candle]
    BY <1>1, <1>2
  <2>. QED BY <1>0, <2>1 DEF Types, MarketTypes
<1>4. StoreOK'
  <2>1. \A i \in Slots : got[c][i] # "none" => listed <= i
    BY <1>0 DEF ClientOK
  <2>. QED BY <1>0, <1>2, <2>1 DEF StoreOK
<1>5. Grows
  BY <1>0, <1>2, Positive DEF Grows, Types, MarketTypes
<1>. QED BY <1>2, <1>3, <1>4, <1>5

LEMMA InsertInv ==
  ASSUME Inv, NEW c \in Clients, Insert(c)
  PROVE  Inv'
<1>0. /\ Types /\ StoreOK /\ \A d \in Clients : ClientOK(d)
      /\ pc[c] \in {"insert", "store"} /\ ~fetched[c]
      /\ StoreAll(c) /\ UNCHANGED <<now, market, listed, requests>>
  BY DEF Inv, Insert, ClientOK
<1>1. /\ MarketTypes' /\ StoreOK' /\ Grows
      /\ \A i \in Slots : got[c][i] # "none" => store'[i] # "none"
  BY <1>0, StoreAllGrows
<1>2. NoCandles \in [Slots -> Candle] /\ \A i \in Slots : NoCandles[i] = "none"
  BY DEF NoCandles, Candle
<1>3. CASE pc[c] = "store"
  <2>0. Over(c)
    BY <1>3 DEF Insert
  <2>1. /\ pc'[c] = "idle" /\ began'[c] = 1 /\ got'[c] = NoCandles /\ fetched'[c] = FALSE
        /\ \A d \in Clients \ {c} : Idles(d)
    BY <1>0, <2>0 DEF Over, Goto, Idles, Types, ClientTypes, CandleTypes, FlagTypes
  <2>2. ClientTypes'
    <3>1. 1 \in Slots /\ 1 \in 1 .. LastCandle + 1
      BY Positive
    <3>. QED BY <1>0, <2>0, <3>1 DEF Over, Goto, Types, ClientTypes
  <2>3. CandleTypes' /\ FlagTypes'
    BY <1>0, <1>2, <2>0 DEF Over, Types, CandleTypes, FlagTypes
  <2>4. ClientOK(c)'
    <3>1. began'[c] <= now'
      BY <1>0, <2>1, Positive DEF Types, MarketTypes
    <3>. QED BY <1>2, <2>1, <3>1 DEF ClientOK, Fetching
  <2>5. \A d \in Clients \ {c} : ClientOK(d)'
    BY <1>0, <1>1, <2>1, IdleKept
  <2>. QED BY <1>1, <2>2, <2>3, <2>4, <2>5 DEF Inv, Types
<1>4. CASE pc[c] = "insert"
  <2>0. /\ Goto(c, "read")
        /\ got' = [got EXCEPT ![c] = NoCandles]
        /\ fetched' = [fetched EXCEPT ![c] = TRUE]
        /\ UNCHANGED <<from, to, cursor, result, began>>
    BY <1>4 DEF Insert
  <2>1. /\ pc'[c] = "read" /\ got'[c] = NoCandles
        /\ \A d \in Clients \ {c} : Idles(d)
    BY <1>0, <2>0 DEF Goto, Idles, Types, ClientTypes, CandleTypes, FlagTypes
  <2>2. ClientTypes'
    BY <1>0, <2>0 DEF Goto, Types, ClientTypes
  <2>3. CandleTypes' /\ FlagTypes'
    BY <1>0, <1>2, <2>0 DEF Types, CandleTypes, FlagTypes
  <2>4. ClientOK(c)'
    <3>1. began'[c] <= now'
      BY <1>0, <2>0 DEF ClientOK
    <3>2. \A i \in Slots : Due(c, i)' => store'[i] # "none"
      <4>1. \A i \in Slots : Due(c, i) => got[c][i] # "none"
        BY <1>0, <1>4 DEF ClientOK
      <4>2. \A i \in Slots : Due(c, i)' <=> Due(c, i)
        BY <1>0, <2>0 DEF Due
      <4>. QED BY <1>1, <4>1, <4>2
    <3>. QED BY <1>2, <2>1, <3>1, <3>2 DEF ClientOK, Fetching
  <2>5. \A d \in Clients \ {c} : ClientOK(d)'
    BY <1>0, <1>1, <2>1, IdleKept
  <2>. QED BY <1>1, <2>2, <2>3, <2>4, <2>5 DEF Inv, Types
<1>. QED BY <1>0, <1>3, <1>4

LEMMA ReadInv ==
  ASSUME Inv, NEW c \in Clients, Read(c)
  PROVE  Inv'
<1>0. /\ Types /\ StoreOK /\ \A d \in Clients : ClientOK(d)
      /\ pc[c] = "read" /\ Goto(c, "done")
      /\ result' = [result EXCEPT ![c] = Within(store, from[c], to[c])]
      /\ UNCHANGED <<now, market, listed, store, from, to, cursor, got, began, fetched, requests>>
  BY DEF Inv, Read
<1>1. /\ Within(store, from[c], to[c]) \in [Slots -> Candle]
      /\ \A i \in Slots : Within(store, from[c], to[c])[i]
                             = IF from[c] <= i /\ i <= to[c] THEN store[i] ELSE "none"
  BY <1>0 DEF Within, Types, MarketTypes, Candle
<1>2. /\ pc'[c] = "done" /\ result'[c] = Within(store, from[c], to[c])
      /\ \A d \in Clients \ {c} : Idles(d)
  BY <1>0 DEF Goto, Idles, Types, ClientTypes, CandleTypes
<1>3. Types'
  <2>1. MarketTypes' /\ ClientTypes'
    BY <1>0 DEF Goto, Types, MarketTypes, ClientTypes
  <2>2. CandleTypes' /\ FlagTypes'
    BY <1>0, <1>1 DEF Types, CandleTypes, FlagTypes
  <2>. QED BY <2>1, <2>2 DEF Types
<1>4. \A d \in Clients \ {c} : ClientOK(d)'
  <2>1. Grows
    BY <1>0, Positive DEF Grows, Types, MarketTypes
  <2>. QED BY <1>0, <1>2, <2>1, IdleKept
<1>5. ClientOK(c)'
  <2>1. began[c] <= now /\ \A i \in Slots : got[c][i] # "none" => listed <= i
    BY <1>0 DEF ClientOK
  <2>2. \A i \in Slots : result'[c][i] # "none" => listed <= i
    BY <1>0, <1>1, <1>2 DEF StoreOK
  <2>3. fetched[c] => \A i \in Slots : Due(c, i)' => result'[c][i] # "none"
    <3>1. fetched[c] => \A i \in Slots : Due(c, i) => store[i] # "none"
      BY <1>0 DEF ClientOK
    <3>2. \A i \in Slots : (Due(c, i)' <=> Due(c, i)) /\ (Due(c, i) => from[c] <= i /\ i < to[c])
      BY <1>0 DEF Due
    <3>3. \A i \in Slots : i < to[c] => i <= to[c]
      BY <1>0, Positive DEF Types, ClientTypes
    <3>. QED BY <1>1, <1>2, <3>1, <3>2, <3>3
  <2>. QED BY <1>0, <1>2, <2>1, <2>2, <2>3 DEF ClientOK, Fetching
<1>6. StoreOK'
  BY <1>0 DEF StoreOK
<1>. QED BY <1>3, <1>4, <1>5, <1>6 DEF Inv

LEMMA CloseInv ==
  ASSUME Inv, Close
  PROVE  Inv'
<1>0. /\ Types /\ StoreOK /\ \A d \in Clients : ClientOK(d)
      /\ now < LastCandle /\ now' = now + 1
      /\ UNCHANGED <<market, listed, store, requests, pc, from, to, cursor, got, result, began, fetched>>
  BY DEF Inv, Close, client
<1>1. Types'
  <2>1. MarketTypes'
    BY <1>0, Positive DEF Types, MarketTypes
  <2>2. ClientTypes' /\ CandleTypes' /\ FlagTypes'
    BY <1>0 DEF Types, ClientTypes, CandleTypes, FlagTypes
  <2>. QED BY <2>1, <2>2 DEF Types
<1>2. \A d \in Clients : ClientOK(d)'
  <2>1. Grows
    BY <1>0, Positive DEF Grows, Types, MarketTypes
  <2>2. \A d \in Clients : Idles(d)
    BY <1>0 DEF Idles
  <2>. QED BY <1>0, <2>1, <2>2, IdleKept
<1>3. StoreOK'
  BY <1>0 DEF StoreOK
<1>. QED BY <1>1, <1>2, <1>3 DEF Inv
-----------------------------------------------------------------------------
(* Every step keeps the invariant.                                         *)
LEMMA RequestsInv ==
  ASSUME Inv, NEW c \in Clients, Request(c) \/ Daily(c) \/ Tick(c)
  PROVE  Inv'
<1>1. now \in 1 .. LastCandle /\ LastCandle \in Nat /\ Slots = 1 .. LastCandle
  BY Positive DEF Inv, Types, MarketTypes
<1>2. CASE Request(c)
  <2>1. PICK r \in Ranges : Begin(c, r[1], r[2], "check") \/ Begin(c, r[1], r[2], "download")
    BY <1>2 DEF Request
  <2>2. r[1] \in Slots /\ r[2] \in Slots
    BY <1>1, CandlesAssumption
  <2>. QED BY <2>1, <2>2, BeginInv
<1>3. CASE Daily(c)
  <2> DEFINE a == IF now > 2 THEN now - 2 ELSE 1
  <2>1. a \in Slots /\ now \in Slots
    BY <1>1
  <2>2. Begin(c, a, now, "daily")
    BY <1>3 DEF Daily
  <2> HIDE DEF a
  <2>. QED BY <2>1, <2>2, BeginInv
<1>4. CASE Tick(c)
  <2>1. 1 \in Slots /\ Begin(c, 1, 1, "tick")
    BY <1>1, <1>4 DEF Tick
  <2>. QED BY <2>1, BeginInv
<1>. QED BY <1>2, <1>3, <1>4

LEMMA StepInv ==
  ASSUME Inv, [Next]_vars
  PROVE  Inv'
<1>1. ASSUME NEW c \in Clients, Request(c) \/ Daily(c) \/ Tick(c) \/ Work(c) \/ FetchFails(c)
      PROVE  Inv'
  <2>1. CASE Request(c) \/ Daily(c) \/ Tick(c)
    BY <2>1, RequestsInv
  <2>2. CASE Work(c)
    <3>1. CASE Finish(c)
      BY <3>1, OverInv DEF Finish
    <3>. QED BY <2>2, <3>1, CheckInv, FetchPageInv, NoMorePagesInv, FetchDailyInv, FetchLatestInv,
                InsertInv, ReadInv DEF Work
  <2>3. CASE FetchFails(c)
    BY <2>3, OverInv DEF FetchFails
  <2>. QED BY <1>1, <2>1, <2>2, <2>3
<1>2. CASE UNCHANGED vars
  <2>0. UNCHANGED <<now, market, listed, store, requests, pc, from, to, cursor, got, result, began, fetched>>
    BY <1>2 DEF vars, client
  <2>1. Types'
    BY <2>0 DEF Inv, Types, MarketTypes, ClientTypes, CandleTypes, FlagTypes
  <2>2. \A d \in Clients : ClientOK(d)'
    <3>1. Grows
      BY <2>0, Positive DEF Grows, Inv, Types, MarketTypes
    <3>2. \A d \in Clients : Idles(d)
      BY <2>0 DEF Idles
    <3>. QED BY <3>1, <3>2, IdleKept DEF Inv
  <2>3. StoreOK'
    BY <2>0 DEF Inv, StoreOK
  <2>. QED BY <2>1, <2>2, <2>3 DEF Inv
<1>. QED BY <1>1, <1>2, CloseInv DEF Next

LEMMA InitInv == Init => Inv
<1> SUFFICES ASSUME Init PROVE Inv
  OBVIOUS
<1> USE DEF Init
<1>0. /\ 1 \in Slots /\ 1 \in 1 .. LastCandle + 1 /\ 0 \in 0 .. MaxRequests
      /\ NoCandles \in [Slots -> Candle] /\ \A i \in Slots : NoCandles[i] = "none"
  BY Positive DEF NoCandles, Candle
<1>1. MarketTypes /\ ClientTypes
  BY <1>0 DEF MarketTypes, ClientTypes
<1>2. CandleTypes /\ FlagTypes
  BY <1>0 DEF CandleTypes, FlagTypes
<1>3. StoreOK
  BY <1>0 DEF StoreOK
<1>4. \A c \in Clients : ClientOK(c)
  <2>1. 1 <= now
    BY Positive
  <2>. QED BY <1>0, <2>1 DEF ClientOK, Fetching
<1>. QED BY <1>1, <1>2, <1>3, <1>4 DEF Inv, Types

LEMMA Invariance == Spec => []Inv
<1>1. Inv /\ [Next]_vars => Inv'
  BY StepInv
<1>. QED BY <1>1, InitInv, PTL DEF Spec

-----------------------------------------------------------------------------
(* Theorems.                                                               *)

(* Clients, table and pages stay in their values; the next page never      *)
(* starts more than one candle past the last.                              *)
THEOREM TypeCorrect == Spec => []TypeOK
<1>1. Inv => TypeOK
  BY DEF Inv, Types, MarketTypes, ClientTypes, CandleTypes, FlagTypes, TypeOK
<1>. QED BY <1>1, Invariance, PTL

(* _download_binance, _insert_candles and the end of ensure_candles:       *)
(* whatever the size of a page, and however candles close and other        *)
(* clients store theirs in between, a backtest that downloaded its range   *)
(* is given every candle of it that had closed, before its end date.       *)
THEOREM DownloadComplete == Spec => []DownloadIsComplete
<1>1. Inv => DownloadIsComplete
  <2> SUFFICES ASSUME Inv, NEW c \in Clients, pc[c] = "done", fetched[c]
               PROVE  /\ Wanted(c) \ {to[c]} \subseteq Known(result[c])
                      /\ \A i \in Known(result[c]) : listed <= i
    BY DEF DownloadIsComplete
  <2>1. /\ \A i \in Slots : result[c][i] # "none" => listed <= i
        /\ \A i \in Slots : Due(c, i) => result[c][i] # "none"
    BY DEF Inv, ClientOK
  <2>2. from[c] \in 1 .. LastCandle /\ to[c] \in 1 .. LastCandle /\ LastCandle \in Nat /\ Slots = 1 .. LastCandle
    BY Positive DEF Inv, Types, ClientTypes
  <2>3. ASSUME NEW i \in Wanted(c) \ {to[c]}
        PROVE  i \in Slots /\ Due(c, i)
    BY <2>2 DEF Wanted, Due
  <2>. QED BY <2>1, <2>3 DEF Known
<1>. QED BY <1>1, Invariance, PTL

(* fetch_latest_candles: a tick is given exactly the newest Limit candles  *)
(* that have closed, for any Limit, unless the market has not closed any.  *)
THEOREM TicksClosed == Spec => []TicksSeeClosed
<1>1. Inv => TicksSeeClosed
  <2> SUFFICES ASSUME Inv, NEW c \in Clients, pc[c] = "ticked", listed < began[c]
               PROVE  LET newest == Newest(Known(result[c]))
                      IN  /\ began[c] - 1 <= newest
                          /\ \A i \in Slots :
                                 result[c][i] = IF i \in listed .. newest /\ newest - Limit < i
                                                THEN "closed" ELSE "none"
    BY DEF TicksSeeClosed
  <2>0. /\ now \in 1 .. LastCandle /\ listed \in 1 .. LastCandle /\ began[c] \in 1 .. LastCandle
        /\ LastCandle \in Nat /\ Limit \in Nat \ {0} /\ Slots = 1 .. LastCandle
    BY Positive DEF Inv, Types, MarketTypes, ClientTypes
  <2>1. PICK n \in began[c] .. now : result[c] = Latest(n)
    BY DEF Inv, ClientOK
  <2> DEFINE lo == IF n - Limit < listed THEN listed ELSE n - Limit
  <2>2. lo \in Int /\ lo <= n - 1 /\ n - 1 \in Int /\ n \in Int
    BY <2>0, <2>1
  <2>3. Known(result[c]) = lo .. n - 1
    <3>1. \A i \in Slots : result[c][i] # "none" <=> (i \in listed .. n - 1 /\ n - 1 - Limit < i)
      BY <2>1 DEF Latest
    <3>2. Known(result[c]) = {i \in Slots : i \in listed .. n - 1 /\ n - 1 - Limit < i}
      BY <3>1 DEF Known
    <3>. QED BY <3>2, <2>0, <2>1
  <2> HIDE DEF lo
  <2>4. Newest(Known(result[c])) = n - 1
    BY <2>2, <2>3, NewestOf
  <2>5. began[c] - 1 <= n - 1
    BY <2>0, <2>1
  <2>. QED BY <2>1, <2>4, <2>5 DEF Latest
<1>. QED BY <1>1, Invariance, PTL

(* The steps a client has left at most: each page moves its cursor.        *)
StepsLeft(c) ==
    IF pc[c] = "idle" THEN 0
    ELSE IF pc[c] \in {"done", "ticked"} THEN 1
    ELSE IF pc[c] \in {"read", "tick"} THEN 2
    ELSE IF pc[c] \in {"insert", "store"} THEN 3
    ELSE IF Fetching(c) THEN LastCandle + 5 - cursor[c]
    ELSE LastCandle + 5

LEMMA OverIsIdle ==
  ASSUME Types, NEW c \in Clients, Over(c)
  PROVE  pc'[c] = "idle" /\ \A d \in Clients \ {c} : Idles(d)
BY DEF Over, Goto, Idles, Types, ClientTypes, CandleTypes, FlagTypes

(* Work of a client moves it towards its end.                              *)
LEMMA WorkIsProgress ==
  ASSUME Inv, NEW c \in Clients, Work(c) \/ FetchFails(c)
  PROVE  pc[c] # "idle" /\ StepsLeft(c)' < StepsLeft(c) /\ \A d \in Clients \ {c} : Idles(d)
<1> USE DEF Inv, Types, ClientTypes, StepsLeft, Fetching
<1>0. /\ LastCandle \in Nat \ {0} /\ LastCandle' = LastCandle /\ cursor[c] \in 1 .. LastCandle + 1 /\ Types
  BY Positive
<1>1. CASE Check(c)
  <2>1. /\ pc[c] = "check" /\ pc'[c] \in {"read", "fetch"} /\ cursor' = cursor
        /\ \A d \in Clients \ {c} : Idles(d)
    BY <1>1 DEF Check, Goto, Idles
  <2>. QED BY <1>0, <2>1
<1>2. CASE FetchPage(c)
  <2> DEFINE full == Cardinality(Answer(c)) = Page
  <2>1. /\ Fetching(c) /\ \A d \in Clients \ {c} : Idles(d)
        /\ cursor'[c] = IF full THEN NextStart(Answer(c)) ELSE cursor[c]
        /\ IF full THEN pc' = pc ELSE pc'[c] \in {"insert", "store"}
    BY <1>2 DEF FetchPage, Goto, Idles, CandleTypes
  <2>2. full => NextStart(Answer(c)) \in 1 .. LastCandle + 1 /\ cursor[c] < NextStart(Answer(c))
    BY <1>0, <2>1, PageIsComplete
  <2> HIDE DEF full
  <2>3. CASE full
    <3>1. cursor'[c] \in 1 .. LastCandle + 1 /\ cursor[c] < cursor'[c] /\ pc'[c] = pc[c]
      BY <2>1, <2>2, <2>3
    <3>. QED BY <1>0, <2>1, <3>1
  <2>4. CASE ~full
    BY <1>0, <2>1, <2>4
  <2>. QED BY <2>3, <2>4
<1>3. CASE NoMorePages(c)
  <2>1. /\ Fetching(c) /\ pc'[c] \in {"insert", "store"}
        /\ \A d \in Clients \ {c} : Idles(d)
    BY <1>3 DEF NoMorePages, Goto, Idles
  <2>. QED BY <1>0, <2>1
<1>4. CASE FetchDaily(c)
  <2>1. pc[c] = "daily" /\ pc'[c] = "store" /\ \A d \in Clients \ {c} : Idles(d)
    BY <1>4 DEF FetchDaily, Goto, Idles, CandleTypes
  <2>. QED BY <1>0, <2>1
<1>5. CASE Over(c) /\ pc[c] # "idle"
  <2>1. pc'[c] = "idle" /\ \A d \in Clients \ {c} : Idles(d)
    BY <1>0, <1>5, OverIsIdle
  <2>2. pc[c] # "idle" /\ StepsLeft(c) > 0
    BY <1>0, <1>5
  <2>. QED BY <2>1, <2>2
<1>6. CASE FetchLatest(c)
  <2>1. CASE Over(c)
    BY <1>5, <1>6, <2>1 DEF FetchLatest
  <2>2. CASE ~Over(c)
    <3>1. /\ pc[c] = "tick" /\ Goto(c, "ticked")
          /\ UNCHANGED <<from, to, cursor, got, began, fetched>>
          /\ \A d \in Clients \ {c} : result'[d] = result[d]
      BY <1>6, <2>2 DEF FetchLatest, CandleTypes
    <3>2. pc'[c] = "ticked" /\ \A d \in Clients \ {c} : Idles(d)
      BY <3>1 DEF Goto, Idles
    <3>. QED BY <3>1, <3>2
  <2>. QED BY <2>1, <2>2
<1>7. CASE Insert(c)
  <2>1. CASE pc[c] = "store"
    BY <1>5, <1>7, <2>1 DEF Insert
  <2>2. CASE pc[c] # "store"
    <3>1. pc[c] = "insert" /\ pc'[c] = "read" /\ \A d \in Clients \ {c} : Idles(d)
      BY <1>7, <2>2 DEF Insert, Goto, Idles, CandleTypes, FlagTypes
    <3>. QED BY <3>1
  <2>. QED BY <2>1, <2>2
<1>8. CASE Read(c)
  <2>1. pc[c] = "read" /\ pc'[c] = "done" /\ \A d \in Clients \ {c} : Idles(d)
    BY <1>8 DEF Read, Goto, Idles, CandleTypes
  <2>. QED BY <2>1
<1>9. CASE Finish(c) \/ FetchFails(c)
  BY <1>5, <1>9 DEF Finish, FetchFails
<1>. QED BY <1>1, <1>2, <1>3, <1>4, <1>6, <1>7, <1>8, <1>9 DEF Work

(* What RequestEnds rests on: whatever the exchange answers and whatever   *)
(* the other clients do, each step of a client leaves it fewer steps, so   *)
(* that no download goes round for ever: _download_binance ends after at   *)
(* most as many pages as its range has candles.                            *)
StepsRunOut ==
    [][\A c \in Clients : pc[c] # "idle" => Idles(c) \/ StepsLeft(c)' < StepsLeft(c)]_vars

THEOREM DownloadsAreFinite == Spec => StepsRunOut /\ [](\A c \in Clients : StepsLeft(c) \in Nat)
<1>1. Inv => \A c \in Clients : StepsLeft(c) \in Nat
  <2> SUFFICES ASSUME Inv, NEW c \in Clients PROVE StepsLeft(c) \in Nat
    OBVIOUS
  <2>1. LastCandle \in Nat /\ cursor[c] \in 1 .. LastCandle + 1
    BY Positive DEF Inv, Types, ClientTypes
  <2>. QED BY <2>1 DEF StepsLeft
<1>2. ASSUME Inv, [Next]_vars, NEW d \in Clients, pc[d] # "idle"
      PROVE  Idles(d) \/ StepsLeft(d)' < StepsLeft(d)
  <2>1. ASSUME NEW c \in Clients, Request(c) \/ Daily(c) \/ Tick(c)
        PROVE  Idles(d)
    <3>1. PICK a, b, step : Begin(c, a, b, step)
      BY <2>1 DEF Request, Daily, Tick
    <3>2. c # d
      BY <1>2, <3>1 DEF Begin
    <3>. QED BY <1>2, <3>1, <3>2 DEF Begin, Goto, Idles, Inv, Types, ClientTypes
  <2>2. ASSUME NEW c \in Clients, Work(c) \/ FetchFails(c)
        PROVE  Idles(d) \/ StepsLeft(d)' < StepsLeft(d)
    BY <1>2, <2>2, WorkIsProgress
  <2>3. CASE Close \/ UNCHANGED vars
    BY <2>3 DEF Close, vars, client, Idles
  <2>. QED BY <1>2, <2>1, <2>2, <2>3 DEF Next
<1>3. Inv /\ [Next]_vars =>
         [\A c \in Clients : pc[c] # "idle" => Idles(c) \/ StepsLeft(c)' < StepsLeft(c)]_vars
  BY <1>2
<1>. QED BY <1>1, <1>3, Invariance, PTL DEF Spec, StepsRunOut

-----------------------------------------------------------------------------
(* Backtests of CSV files.                                                 *)

(* A set of natural numbers that is not empty has a least element.         *)
LEMMA LeastNatural ==
  ASSUME NEW S, S \subseteq Nat, S # {}
  PROVE  \E n \in S : \A m \in S : n <= m
<1>1. \E n \in S : \A m \in S : ~(<<m, n>> \in OpToRel(<, Nat))
  BY NatLessThanWellFounded, WFMin
<1>2. \A n, m \in Nat : ~(<<m, n>> \in OpToRel(<, Nat)) => n <= m
  BY DEF OpToRel
<1>. QED BY <1>1, <1>2

LEMMA MinInSet ==
  ASSUME NEW S, S \subseteq Nat, S # {}
  PROVE  Min(S) \in S
BY LeastNatural DEF Min

LEMMA MinOfTwo ==
  ASSUME NEW x \in Int, NEW y \in Int
  PROVE  Min({x, y}) = IF x <= y THEN x ELSE y
<1> DEFINE m == IF x <= y THEN x ELSE y
<1>1. m \in {x, y} /\ \A z \in {x, y} : m <= z
  OBVIOUS
<1>2. Min({x, y}) \in {x, y} /\ \A z \in {x, y} : Min({x, y}) <= z
  BY <1>1 DEF Min
<1>3. \A k \in {x, y} : k \in Int
  OBVIOUS
<1> HIDE DEF m
<1>4. Min({x, y}) = m
  BY <1>1, <1>2, <1>3
<1>. QED BY <1>4 DEF m

LEMMA RatioIsInt ==
  ASSUME NEW x \in Int, NEW n \in Int, n # 0
  PROVE  Ratio(x, n) \in Int
<1>1. CASE n > 0
  BY <1>1 DEF Ratio
<1>2. CASE ~(n > 0)
  <2> DEFINE y == -x
             k == -n
  <2>1. y \in Int /\ k \in Int /\ k > 0
    BY <1>2
  <2> HIDE DEF y, k
  <2>2. y \div k \in Int
    BY <2>1
  <2>. QED BY <1>2, <2>2 DEF Ratio, y, k
<1>. QED BY <1>1, <1>2

LEMMA PercentIs ==
  ASSUME NEW x \in Int, NEW p \in Int
  PROVE  Percent(x, p) \in Int /\ (x >= 0 /\ p >= 0 => Percent(x, p) >= 0)
<1> DEFINE y == x * p
<1>1. y \in Int /\ (x >= 0 /\ p >= 0 => y >= 0)
  OBVIOUS
<1> HIDE DEF y
<1>2. y \div 100 \in Int /\ (y >= 0 => y \div 100 >= 0)
  BY <1>1
<1>. QED BY <1>1, <1>2 DEF Percent, y

(* What an order costs, and what its commission is.                        *)
OrderOK(o) ==
    /\ o.symbol \in Symbols /\ o.action \in {"BUY", "SELL", "other"}
    /\ o.quantity \in Int
    /\ FillPrice(o) \in Int /\ Cost(o) \in Int /\ Commission(o) \in Int
    /\ Orderly(o) => Cost(o) >= 0 /\ (config.commission >= 0 => Commission(o) >= 0)

LEMMA CostIsNumber ==
  ASSUME config \in Configs, NEW o \in Signals
  PROVE  OrderOK(o)
<1>1. /\ o.symbol \in Symbols /\ o.action \in {"BUY", "SELL", "other"}
      /\ o.quantity \in Int /\ o.price \in Int
      /\ config.slippage \in Int /\ config.commission \in Int
  BY CsvAssumption DEF Signals, Actions
<1>2. FillPrice(o) \in Int
  <2> DEFINE x == Percent(o.price, config.slippage)
  <2>1. x \in Int
    BY <1>1, PercentIs
  <2> HIDE DEF x
  <2>2. o.price + x \in Int /\ o.price - x \in Int
    BY <1>1, <2>1
  <2>. QED BY <2>2 DEF FillPrice, x
<1>3. Cost(o) \in Int /\ (Orderly(o) => Cost(o) >= 0)
  <2> DEFINE p == FillPrice(o)
  <2>1. p \in Int /\ (Orderly(o) => p >= 0 /\ o.quantity >= 0)
    BY <1>1, <1>2 DEF Orderly
  <2> HIDE DEF p
  <2>2. p * o.quantity \in Int /\ (Orderly(o) => p * o.quantity >= 0)
    BY <1>1, <2>1
  <2>. QED BY <2>2 DEF Cost, p
<1>4. /\ Commission(o) \in Int
      /\ Cost(o) >= 0 /\ config.commission >= 0 => Commission(o) >= 0
  BY <1>1, <1>3, PercentIs DEF Commission
<1>. QED BY <1>1, <1>2, <1>3, <1>4 DEF OrderOK

-----------------------------------------------------------------------------
(* The broker: positions of their type, and empty when they are closed.    *)
PositionOK(p) == p \in Position /\ (~IsOpen(p) => p.quantity = 0)

BrokerOK(b, paid) ==
    /\ b.balance \in Int /\ b.margin \in Int /\ paid \in Int
    /\ b.positions \in Seq(Position)
    /\ \A i \in DOMAIN b.positions : PositionOK(b.positions[i])

(* With numbers of sense, open positions are not empty, and the balance is *)
(* no more overdrawn than commissions were paid.                           *)
Full(p) == p.quantity >= 0 /\ (IsOpen(p) => p.quantity # 0)

Funded(b, paid) ==
    /\ paid >= 0 /\ b.balance + paid >= 0
    /\ \A i \in DOMAIN b.positions : Full(b.positions[i])

LEMMA FoundIsOpenBuy ==
  ASSUME NEW b, NEW paid, BrokerOK(b, paid), NEW s, FindOpen(b, s) # 0
  PROVE  LET i == FindOpen(b, s)
             p == b.positions[i]
         IN  /\ i \in DOMAIN b.positions /\ p.symbol = s /\ p.action = "BUY" /\ IsOpen(p)
             /\ p \in Position
<1> DEFINE found == {i \in DOMAIN b.positions :
                        LET p == b.positions[i]
                        IN  p.symbol = s /\ p.action = "BUY" /\ IsOpen(p)}
<1>1. found # {} /\ FindOpen(b, s) = Min(found)
  BY DEF FindOpen
<1>2. DOMAIN b.positions \subseteq Nat
  BY LenProperties DEF BrokerOK
<1>3. Min(found) \in found
  BY <1>1, <1>2, MinInSet
<1>. QED BY <1>1, <1>3 DEF BrokerOK, PositionOK, Position

(* One position of a sequence replaced, or one added.                      *)
LEMMA ReplaceOK ==
  ASSUME NEW ps \in Seq(Position), \A i \in DOMAIN ps : PositionOK(ps[i]),
         NEW i \in DOMAIN ps, NEW p, PositionOK(p)
  PROVE  /\ [ps EXCEPT ![i] = p] \in Seq(Position)
         /\ \A j \in DOMAIN [ps EXCEPT ![i] = p] : PositionOK([ps EXCEPT ![i] = p][j])
<1>1. i \in 1 .. Len(ps) /\ p \in Position
  BY LenProperties DEF PositionOK
<1>2. [ps EXCEPT ![i] = p] \in Seq(Position)
  BY <1>1, ExceptSeq
<1>3. \A j \in DOMAIN ps : [ps EXCEPT ![i] = p][j] = IF j = i THEN p ELSE ps[j]
  OBVIOUS
<1>. QED BY <1>2, <1>3

(* What place_order makes of the broker, position by position.             *)
LEMMA AveragedIs ==
  ASSUME NEW b, NEW paid, BrokerOK(b, paid), NEW o, OrderOK(o),
         Averages(b, o), ~Undoes(b, o)
  PROVE  LET i == FindOpen(b, o.symbol)
             p == b.positions[i]
             n == p.quantity + o.quantity
             a == [p EXCEPT !.entry = Ratio(p.entry * p.quantity + Cost(o), n),
                            !.quantity = n]
         IN  /\ Averaged(b, i, o) = [b.positions EXCEPT ![i] = a]
             /\ i \in DOMAIN b.positions
             /\ PositionOK(a) /\ a.quantity = n /\ a.pnl = p.pnl /\ a.entry \in Int
             /\ Full(p) /\ Orderly(o) => Full(a)
<1> DEFINE i == FindOpen(b, o.symbol)
           p == b.positions[i]
           n == p.quantity + o.quantity
           x == p.entry * p.quantity + Cost(o)
           a == [p EXCEPT !.entry = Ratio(x, n), !.quantity = n]
<1>1. /\ i \in DOMAIN b.positions /\ IsOpen(p) /\ p \in Position
  BY FoundIsOpenBuy DEF Averages
<1>2. n \in Int /\ n # 0 /\ x \in Int /\ p.pnl \in Int
  <2>1. p.quantity \in Int /\ p.entry \in Int /\ p.pnl \in Int
    BY <1>1 DEF Position
  <2>2. o.quantity \in Int /\ Cost(o) \in Int
    BY DEF OrderOK
  <2>3. n # 0
    BY DEF Undoes
  <2>. QED BY <2>1, <2>2, <2>3
<1>7. Full(p) /\ Orderly(o) => n > 0
  <2>1. p.quantity \in Int /\ o.quantity \in Int
    BY <1>1 DEF Position, OrderOK
  <2>. QED BY <2>1 DEF Full, Orderly
<1> HIDE DEF i
<1>3. Ratio(x, n) \in Int
  <2> HIDE DEF x, n
  <2>. QED BY <1>2, RatioIsInt
<1>4. Averaged(b, i, o) = [b.positions EXCEPT ![i] = a]
  BY <1>1 DEF Averaged, Position
<1>5. a \in Position /\ a.quantity = n /\ a.pnl = p.pnl /\ a.status = p.status
      /\ a.entry = Ratio(x, n)
  <2> HIDE DEF x, n
  <2>. QED BY <1>1, <1>2, <1>3 DEF Position
<1>6. PositionOK(a) /\ (Full(p) /\ Orderly(o) => Full(a))
  <2> HIDE DEF a, n, p
  <2>. QED BY <1>1, <1>2, <1>5, <1>7 DEF PositionOK, IsOpen, Full
<1>. QED BY <1>1, <1>3, <1>4, <1>5, <1>6 DEF i

(* A position after a sale.                                                *)
Sold(p, left, sum) ==
    [p EXCEPT !.quantity = left, !.pnl = sum, !.status = IF left = 0 THEN "closed" ELSE "open"]

LEMMA SoldOK ==
  ASSUME NEW p \in Position, NEW left \in Int, NEW sum \in Int
  PROVE  /\ PositionOK(Sold(p, left, sum)) /\ Sold(p, left, sum).quantity = left
         /\ left >= 0 => Full(Sold(p, left, sum))
         /\ Sold(p, left, sum).pnl = sum /\ Sold(p, left, sum).entry = p.entry
<1> DEFINE st == IF left = 0 THEN "closed" ELSE "open"
<1>1. st \in {"open", "closed"} /\ (st = "open" <=> left # 0)
  OBVIOUS
<1>2. Sold(p, left, sum) = [p EXCEPT !.quantity = left, !.pnl = sum, !.status = st]
  BY DEF Sold
<1> HIDE DEF st
<1>. QED BY <1>1, <1>2 DEF Position, PositionOK, IsOpen, Full

LEMMA ReducedIs ==
  ASSUME NEW b, NEW paid, BrokerOK(b, paid), NEW o, OrderOK(o),
         FindOpen(b, o.symbol) # 0
  PROVE  LET i == FindOpen(b, o.symbol)
             p == b.positions[i]
             q == FillQuantity(p, o)
             w == (FillPrice(o) - p.entry) * q
         IN  /\ Reduced(b, i, o).positions
                    = [b.positions EXCEPT ![i] = Sold(p, p.quantity - q, p.pnl + w)]
             /\ q \in Int /\ p.quantity - q \in Int /\ w \in Int
             /\ p.quantity - q >= 0 /\ (Full(p) /\ Orderly(o) => q >= 0)
<1> DEFINE i == FindOpen(b, o.symbol)
           p == b.positions[i]
           q == FillQuantity(p, o)
           w == (FillPrice(o) - p.entry) * q
<1>1. i \in DOMAIN b.positions /\ IsOpen(p) /\ p \in Position
  BY FoundIsOpenBuy
<1>2. /\ p.quantity \in Int /\ p.entry \in Int /\ p.pnl \in Int
      /\ o.quantity \in Int /\ FillPrice(o) \in Int
  BY <1>1 DEF OrderOK, Position
<1>3. q \in Int /\ q <= p.quantity /\ (Full(p) /\ Orderly(o) => q >= 0)
  <2>1. q = IF o.quantity <= p.quantity THEN o.quantity ELSE p.quantity
    BY <1>2, MinOfTwo DEF FillQuantity
  <2>2. Full(p) => p.quantity >= 0
    BY DEF Full
  <2>3. Orderly(o) => o.quantity >= 0
    BY <1>2 DEF Orderly
  <2> HIDE DEF p, q
  <2>. QED BY <1>2, <2>1, <2>2, <2>3
<1>4. /\ p.quantity - q \in Int /\ p.quantity - q >= 0
      /\ p.quantity - q = 0 <=> p.quantity = q
  <2> HIDE DEF p, q
  <2>. QED BY <1>2, <1>3
<1>5. Reduced(b, i, o).positions
          = [b.positions EXCEPT ![i] = Sold(p, p.quantity - q, p.pnl + w)]
  <2>1. Reduced(b, i, o).positions
            = [b.positions EXCEPT ![i] =
                  [p EXCEPT !.quantity = p.quantity - q, !.pnl = p.pnl + w,
                            !.status = IF p.quantity = q THEN "closed" ELSE "open"]]
    <3> HIDE DEF i
    <3>. QED BY <1>1 DEF Reduced, Realised, Gain, Position
  <2>. QED BY <2>1, <1>4 DEF Sold
<1>6. w \in Int
  <2> DEFINE g == FillPrice(o) - p.entry
  <2>1. g \in Int
    BY <1>2
  <2> HIDE DEF g, q
  <2>. QED BY <1>3, <2>1 DEF g
<1>. QED BY <1>3, <1>4, <1>5, <1>6

LEMMA NewPositionIs ==
  ASSUME NEW b, NEW paid, BrokerOK(b, paid), NEW o, OrderOK(o)
  PROVE  \E p : /\ NewPosition(b, o) = Append(b.positions, p)
                /\ PositionOK(p) /\ p.quantity = o.quantity /\ p.pnl = 0
                /\ p.entry = FillPrice(o) /\ (Orderly(o) => Full(p))
<1> DEFINE p == [symbol |-> o.symbol, action |-> IF o.action = "BUY" THEN "BUY" ELSE "SELL",
                 quantity |-> o.quantity, entry |-> FillPrice(o),
                 current |-> FillPrice(o), pnl |-> 0, status |-> "open"]
<1>1. NewPosition(b, o) = Append(b.positions, p)
  BY DEF NewPosition
<1>2. p \in Position /\ PositionOK(p)
  BY DEF OrderOK, Position, PositionOK, IsOpen
<1>3. Orderly(o) => Full(p)
  BY DEF OrderOK, Orderly, Full
<1>. QED BY <1>1, <1>2, <1>3

(* The three things place_order may do, and what each of them spends.      *)
LEMMA PlaceOrderCases ==
  ASSUME NEW b, NEW o
  PROVE  LET i == FindOpen(b, o.symbol)
             B == PlaceOrder(b, o)
         IN  \/ i # 0 /\ o.action # "BUY" /\ B = Reduced(b, i, o) /\ Filled(b, o)
             \/ B = b /\ ~Affordable(b, o) /\ ~Filled(b, o)
             \/ Averages(b, o) /\ Affordable(b, o) /\ Filled(b, o)
                /\ B = Paid(b, o, Averaged(b, i, o))
             \/ i = 0 /\ Affordable(b, o) /\ Filled(b, o)
                /\ B = Paid(b, o, NewPosition(b, o))
BY DEF PlaceOrder, Filled, Averages

Charged(b, o) == IF Filled(b, o) THEN Commission(o) ELSE 0

(* One position replaced, or one added, with the others full.              *)
LEMMA StillFull ==
  ASSUME NEW ps \in Seq(Position), \A i \in DOMAIN ps : Full(ps[i]), NEW p \in Position, Full(p)
  PROVE  /\ \A i \in DOMAIN ps : \A j \in DOMAIN [ps EXCEPT ![i] = p] : Full([ps EXCEPT ![i] = p][j])
         /\ \A j \in DOMAIN Append(ps, p) : Full(Append(ps, p)[j])
<1>1. \A i, j \in DOMAIN ps : [ps EXCEPT ![i] = p][j] = IF j = i THEN p ELSE ps[j]
  OBVIOUS
<1>2. \A j \in DOMAIN Append(ps, p) :
          Append(ps, p)[j] = p \/ (j \in DOMAIN ps /\ Append(ps, p)[j] = ps[j])
  BY AppendProperties, LenProperties
<1>. QED BY <1>1, <1>2

LEMMA PlaceOrderOK ==
  ASSUME NEW b, NEW paid, BrokerOK(b, paid), NEW o, OrderOK(o), ~Undoes(b, o)
  PROVE  /\ BrokerOK(PlaceOrder(b, o), paid + Charged(b, o))
         /\ Funded(b, paid) /\ Orderly(o) /\ config.commission >= 0
               => Funded(PlaceOrder(b, o), paid + Charged(b, o))
<1> DEFINE i == FindOpen(b, o.symbol)
           B == PlaceOrder(b, o)
           sane == Funded(b, paid) /\ Orderly(o) /\ config.commission >= 0
           OK(n) == BrokerOK(B, n) /\ (sane => Funded(B, n))
<1>c. /\ Cost(o) \in Int /\ Commission(o) \in Int /\ FillPrice(o) \in Int
      /\ b.balance \in Int /\ b.margin \in Int /\ paid \in Int
      /\ sane => /\ Cost(o) >= 0 /\ Commission(o) >= 0 /\ FillPrice(o) >= 0
                 /\ paid >= 0 /\ b.balance + paid >= 0
  BY DEF OrderOK, BrokerOK, Orderly, Funded
<1>s. sane => /\ \A j \in DOMAIN b.positions : Full(b.positions[j])
              /\ Orderly(o)
  BY DEF Funded
<1>p. b.positions \in Seq(Position) /\ \A j \in DOMAIN b.positions : PositionOK(b.positions[j])
  BY DEF BrokerOK
<1> HIDE DEF sane
<1>1. ASSUME i # 0, B = Reduced(b, i, o), Filled(b, o)
      PROVE  OK(paid + Charged(b, o))
  <2> DEFINE p == b.positions[i]
             q == FillQuantity(p, o)
             w == (FillPrice(o) - p.entry) * q
             x == FillPrice(o) * q
             y == p.entry * q
             sum == p.pnl + w
             left == p.quantity - q
             t == Sold(p, left, sum)
  <2>0. i \in DOMAIN b.positions /\ p \in Position /\ p.entry \in Int /\ p.pnl \in Int
    BY <1>1, FoundIsOpenBuy DEF Position
  <2>1. /\ Reduced(b, i, o).positions = [b.positions EXCEPT ![i] = t]
        /\ q \in Int /\ left \in Int /\ w \in Int /\ left >= 0
        /\ Full(p) /\ Orderly(o) => q >= 0
    <3> HIDE DEF B
    <3>. QED BY <1>1, ReducedIs
  <2>2. B.positions = [b.positions EXCEPT ![i] = t]
    BY <1>1, <2>1
  <2>3. B.balance = b.balance + x - Commission(o) /\ B.margin = b.margin - y
    BY <1>1 DEF Reduced
  <2> HIDE DEF B, q, p, i, w, x, y
  <2>4. sum \in Int
    BY <2>0, <2>1
  <2> HIDE DEF left, sum
  <2>5. PositionOK(t) /\ t \in Position /\ Full(t)
    BY <2>0, <2>1, <2>4, SoldOK DEF PositionOK
  <2> HIDE DEF t
  <2>6. B.positions \in Seq(Position) /\ \A j \in DOMAIN B.positions : PositionOK(B.positions[j])
    BY <1>p, <2>0, <2>2, <2>5, ReplaceOK
  <2>7. sane => \A j \in DOMAIN B.positions : Full(B.positions[j])
    BY <1>p, <1>s, <2>0, <2>2, <2>5, StillFull
  <2>8. sane => q >= 0
    BY <1>s, <2>0, <2>1 DEF p
  <2>9. x \in Int /\ y \in Int /\ (sane => x >= 0)
    BY <1>c, <2>0, <2>1, <2>8 DEF x, y
  <2> DEFINE F == Commission(o)
  <2>10. Charged(b, o) = F
    BY <1>1 DEF Charged
  <2>11. F \in Int /\ (sane => F >= 0)
    BY <1>c
  <2>12. B.balance = b.balance + x - F
    BY <2>3
  <2> HIDE DEF F
  <2>13. B.balance \in Int /\ B.margin \in Int /\ paid + F \in Int
    BY <1>c, <2>3, <2>9, <2>11, <2>12
  <2>14. sane => paid + F >= 0 /\ B.balance + (paid + F) >= 0
    BY <1>c, <2>9, <2>11, <2>12
  <2>. QED BY <2>6, <2>7, <2>10, <2>13, <2>14 DEF BrokerOK, Funded
<1>2. ASSUME B = b, ~Filled(b, o)
      PROVE  OK(paid + Charged(b, o))
  <2>1. Charged(b, o) = 0 /\ paid + 0 = paid
    BY <1>2, <1>c DEF Charged
  <2> HIDE DEF B
  <2>2. OK(paid)
    BY <1>2 DEF sane
  <2>. QED BY <2>1, <2>2
<1>3. ASSUME NEW ps \in Seq(Position), \A j \in DOMAIN ps : PositionOK(ps[j]),
             sane => \A j \in DOMAIN ps : Full(ps[j]),
             B = Paid(b, o, ps), Affordable(b, o), Filled(b, o)
      PROVE  OK(paid + Charged(b, o))
  <2>1. /\ B.balance = b.balance - (Cost(o) + Commission(o))
        /\ B.margin = b.margin + Cost(o) /\ B.positions = ps
    BY <1>3 DEF Paid
  <2>2. Charged(b, o) = Commission(o) /\ Cost(o) + Commission(o) <= b.balance
    BY <1>3 DEF Charged, Affordable
  <2> HIDE DEF B
  <2>3. BrokerOK(B, paid + Charged(b, o))
    BY <1>c, <1>3, <2>1, <2>2 DEF BrokerOK
  <2>4. sane => Funded(B, paid + Charged(b, o))
    BY <1>c, <1>3, <2>1, <2>2 DEF Funded
  <2>. QED BY <2>3, <2>4
<1>4. ASSUME Averages(b, o)
      PROVE  /\ Averaged(b, i, o) \in Seq(Position)
             /\ \A j \in DOMAIN Averaged(b, i, o) : PositionOK(Averaged(b, i, o)[j])
             /\ sane => \A j \in DOMAIN Averaged(b, i, o) : Full(Averaged(b, i, o)[j])
  <2>1. PICK a : /\ Averaged(b, i, o) = [b.positions EXCEPT ![i] = a] /\ PositionOK(a)
                 /\ Full(b.positions[i]) /\ Orderly(o) => Full(a)
    BY <1>4, AveragedIs
  <2>2. i \in DOMAIN b.positions /\ a \in Position
    BY <1>4, <2>1, AveragedIs DEF PositionOK
  <2>3. sane => Full(a)
    BY <1>s, <2>1, <2>2
  <2> HIDE DEF i
  <2>. QED BY <1>p, <1>s, <2>1, <2>2, <2>3, ReplaceOK, StillFull
<1>5. /\ NewPosition(b, o) \in Seq(Position)
      /\ \A j \in DOMAIN NewPosition(b, o) : PositionOK(NewPosition(b, o)[j])
      /\ sane => \A j \in DOMAIN NewPosition(b, o) : Full(NewPosition(b, o)[j])
  <2>1. PICK p : NewPosition(b, o) = Append(b.positions, p) /\ PositionOK(p)
                 /\ (Orderly(o) => Full(p))
    BY NewPositionIs
  <2>2. p \in Position
    BY <2>1 DEF PositionOK
  <2>3. /\ Append(b.positions, p) \in Seq(Position)
        /\ \A j \in DOMAIN Append(b.positions, p) : PositionOK(Append(b.positions, p)[j])
    BY <1>p, <2>1, <2>2, AppendProperties
  <2>4. sane => \A j \in DOMAIN Append(b.positions, p) : Full(Append(b.positions, p)[j])
    BY <1>p, <1>s, <2>1, <2>2, StillFull
  <2>. QED BY <2>1, <2>3, <2>4
<1> HIDE DEF B
<1>6. OK(paid + Charged(b, o))
  BY <1>1, <1>2, <1>3, <1>4, <1>5, PlaceOrderCases DEF B
<1>. QED BY <1>6 DEF B, sane

(* What is rounded off is what the averaged position costs less than was   *)
(* paid for it.                                                            *)
LEMMA RoundingIs ==
  ASSUME NEW b, NEW paid, BrokerOK(b, paid), NEW o, OrderOK(o), ~Undoes(b, o)
  PROVE  LET i == FindOpen(b, o.symbol)
             p == b.positions[i]
             a == Averaged(b, i, o)[i]
         IN  /\ Rounding(b, o) \in Int
             /\ ~Averages(b, o) => Rounding(b, o) = 0
             /\ Averages(b, o) => Rounding(b, o)
                              = (p.entry * p.quantity + Cost(o)) - a.entry * a.quantity
<1> DEFINE i == FindOpen(b, o.symbol)
           p == b.positions[i]
           x == p.entry * p.quantity + Cost(o)
           a == Averaged(b, i, o)[i]
<1>1. ASSUME Averages(b, o)
      PROVE  Rounding(b, o) \in Int /\ Rounding(b, o) = x - a.entry * a.quantity
  <2>1. i \in DOMAIN b.positions /\ p \in Position
    BY <1>1, FoundIsOpenBuy DEF Averages
  <2>2. \E r : Averaged(b, i, o) = [b.positions EXCEPT ![i] = r] /\ PositionOK(r)
    BY <1>1, AveragedIs
  <2>3. PositionOK(a)
    <3> HIDE DEF i
    <3>. QED BY <2>1, <2>2
  <2> DEFINE y == p.entry * p.quantity
             z == a.entry * a.quantity
  <2>4. Rounding(b, o) = y + Cost(o) - z
    BY <1>1, Zenon DEF Rounding
  <2>5. p.entry \in Int /\ p.quantity \in Int /\ Cost(o) \in Int
    BY <2>1 DEF OrderOK, Position
  <2>6. a.entry \in Int /\ a.quantity \in Int
    <3> HIDE DEF a
    <3>. QED BY <2>3 DEF PositionOK, Position
  <2> HIDE DEF a, p
  <2>7. y \in Int /\ z \in Int
    BY <2>5, <2>6
  <2>. QED BY <2>4, <2>5, <2>7
<1>2. ~Averages(b, o) => Rounding(b, o) = 0
  BY Zenon DEF Rounding
<1> HIDE DEF i, a, p
<1>. QED BY <1>1, <1>2 DEF i, a, p

-----------------------------------------------------------------------------
(* The request: what it holds at each of its steps.                        *)
Replaying == phase \in {"replay", "commit", "saved"}

RequestTypes ==
    /\ row \in {"none", "queued", "completed", "failed", "deleted"}
    /\ config \in Configs
    /\ DOMAIN metrics = DOMAIN NoResult
    /\ phase \in {"idle", "refresh", "replay", "commit", "saved", "over"}
    /\ outcome \in {"none", "completed", "failed"}
    /\ phase = "commit" => outcome # "none"

SignalTypes ==
    /\ \E S : log \in Seq(S)
    /\ \E S : curve \in Seq(S)
    /\ Len(log) <= MaxSignals /\ lost \in Int /\ orderly \in BOOLEAN
    /\ Replaying => Len(curve) = Len(log) + 1 /\ curve[1] = config.capital
    /\ ~Replaying => /\ broker = NoBroker /\ fees = 0 /\ lost = 0
                     /\ log = << >> /\ curve = << >>

InCover == Replaying /\ InOrder => Funded(broker, fees)

CsvTypes == RequestTypes /\ SignalTypes /\ BrokerOK(broker, fees) /\ InCover

LEMMA NoBrokerOK ==
  ASSUME NEW n \in Int
  PROVE  /\ BrokerOK([NoBroker EXCEPT !.balance = n], 0)
         /\ n >= 0 => Funded([NoBroker EXCEPT !.balance = n], 0)
<1>1. << >> \in Seq(Position) /\ DOMAIN << >> = {}
  OBVIOUS
<1>. QED BY <1>1 DEF BrokerOK, Funded, NoBroker

LEMMA EmptyBroker == BrokerOK(NoBroker, 0) /\ Funded(NoBroker, 0)
<1>1. << >> \in Seq(Position) /\ DOMAIN << >> = {}
  OBVIOUS
<1>. QED BY <1>1 DEF BrokerOK, Funded, NoBroker

LEMMA Appended ==
  ASSUME NEW s, \E S : s \in Seq(S), NEW e
  PROVE  /\ \E S : Append(s, e) \in Seq(S)
         /\ Len(s) \in Nat /\ Len(Append(s, e)) = Len(s) + 1
         /\ \A i \in 1 .. Len(s) : Append(s, e)[i] = s[i]
         /\ Append(s, e)[Len(s) + 1] = e
<1>1. PICK S : s \in Seq(S)
  OBVIOUS
<1>2. s \in Seq(S \cup {e})
  BY <1>1
<1>3. Append(s, e) \in Seq(S \cup {e})
  BY <1>2, AppendProperties
<1>. QED BY <1>2, <1>3, AppendProperties, LenProperties

LEMMA OverIs ==
  ASSUME Return
  PROVE  /\ phase' = "over" /\ outcome' = "none" /\ config' = config /\ fees' = 0 /\ lost' = 0
         /\ orderly' = TRUE /\ broker' = NoBroker /\ log' = << >> /\ curve' = << >>
BY DEF Return

LEMMA OverTypes ==
  ASSUME CsvTypes, Return, UNCHANGED <<row, metrics>>
  PROVE  CsvTypes'
<1>1. RequestTypes'
  BY OverIs DEF CsvTypes, RequestTypes
<1>2. SignalTypes'
  <2>1. << >> \in Seq({}) /\ Len(<< >>) = 0 /\ 0 <= MaxSignals
    BY CsvAssumption
  <2>2. orderly' \in BOOLEAN
    BY OverIs, Zenon
  <2>3. lost' \in Int /\ ~Replaying'
    BY OverIs DEF Replaying
  <2>. QED BY <2>1, <2>2, <2>3, OverIs DEF SignalTypes
<1>3. BrokerOK(broker, fees)' /\ InCover'
  <2>1. BrokerOK(NoBroker, 0)
    BY EmptyBroker
  <2>. QED BY <2>1, OverIs DEF InCover, Replaying
<1>. QED BY <1>1, <1>2, <1>3 DEF CsvTypes

(* What a signal does, of the order it is.                                 *)
LEMMA SignalIs ==
  ASSUME Signal
  PROVE  /\ phase = "replay" /\ Len(log) < MaxSignals
         /\ UNCHANGED <<row, config, metrics, phase, outcome>>
         /\ \E o \in Signals :
               /\ broker' = PlaceOrder(broker, o)
               /\ fees' = fees + Charged(broker, o)
               /\ lost' = lost + Rounding(broker, o)
               /\ orderly' = (orderly /\ Orderly(o)) /\ ~Undoes(broker, o)
               /\ \E e : log' = Append(log, e)
               /\ \E e : curve' = Append(curve, e)
BY DEF Signal, Charged

LEMMA CsvTypesInit ==
  ASSUME CsvInit
  PROVE  CsvTypes
<1>1. RequestTypes
  BY DEF CsvInit, RequestTypes
<1>2. SignalTypes
  <2>1. << >> \in Seq({}) /\ Len(<< >>) = 0 /\ 0 <= MaxSignals
    BY CsvAssumption
  <2>2. orderly \in BOOLEAN
    BY Zenon DEF CsvInit
  <2>. QED BY <2>1, <2>2 DEF CsvInit, SignalTypes, Replaying
<1>3. BrokerOK(broker, fees) /\ InCover
  <2>1. BrokerOK(NoBroker, 0)
    BY EmptyBroker
  <2>. QED BY <2>1 DEF CsvInit, InCover, Replaying
<1>. QED BY <1>1, <1>2, <1>3 DEF CsvTypes

LEMMA CsvTypesNext ==
  ASSUME CsvTypes, [CsvNext]_csvVars
  PROVE  CsvTypes'
<1> USE DEF CsvTypes
<1>1. CASE Create
  BY <1>1 DEF Create, RequestTypes, SignalTypes, Replaying, InCover, InOrder
<1>2. CASE Load
  <2>1. RequestTypes'
    BY <1>2 DEF Load, RequestTypes
  <2>2. SignalTypes'
    <3>1. << >> \in Seq({}) /\ Len(<< >>) = 0 /\ 0 <= MaxSignals
      BY CsvAssumption
    <3>2. /\ log' = << >> /\ curve' = <<config.capital>> /\ config' = config
          /\ lost' = lost /\ lost \in Int /\ orderly' = orderly /\ orderly \in BOOLEAN
      BY <1>2 DEF Load, SignalTypes, Replaying
    <3>3. curve' \in Seq({config.capital}) /\ Len(curve') = 1 /\ curve'[1] = config.capital
      BY <3>2
    <3>4. phase' = "replay"
      BY <1>2 DEF Load
    <3>5. log' \in Seq({}) /\ Len(log') = 0
      BY <3>1, <3>2
    <3>6. Len(log') <= MaxSignals /\ Len(curve') = Len(log') + 1 /\ curve'[1] = config'.capital
      BY <3>1, <3>2, <3>3, <3>5
    <3>7. lost' \in Int /\ orderly' \in BOOLEAN
      BY <3>2, Zenon
    <3> HIDE DEF CsvTypes
    <3>. QED BY <3>3, <3>4, <3>5, <3>6, <3>7 DEF SignalTypes, Replaying
  <2>3. BrokerOK(broker, fees)' /\ InCover'
    <3>1. config.capital \in Int
      BY CsvAssumption DEF RequestTypes
    <3>2. fees' = 0 /\ broker' = [NoBroker EXCEPT !.balance = config.capital]
      BY <1>2 DEF Load, SignalTypes, Replaying
    <3>3. /\ BrokerOK([NoBroker EXCEPT !.balance = config.capital], 0)
          /\ config.capital >= 0 => Funded([NoBroker EXCEPT !.balance = config.capital], 0)
      BY <3>1, NoBrokerOK
    <3>4. config' = config
      BY <1>2 DEF Load
    <3>. QED BY <3>2, <3>3, <3>4 DEF InCover, InOrder
  <2>. QED BY <2>1, <2>2, <2>3
<1>3. CASE LoadFails
  BY <1>3, OverTypes DEF LoadFails
<1>4. CASE Signal
  <2>1. RequestTypes'
    BY <1>4, SignalIs DEF RequestTypes
  <2>2. SignalTypes'
    <3>1. PICK e : log' = Append(log, e)
      BY <1>4, SignalIs
    <3>2. PICK v : curve' = Append(curve, v)
      BY <1>4, SignalIs
    <3>3. /\ \E S : log' \in Seq(S)
          /\ Len(log) \in Nat /\ Len(log') = Len(log) + 1
      BY <3>1, Appended DEF SignalTypes
    <3>4. /\ \E S : curve' \in Seq(S)
          /\ Len(curve) \in Nat /\ Len(curve') = Len(curve) + 1
          /\ \A i \in 1 .. Len(curve) : curve'[i] = curve[i]
      <4>1. /\ \E S : Append(curve, v) \in Seq(S)
            /\ Len(curve) \in Nat /\ Len(Append(curve, v)) = Len(curve) + 1
            /\ \A i \in 1 .. Len(curve) : Append(curve, v)[i] = curve[i]
        <5>1. \E S : curve \in Seq(S)
          BY DEF SignalTypes
        <5> HIDE DEF CsvTypes
        <5>. QED BY <5>1, Appended, Zenon
      <4>. QED BY <3>2, <4>1
    <3>5. phase = "replay" /\ phase' = "replay" /\ config' = config /\ Len(log) < MaxSignals
      BY <1>4, SignalIs
    <3>6. MaxSignals \in Nat
      BY CsvAssumption
    <3>7. 1 \in 1 .. Len(curve) /\ curve[1] = config.capital /\ Len(curve) = Len(log) + 1
      BY <3>3, <3>5 DEF SignalTypes, Replaying
    <3>8. lost' \in Int /\ orderly' \in BOOLEAN
      <4>1. PICK o \in Signals : /\ lost' = lost + Rounding(broker, o)
                                 /\ orderly' = (orderly /\ Orderly(o)) /\ ~Undoes(broker, o)
        BY <1>4, SignalIs
      <4>2. OrderOK(o)
        BY CostIsNumber DEF RequestTypes
      <4>3. Rounding(broker, o) \in Int
        BY <4>1, <4>2, RoundingIs
      <4>4. lost' \in Int
        BY <4>1, <4>3 DEF SignalTypes
      <4>5. orderly' \in BOOLEAN
        BY <4>1, Zenon
      <4>. QED BY <4>4, <4>5
    <3>. QED BY <3>3, <3>4, <3>5, <3>6, <3>7, <3>8 DEF SignalTypes, Replaying
  <2>3. BrokerOK(broker, fees)' /\ InCover'
    <3>1. PICK o \in Signals : /\ broker' = PlaceOrder(broker, o)
                               /\ fees' = fees + Charged(broker, o)
                               /\ orderly' = (orderly /\ Orderly(o)) /\ ~Undoes(broker, o)
      BY <1>4, SignalIs
    <3>2. OrderOK(o)
      BY CostIsNumber DEF RequestTypes
    <3>3. /\ BrokerOK(PlaceOrder(broker, o), fees + Charged(broker, o))
          /\ Funded(broker, fees) /\ Orderly(o) /\ config.commission >= 0
                => Funded(PlaceOrder(broker, o), fees + Charged(broker, o))
      BY <3>1, <3>2, PlaceOrderOK
    <3>4. config' = config /\ Replaying
      BY <1>4, SignalIs DEF Replaying
    <3>5. InOrder' => InOrder /\ Orderly(o) /\ config.commission >= 0
      BY <3>1, <3>4 DEF InOrder
    <3>6. InCover'
      BY <3>1, <3>3, <3>4, <3>5 DEF InCover
    <3>. QED BY <3>1, <3>3, <3>6
  <2>. QED BY <2>1, <2>2, <2>3
<1>5. CASE BadSignal
  BY <1>5 DEF BadSignal, RequestTypes, SignalTypes, Replaying, InCover, InOrder
<1>6. CASE End
  BY <1>6 DEF End, RequestTypes, SignalTypes, Replaying, InCover, InOrder
<1>7. CASE Commit
  <2>1. CASE row = "queued"
    <3>1. /\ row' = outcome /\ phase = "commit" /\ phase' = "saved"
          /\ metrics' = IF outcome = "completed" THEN Metrics ELSE NoResult
          /\ UNCHANGED <<config, outcome, broker, log, curve, fees, lost, orderly>>
      BY <1>7, <2>1 DEF Commit
    <3>2. DOMAIN Metrics = DOMAIN NoResult
      BY DEF Metrics, NoResult
    <3>3. RequestTypes'
      BY <3>1, <3>2 DEF RequestTypes
    <3>4. SignalTypes' /\ BrokerOK(broker, fees)' /\ InCover'
      BY <3>1 DEF SignalTypes, Replaying, InCover, InOrder
    <3>. QED BY <3>3, <3>4
  <2>2. CASE row # "queued"
    BY <1>7, <2>2, OverTypes DEF Commit
  <2>. QED BY <2>1, <2>2
<1>8. CASE Respond
  BY <1>8, OverTypes DEF Respond
<1>9. CASE Delete
  BY <1>9 DEF Delete, RequestTypes, SignalTypes, Replaying, InCover, InOrder
<1>10. CASE Crash
  BY <1>10, OverTypes DEF Crash
<1>11. CASE UNCHANGED csvVars
  BY <1>11 DEF csvVars, RequestTypes, SignalTypes, Replaying, InCover, InOrder
<1>. QED BY <1>1, <1>2, <1>3, <1>4, <1>5, <1>6, <1>7, <1>8, <1>9, <1>10, <1>11 DEF CsvNext

LEMMA CsvTypesImplyTypeOK ==
  ASSUME CsvTypes
  PROVE  CsvTypeOK
<1>1. Len(curve) = 0 \/ Len(curve) = Len(log) + 1
  BY DEF CsvTypes, SignalTypes
<1>2. InOrder => Funded(broker, fees)
  <2>1. CASE Replaying
    BY <2>1 DEF CsvTypes, InCover
  <2>2. CASE ~Replaying
    <3>1. broker = NoBroker /\ fees = 0
      BY <2>2 DEF CsvTypes, SignalTypes
    <3>2. Funded(NoBroker, 0)
      BY EmptyBroker
    <3>. QED BY <3>1, <3>2, Zenon
  <2>. QED BY <2>1, <2>2
<1>3. \A i \in DOMAIN broker.positions :
          LET p == broker.positions[i]
          IN  /\ p \in Position /\ (~IsOpen(p) => p.quantity = 0)
              /\ InOrder => p.quantity >= 0 /\ (IsOpen(p) => p.quantity # 0)
  BY <1>2 DEF CsvTypes, BrokerOK, PositionOK, Funded, Full
<1>. QED BY <1>1, <1>2, <1>3 DEF CsvTypes, RequestTypes, SignalTypes, BrokerOK, Funded, CsvTypeOK

(* Types, and what they say of positions and of the balance.               *)
THEOREM CsvTypeCorrect == CsvSpec => []CsvTypeOK
<1>1. CsvInit => CsvTypes
  BY CsvTypesInit
<1>2. CsvTypes /\ [CsvNext]_csvVars => CsvTypes'
  BY CsvTypesNext
<1>3. CsvTypes => CsvTypeOK
  BY CsvTypesImplyTypeOK
<1>. QED BY <1>1, <1>2, <1>3, PTL DEF CsvSpec

-----------------------------------------------------------------------------
(* Folds.                                                                  *)

(* Induction over the subsets of a finite set, with the subsets of which a *)
(* fact holds as a set.                                                    *)
LEMMA SubsetInduction ==
  ASSUME NEW S, IsFiniteSet(S), NEW P,
         \A s \in SUBSET S : (\A x \in s : s \ {x} \in P) => s \in P
  PROVE  \A s \in SUBSET S : s \in P
<1> DEFINE T == (SUBSET S) \ P
<1>1. SUFFICES ASSUME T # {} PROVE FALSE
  OBVIOUS
<1>2. IsWellFoundedOn(StrictSubsetOrdering(S), SUBSET S)
  BY FS_StrictSubsetOrderingWellFounded, FS_FiniteSubsetsOfFinite
<1>3. T \subseteq SUBSET S
  OBVIOUS
<1>4. PICK s \in T : \A u \in T : ~(<<u, s>> \in StrictSubsetOrdering(S))
  <2> HIDE DEF T
  <2>. QED BY <1>1, <1>2, <1>3, WFMin
<1>5. \A x \in s : s \ {x} \in P
  <2>1. SUFFICES ASSUME NEW x \in s, s \ {x} \in T PROVE FALSE
    OBVIOUS
  <2>2. <<s \ {x}, s>> \in StrictSubsetOrdering(S)
    BY DEF StrictSubsetOrdering
  <2>. QED BY <1>4, <2>1, <2>2
<1>. QED BY <1>5

LEMMA MaxIs ==
  ASSUME NEW S, S \subseteq Int, NEW m \in S, \A x \in S : x <= m
  PROVE  Max(S) = m
<1>1. Max(S) \in S /\ \A x \in S : Max(S) >= x
  BY DEF Max
<1>2. Max(S) \in Int /\ m \in Int
  BY <1>1
<1>. QED BY <1>1, <1>2

(* What a later point loses on an earlier one is the more, the higher that *)
(* one was.                                                                *)
LEMMA DropMonotone ==
  ASSUME NEW f \in Nat, f # 0, NEW g \in Nat, f <= g, NEW t \in Nat
  PROVE  Drop(f, t) \in Int /\ Drop(g, t) \in Int /\ Drop(f, t) <= Drop(g, t)
<1> DEFINE a == Drop(f, t)
           b == Drop(g, t)
<1>1. g # 0
  OBVIOUS
<1>2. ASSUME NEW n \in Nat, n # 0, NEW k \in Int
      PROVE  k \div n \in Int /\ (k \div n) * n <= k /\ k < ((k \div n) + 1) * n
  BY <1>2
<1>3. a \in Int /\ a * f <= (f - t) * 100
  BY <1>2 DEF Drop, Ratio
<1>4. b \in Int /\ (g - t) * 100 < (b + 1) * g
  BY <1>1, <1>2 DEF Drop, Ratio
<1> HIDE DEF a, b
<1>5. ASSUME b < a PROVE FALSE
  <2>1. (b + 1) * g <= a * g
    BY <1>3, <1>4, <1>5
  <2>2. (g - t) * 100 < a * g
    BY <1>3, <1>4, <2>1
  <2>3. a <= 100
    <3>1. SUFFICES ASSUME a >= 101 PROVE FALSE
      BY <1>3
    <3>2. a * f >= 101 * f
      BY <1>3, <3>1
    <3>. QED BY <1>3, <3>2
  <2>4. (100 - a) * f <= (100 - a) * g
    BY <1>3, <2>3
  <2>5. (100 - a) * f = 100 * f - a * f /\ (100 - a) * g = 100 * g - a * g
    BY <1>3
  <2>6. a * f \in Int /\ a * g \in Int
    BY <1>3
  <2>. QED BY <1>3, <2>2, <2>4, <2>5, <2>6
<1>. QED BY <1>3, <1>4, <1>5 DEF a, b

(* What the pass over the curve c has found at a set s of its points: the  *)
(* peak, and the worst loss between two points.                            *)
Points(s) == s \cup {1}

Found(c, s, r) ==
    /\ DOMAIN r = {"peak", "worst"} /\ r.peak \in Nat /\ r.worst \in Int
    /\ r = [peak |-> r.peak, worst |-> r.worst]
    /\ \E i \in Points(s) : r.peak = c[i]
    /\ \A i \in Points(s) : c[i] <= r.peak
    /\ r.worst = 0 \/ \E i \in Points(s), j \in s : i < j /\ r.worst = Drop(c[i], c[j])
    /\ r.worst >= 0
    /\ \A i \in Points(s), j \in s : i < j => Drop(c[i], c[j]) <= r.worst

Advance(r, e) ==
    LET p == Peak(r.peak, e)
    IN  [peak |-> p, worst |-> Max({r.worst, Drop(p, e)})]

(* A curve that never falls below nothing, and reaches it at most at its   *)
(* end.                                                                    *)
Curve(c, n) ==
    /\ n \in Nat /\ n # 0 /\ c \in [1 .. n -> Nat]
    /\ \A i \in 1 .. n : i < n \/ i = 1 => c[i] # 0

LEMMA MaxOfTwo ==
  ASSUME NEW x \in Int, NEW y \in Int
  PROVE  Max({x, y}) = IF x >= y THEN x ELSE y
<1>1. CASE x >= y
  <2>1. \A z \in {x, y} : z <= x
    BY <1>1
  <2>. QED BY <1>1, <2>1, MaxIs
<1>2. CASE ~(x >= y)
  <2>1. \A z \in {x, y} : z <= y
    BY <1>2
  <2>. QED BY <1>2, <2>1, MaxIs
<1>. QED BY <1>1, <1>2

(* One more point.                                                         *)
LEMMA AdvanceFinds ==
  ASSUME NEW n, NEW c, Curve(c, n), NEW s \in SUBSET (1 .. n), NEW x \in s,
         \A y \in s : y <= x, NEW r, Found(c, s \ {x}, r)
  PROVE  Found(c, s, Advance(r, c[x]))
<1> DEFINE t == s \ {x}
           p == Peak(r.peak, c[x])
           d == Drop(p, c[x])
           w == Max({r.worst, d})
<1>1. /\ n \in Nat /\ n # 0 /\ x \in 1 .. n /\ c[x] \in Nat /\ \A i \in 1 .. n : c[i] \in Nat
      /\ \A i \in 1 .. n : i < n \/ i = 1 => c[i] # 0
      /\ Points(s) \subseteq 1 .. n /\ Points(t) \subseteq 1 .. n /\ 1 \in Points(t)
      /\ Points(s) = Points(t) \cup {x}
  BY DEF Curve, Points
<1>2. /\ r.peak \in Nat /\ r.worst \in Int /\ r.worst >= 0
      /\ \E i \in Points(t) : r.peak = c[i]
      /\ \A i \in Points(t) : c[i] <= r.peak
      /\ r.worst = 0 \/ \E i \in Points(t), j \in t : i < j /\ r.worst = Drop(c[i], c[j])
      /\ \A i \in Points(t), j \in t : i < j => Drop(c[i], c[j]) <= r.worst
  BY DEF Found
<1>3. r.peak # 0
  <2>1. c[1] # 0 /\ c[1] \in Nat /\ c[1] <= r.peak
    BY <1>1, <1>2
  <2>. QED BY <1>2, <2>1
<1>4. p \in Nat /\ p # 0 /\ p >= r.peak /\ p >= c[x] /\ (p = r.peak \/ (p = c[x] /\ c[x] # 0))
  BY <1>1, <1>2, <1>3 DEF Peak
<1>5. d \in Int
  <2> HIDE DEF p
  <2>. QED BY <1>1, <1>4, DropMonotone
<1>6. w = (IF r.worst >= d THEN r.worst ELSE d) /\ w \in Int /\ w >= r.worst /\ w >= d
  <2> HIDE DEF d
  <2>1. w = IF r.worst >= d THEN r.worst ELSE d
    BY <1>2, <1>5, MaxOfTwo
  <2>. QED BY <1>2, <1>5, <2>1
<1>7. \E i \in Points(s) : p = c[i]
  <2> HIDE DEF p
  <2>. QED BY <1>1, <1>2, <1>4
<1>8. \A i \in Points(s) : c[i] <= p
  <2> HIDE DEF p
  <2>. QED BY <1>1, <1>2, <1>4
<1>9. ASSUME NEW i \in Points(s), NEW j \in s, i < j
      PROVE  Drop(c[i], c[j]) <= w
  <2>1. i \in Points(t) /\ i \in 1 .. n /\ j \in 1 .. n
    <3>1. i # x
      BY <1>1, <1>9
    <3>. QED BY <1>1, <3>1
  <2>2. c[i] \in Nat /\ c[i] # 0 /\ c[i] <= p
    BY <1>1, <1>8, <1>9, <2>1
  <2>3. CASE j = x
    <3>1. Drop(c[i], c[x]) \in Int /\ Drop(c[i], c[x]) <= d
      <4> HIDE DEF p
      <4>. QED BY <1>1, <1>4, <2>2, DropMonotone
    <3> HIDE DEF d, w
    <3>. QED BY <1>5, <1>6, <2>3, <3>1
  <2>4. CASE j # x
    <3>1. Drop(c[i], c[j]) <= r.worst /\ Drop(c[i], c[j]) \in Int
      <4>1. c[j] \in Nat
        BY <1>1, <2>1
      <4>. QED BY <1>2, <1>9, <2>1, <2>2, <2>4, <4>1, DropMonotone
    <3> HIDE DEF w
    <3>. QED BY <1>2, <1>6, <3>1
  <2>. QED BY <2>3, <2>4
<1>10. w = 0 \/ \E i \in Points(s), j \in s : i < j /\ w = Drop(c[i], c[j])
  <2>1. CASE r.worst >= d
    <3>1. w = r.worst
      BY <1>6, <2>1
    <3> HIDE DEF w
    <3>. QED BY <1>1, <1>2, <3>1
  <2>2. CASE ~(r.worst >= d)
    <3>1. w = d /\ d > 0
      <4> HIDE DEF w, d
      <4>. QED BY <1>2, <1>5, <1>6, <2>2
    <3>2. p # c[x]
      <4>1. SUFFICES ASSUME p = c[x] PROVE FALSE
        OBVIOUS
      <4> HIDE DEF p
      <4>2. d = 0 \div p
        BY <1>1, <1>4, <4>1 DEF Drop, Ratio
      <4>3. d = 0
        BY <1>4, <4>2
      <4>. QED BY <3>1, <4>3
    <3> HIDE DEF p
    <3>3. PICK i \in Points(t) : p = c[i]
      BY <1>2, <1>4, <3>2
    <3>4. i # x /\ i < x
      BY <1>1, <3>2, <3>3 DEF Points
    <3> HIDE DEF w
    <3>. QED BY <1>1, <3>1, <3>3, <3>4
  <2>. QED BY <2>1, <2>2
<1>11. Advance(r, c[x]) = [peak |-> p, worst |-> w]
  BY DEF Advance
<1>12. w >= 0
  <2> HIDE DEF w, d
  <2>. QED BY <1>2, <1>6
<1> HIDE DEF p, w
<1>. QED BY <1>4, <1>6, <1>7, <1>8, <1>9, <1>10, <1>11, <1>12 DEF Found

LEMMA FoundOnce ==
  ASSUME NEW n, NEW c, Curve(c, n), NEW s \in SUBSET (1 .. n),
         NEW r, Found(c, s, r), NEW q, Found(c, s, q)
  PROVE  r = q
<1>1. \A i \in Points(s) : c[i] \in Nat
  BY DEF Curve, Points
<1>2. r.peak = q.peak
  BY <1>1 DEF Found
<1>3. r.worst = q.worst
  BY <1>1 DEF Found
<1>. QED BY <1>2, <1>3 DEF Found

Start(c) == [peak |-> Head(c), worst |-> 0]

(* The pass as a function of the points passed, which a fold chooses.      *)
Pass(c, g) ==
    g = [s \in SUBSET DOMAIN c |->
            IF s = {} THEN Start(c) ELSE Advance(g[s \ {Max(s)}], c[Max(s)])]

LEMMA LastPoint ==
  ASSUME NEW n \in Nat, NEW s \in SUBSET (1 .. n), s # {}
  PROVE  Max(s) \in s /\ \A y \in s : y <= Max(s)
<1> DEFINE B == {k \in Nat : \A y \in s : y <= k}
<1>1. n \in B
  OBVIOUS
<1>2. PICK m \in B : \A k \in B : m <= k
  <2>1. B \subseteq Nat /\ B # {}
    BY <1>1
  <2> HIDE DEF B
  <2>. QED BY <2>1, LeastNatural
<1>3. m \in s
  <2>1. SUFFICES ASSUME m \notin s PROVE FALSE
    OBVIOUS
  <2>2. m > 0
    <3>1. PICK y : y \in s
      OBVIOUS
    <3>2. y \in 1 .. n /\ y <= m
      BY <1>2, <3>1
    <3>. QED BY <1>2, <3>2
  <2>3. m - 1 \in B
    BY <1>2, <2>1, <2>2
  <2>. QED BY <1>2, <2>3
<1>4. s \subseteq Int /\ \A y \in s : y <= m
  BY <1>2
<1>5. Max(s) = m
  BY <1>3, <1>4, MaxIs
<1>. QED BY <1>3, <1>4, <1>5

LEMMA StartFound ==
  ASSUME NEW n, NEW c, Curve(c, n), c \in Seq(Nat)
  PROVE  Found(c, {}, Start(c))
<1>1. Head(c) = c[1] /\ c[1] \in Nat
  <2>1. Len(c) = n
    BY LenProperties DEF Curve
  <2>. QED BY <2>1 DEF Curve
<1>2. Points({}) = {1}
  BY DEF Points
<1>. QED BY <1>1, <1>2 DEF Found, Start

LEMMA AllFound ==
  ASSUME NEW n, NEW c, Curve(c, n), c \in Seq(Nat)
  PROVE  \A s \in SUBSET (1 .. n) : \E r : Found(c, s, r)
<1> DEFINE P == {s \in SUBSET (1 .. n) : \E r : Found(c, s, r)}
<1>0. n \in Nat /\ IsFiniteSet(1 .. n)
  BY FS_Interval DEF Curve
<1>1. ASSUME NEW s \in SUBSET (1 .. n), \A x \in s : s \ {x} \in P
      PROVE  s \in P
  <2>1. CASE s = {}
    BY <2>1, StartFound
  <2>2. CASE s # {}
    <3>1. Max(s) \in s /\ \A y \in s : y <= Max(s)
      BY <1>0, <2>2, LastPoint
    <3>2. PICK r : Found(c, s \ {Max(s)}, r)
      BY <1>1, <3>1
    <3>. QED BY <3>1, <3>2, AdvanceFinds
  <2>. QED BY <2>1, <2>2
<1>2. \A s \in SUBSET (1 .. n) : s \in P
  <2> HIDE DEF P
  <2>. QED BY <1>0, <1>1, SubsetInduction
<1>. QED BY <1>2

LEMMA PassExists ==
  ASSUME NEW n, NEW c, Curve(c, n), c \in Seq(Nat)
  PROVE  \E g : Pass(c, g)
<1> DEFINE g == [s \in SUBSET (1 .. n) |-> CHOOSE r : Found(c, s, r)]
<1>0. n \in Nat /\ DOMAIN c = 1 .. n
  BY DEF Curve
<1>1. ASSUME NEW s \in SUBSET (1 .. n)
      PROVE  Found(c, s, g[s])
  <2>1. \E r : Found(c, s, r)
    BY AllFound
  <2>2. g[s] = CHOOSE r : Found(c, s, r)
    OBVIOUS
  <2>. QED BY <2>1, <2>2
<1>2. ASSUME NEW s \in SUBSET (1 .. n)
      PROVE  g[s] = IF s = {} THEN Start(c)
                    ELSE Advance(g[s \ {Max(s)}], c[Max(s)])
  <2> HIDE DEF g
  <2>1. CASE s = {}
    BY <1>1, <2>1, StartFound, FoundOnce
  <2>2. CASE s # {}
    <3>1. Max(s) \in s /\ \A y \in s : y <= Max(s)
      BY <1>0, <2>2, LastPoint
    <3>2. Found(c, s \ {Max(s)}, g[s \ {Max(s)}])
      BY <1>1
    <3>3. Found(c, s, Advance(g[s \ {Max(s)}], c[Max(s)]))
      BY <3>1, <3>2, AdvanceFinds
    <3>4. Found(c, s, g[s])
      BY <1>1
    <3>5. g[s] = Advance(g[s \ {Max(s)}], c[Max(s)])
      BY <3>3, <3>4, FoundOnce
    <3>. QED BY <2>2, <3>5
  <2>. QED BY <2>1, <2>2
<1>3. g = [s \in SUBSET DOMAIN c |-> g[s]]
  <2>1. g = [s \in SUBSET (1 .. n) |-> g[s]]
    OBVIOUS
  <2> HIDE DEF g
  <2>. QED BY <1>0, <2>1
<1>4. Pass(c, g)
  <2> HIDE DEF g
  <2>. QED BY <1>0, <1>2, <1>3 DEF Pass
<1>. QED BY <1>4

LEMMA PassFinds ==
  ASSUME NEW n, NEW c, Curve(c, n), c \in Seq(Nat), NEW g, Pass(c, g)
  PROVE  \A s \in SUBSET (1 .. n) : Found(c, s, g[s])
<1> DEFINE P == {s \in SUBSET (1 .. n) : Found(c, s, g[s])}
<1>0. n \in Nat /\ IsFiniteSet(1 .. n) /\ DOMAIN c = 1 .. n
  BY FS_Interval DEF Curve
<1>1. ASSUME NEW s \in SUBSET (1 .. n), \A x \in s : s \ {x} \in P
      PROVE  s \in P
  <2>0. g[s] = IF s = {} THEN Start(c)
               ELSE Advance(g[s \ {Max(s)}], c[Max(s)])
    BY <1>0, Zenon DEF Pass
  <2>1. CASE s = {}
    BY <2>0, <2>1, StartFound
  <2>2. CASE s # {}
    <3>1. Max(s) \in s /\ \A y \in s : y <= Max(s)
      BY <1>0, <2>2, LastPoint
    <3>2. Found(c, s \ {Max(s)}, g[s \ {Max(s)}])
      BY <1>1, <3>1
    <3>3. Found(c, s, Advance(g[s \ {Max(s)}], c[Max(s)]))
      BY <3>1, <3>2, AdvanceFinds
    <3>. QED BY <2>0, <2>2, <3>3
  <2>. QED BY <2>1, <2>2
<1>2. \A s \in SUBSET (1 .. n) : s \in P
  <2> HIDE DEF P
  <2>. QED BY <1>0, <1>1, SubsetInduction
<1>. QED BY <1>2

(* _compute_max_drawdown finds the worst loss between two points.          *)
LEMMA DrawdownFound ==
  ASSUME NEW n, NEW c, Curve(c, n), c \in Seq(Nat)
  PROVE  \E r : Found(c, 1 .. n, r) /\ MaxDrawdown(c) = r.worst
<1> DEFINE F == CHOOSE g : Pass(c, g)
<1>1. Pass(c, F)
  BY PassExists
<1>2. MaxDrawdown(c) = F[DOMAIN c].worst
  BY DEF MaxDrawdown, FoldLeft, MapThenFoldSet, Pass, Advance, Start
<1>3. DOMAIN c = 1 .. n
  BY DEF Curve
<1> HIDE DEF F
<1>4. Found(c, 1 .. n, F[1 .. n])
  BY <1>1, PassFinds
<1>. QED BY <1>2, <1>3, <1>4

LEMMA DrawdownIs ==
  ASSUME NEW n, NEW c, Curve(c, n), c \in Seq(Nat)
  PROVE  LET Later == {p \in (DOMAIN c) \X (DOMAIN c) : p[1] < p[2]}
         IN  MaxDrawdown(c) = Max({0} \cup {Drop(c[p[1]], c[p[2]]) : p \in Later})
<1> DEFINE Later == {p \in (DOMAIN c) \X (DOMAIN c) : p[1] < p[2]}
           S == {0} \cup {Drop(c[p[1]], c[p[2]]) : p \in Later}
<1>0. DOMAIN c = 1 .. n /\ n \in Nat /\ n # 0 /\ Points(1 .. n) = 1 .. n
  BY DEF Curve, Points
<1>1. PICK r : Found(c, 1 .. n, r) /\ MaxDrawdown(c) = r.worst
  BY DrawdownFound
<1>2. \A i, j \in 1 .. n : i < j => Drop(c[i], c[j]) \in S
  <2>1. \A i, j \in 1 .. n : i < j => <<i, j>> \in Later
    BY <1>0
  <2>2. \A i, j : <<i, j>>[1] = i /\ <<i, j>>[2] = j
    OBVIOUS
  <2> HIDE DEF Later
  <2>. QED BY <2>1, <2>2
<1>3. \A x \in S : x = 0 \/ \E i, j \in 1 .. n : i < j /\ x = Drop(c[i], c[j])
  BY <1>0
<1>4. \A i, j \in 1 .. n : i < j => Drop(c[i], c[j]) \in Int
  <2>1. SUFFICES ASSUME NEW i \in 1 .. n, NEW j \in 1 .. n, i < j
                 PROVE  Drop(c[i], c[j]) \in Int
    OBVIOUS
  <2>2. c[i] \in Nat /\ c[i] # 0 /\ c[j] \in Nat
    BY <1>0, <2>1 DEF Curve
  <2>3. c[i] <= c[i]
    BY <2>2
  <2>. QED BY <2>2, <2>3, DropMonotone
<1>5. 0 \in S
  OBVIOUS
<1> HIDE DEF S
<1>6. S \subseteq Int
  BY <1>3, <1>4
<1>7. r.worst \in S /\ \A x \in S : x <= r.worst
  BY <1>0, <1>1, <1>2, <1>3, <1>5 DEF Found
<1>8. Max(S) = r.worst
  BY <1>6, <1>7, MaxIs
<1>. QED BY <1>1, <1>8 DEF S

-----------------------------------------------------------------------------
(* A result is computed of a curve that no division fails on, and is there *)
(* as long as its curve is.                                                *)
ResultOK ==
    /\ phase = "commit" /\ outcome = "completed" => Divides(curve)
    /\ phase = "saved" /\ row = "completed" =>
          /\ Divides(curve)
          /\ Len(curve) > 1 => metrics.drawdown = MaxDrawdown(curve)

CsvInv == CsvTypes /\ ResultOK

LEMMA ResultNext ==
  ASSUME CsvInv, [CsvNext]_csvVars, CsvTypes'
  PROVE  ResultOK'
<1> USE DEF CsvInv
<1>0. ASSUME UNCHANGED <<config, curve>>
      PROVE  Divides(curve)' <=> Divides(curve)
  BY <1>0 DEF Divides
<1>1. CASE Create
  BY <1>1 DEF Create, ResultOK
<1>2. CASE Load
  BY <1>2 DEF Load, ResultOK
<1>3. CASE Return
  BY <1>3, OverIs DEF ResultOK
<1>4. CASE Signal
  BY <1>4, SignalIs DEF ResultOK
<1>5. CASE BadSignal
  BY <1>5 DEF BadSignal, ResultOK
<1>6. CASE End
  BY <1>0, <1>6 DEF End, ResultOK
<1>7. CASE row = "queued" /\ Commit
  <2>1. /\ row' = outcome /\ phase = "commit" /\ phase' = "saved"
        /\ metrics' = IF outcome = "completed" THEN Metrics ELSE NoResult
        /\ UNCHANGED <<config, outcome, broker, log, curve, fees, lost, orderly>>
    BY <1>7 DEF Commit
  <2>2. Len(curve) > 1 => Metrics.drawdown = MaxDrawdown(curve)
    <3>1. Metrics.drawdown = IF Len(curve) < 2 THEN 0 ELSE MaxDrawdown(curve)
      BY DEF Metrics
    <3>2. Len(curve) \in Nat
      BY Appended DEF CsvTypes, SignalTypes
    <3>. QED BY <3>1, <3>2
  <2>3. CASE outcome = "completed"
    <3>1. Divides(curve)
      BY <2>1, <2>3 DEF ResultOK
    <3>2. metrics'.drawdown = Metrics.drawdown
      BY <2>1, <2>3
    <3>3. MaxDrawdown(curve)' = MaxDrawdown(curve)
      BY <2>1
    <3>. QED BY <1>0, <2>1, <2>2, <3>1, <3>2, <3>3 DEF ResultOK
  <2>4. CASE outcome # "completed"
    BY <2>1, <2>4 DEF ResultOK
  <2>. QED BY <2>3, <2>4
<1>8. CASE Delete
  BY <1>0, <1>8 DEF Delete, ResultOK
<1>9. CASE UNCHANGED csvVars
  <2>1. UNCHANGED <<row, config, metrics, phase, outcome, curve>>
    BY <1>9 DEF csvVars
  <2>2. MaxDrawdown(curve)' = MaxDrawdown(curve)
    BY <2>1
  <2>. QED BY <1>0, <2>1, <2>2 DEF ResultOK
<1>10. LoadFails \/ Respond \/ Crash \/ (row # "queued" /\ Commit) => Return
  BY DEF LoadFails, Respond, Crash, Commit
<1>. QED BY <1>1, <1>2, <1>3, <1>4, <1>5, <1>6, <1>7, <1>8, <1>9, <1>10 DEF CsvNext

LEMMA CsvInvImpliesDrawdown ==
  ASSUME CsvInv
  PROVE  DrawdownIsWorst
<1>1. SUFFICES ASSUME phase = "saved", row = "completed", Len(curve) > 1, curve \in Seq(Nat)
               PROVE  DrawdownIsWorst
  BY DEF DrawdownIsWorst
<1>2. metrics.drawdown = MaxDrawdown(curve) /\ Divides(curve)
  BY <1>1 DEF CsvInv, ResultOK
<1>3. Curve(curve, Len(curve))
  <2>1. curve \in [1 .. Len(curve) -> Nat] /\ Len(curve) \in Nat
    BY <1>1, LenProperties
  <2>2. config.capital # 0 /\ \A i \in 1 .. Len(curve) - 1 : curve[i] # 0
    BY <1>1, <1>2, <2>1 DEF Divides
  <2>3. curve[1] = config.capital
    BY <1>1 DEF CsvInv, CsvTypes, SignalTypes, Replaying
  <2>. QED BY <1>1, <2>1, <2>2, <2>3 DEF Curve
<1>. QED BY <1>1, <1>2, <1>3, DrawdownIs DEF DrawdownIsWorst

(* The drawdown of a result is the worst loss between two points of its    *)
(* curve.                                                                  *)
THEOREM CsvDrawdown == CsvSpec => []DrawdownIsWorst
<1>1. CsvInit => CsvInv
  BY CsvTypesInit DEF CsvInv, ResultOK, CsvInit
<1>2. CsvInv /\ [CsvNext]_csvVars => CsvInv'
  BY CsvTypesNext, ResultNext DEF CsvInv
<1>3. CsvInv => DrawdownIsWorst
  BY CsvInvImpliesDrawdown
<1>. QED BY <1>1, <1>2, <1>3, PTL DEF CsvSpec

-----------------------------------------------------------------------------
(* Sums.                                                                   *)

(* T is the sum of f over each of the subsets of D.                        *)
Additive(T, f, D) ==
    /\ T \in [SUBSET D -> Int] /\ T[{}] = 0
    /\ \A s \in SUBSET D : \A x \in s : T[s] = T[s \ {x}] + f[x]

LEMMA AdditiveExists ==
  ASSUME NEW D, IsFiniteSet(D), NEW f \in [D -> Int]
  PROVE  \E T : Additive(T, f, D)
<1> DEFINE P == {s \in SUBSET D : \E T : Additive(T, f, s)}
<1>1. ASSUME NEW s \in SUBSET D, \A x \in s : s \ {x} \in P
      PROVE  s \in P
  <2>1. CASE s = {}
    <3> DEFINE T == [u \in SUBSET s |-> 0]
    <3>1. Additive(T, f, s)
      BY <2>1 DEF Additive
    <3>. QED BY <3>1
  <2>2. CASE s # {}
    <3>1. PICK x : x \in s
      BY <2>2
    <3>2. PICK T : Additive(T, f, s \ {x})
      BY <1>1, <3>1
    <3> DEFINE U == [u \in SUBSET s |-> IF x \in u THEN T[u \ {x}] + f[x] ELSE T[u]]
    <3>3. \A u \in SUBSET s : u \ {x} \in SUBSET (s \ {x}) /\ (x \notin u => u \in SUBSET (s \ {x}))
      OBVIOUS
    <3>4. \A u \in SUBSET (s \ {x}) : T[u] \in Int
      BY <3>2 DEF Additive
    <3>5. \A y \in s : f[y] \in Int
      BY <1>1
    <3>6. \A u \in SUBSET s : U[u] = IF x \in u THEN T[u \ {x}] + f[x] ELSE T[u]
      OBVIOUS
    <3>7. U \in [SUBSET s -> Int]
      BY <3>1, <3>3, <3>4, <3>5
    <3>8. U[{}] = 0
      BY <3>2, <3>6 DEF Additive
    <3> HIDE DEF U
    <3>9. ASSUME NEW u \in SUBSET s, NEW y \in u
          PROVE  U[u] = U[u \ {y}] + f[y]
      <4>0. u \ {y} \in SUBSET s /\ f[y] \in Int /\ f[x] \in Int
        BY <3>1, <3>5
      <4>1. CASE y = x
        <5>1. U[u \ {x}] = T[u \ {x}]
          BY <3>6, <4>0
        <5>. QED BY <3>6, <3>9, <4>1, <5>1
      <4>2. CASE y # x /\ x \in u
        <5>1. U[u] = T[u \ {x}] + f[x]
          BY <3>6, <4>2
        <5>2. U[u \ {y}] = T[(u \ {y}) \ {x}] + f[x]
          BY <3>6, <4>0, <4>2
        <5>3. T[u \ {x}] = T[(u \ {x}) \ {y}] + f[y]
          BY <3>2, <3>3, <3>9, <4>2 DEF Additive
        <5>4. (u \ {x}) \ {y} = (u \ {y}) \ {x} /\ (u \ {x}) \ {y} \in SUBSET (s \ {x})
          OBVIOUS
        <5>5. T[(u \ {y}) \ {x}] \in Int
          BY <3>4, <5>4
        <5>6. T[(u \ {x}) \ {y}] = T[(u \ {y}) \ {x}]
          BY <5>4
        <5>. QED BY <4>0, <5>1, <5>2, <5>3, <5>5, <5>6
      <4>3. CASE x \notin u
        <5>1. U[u] = T[u] /\ U[u \ {y}] = T[u \ {y}]
          BY <3>6, <4>0, <4>3
        <5>2. T[u] = T[u \ {y}] + f[y]
          BY <3>2, <3>3, <3>9, <4>3 DEF Additive
        <5>. QED BY <5>1, <5>2
      <4>. QED BY <4>1, <4>2, <4>3
    <3>10. Additive(U, f, s)
      BY <3>7, <3>8, <3>9 DEF Additive
    <3>. QED BY <3>10
  <2>. QED BY <2>1, <2>2
<1>2. \A s \in SUBSET D : s \in P
  <2> HIDE DEF P
  <2>. QED BY <1>1, SubsetInduction
<1>. QED BY <1>2

(* The sums of functions that agree on a set are the same over it.         *)
LEMMA SameSum ==
  ASSUME NEW D, NEW f, NEW T, Additive(T, f, D), NEW E, NEW h, NEW U, Additive(U, h, E),
         NEW C, IsFiniteSet(C), C \subseteq D, C \subseteq E, \A x \in C : f[x] = h[x]
  PROVE  T[C] = U[C]
<1> DEFINE P == {s \in SUBSET C : T[s] = U[s]}
<1>1. ASSUME NEW s \in SUBSET C, \A x \in s : s \ {x} \in P
      PROVE  s \in P
  <2>1. CASE s = {}
    BY <2>1 DEF Additive
  <2>2. CASE s # {}
    <3>1. PICK x : x \in s
      BY <2>2
    <3>2. T[s] = T[s \ {x}] + f[x] /\ U[s] = U[s \ {x}] + h[x]
      BY <3>1 DEF Additive
    <3>3. T[s \ {x}] = U[s \ {x}] /\ f[x] = h[x]
      BY <1>1, <3>1
    <3>. QED BY <3>2, <3>3
  <2>. QED BY <2>1, <2>2
<1>2. \A s \in SUBSET C : s \in P
  <2> HIDE DEF P
  <2>. QED BY <1>1, SubsetInduction
<1>. QED BY <1>2

(* The fold that MapThenSumSet is, as a function.                          *)
Sums(g, f) ==
    g = [s \in SUBSET DOMAIN f |->
            IF s = {} THEN 0 ELSE LET x == CHOOSE x \in s : TRUE IN f[x] + g[s \ {x}]]

Total(f) == (CHOOSE g : Sums(g, f))[DOMAIN f]

LEMMA AdditiveSums ==
  ASSUME NEW D, NEW f \in [D -> Int], NEW T, Additive(T, f, D)
  PROVE  Sums(T, f)
<1> DEFINE pick(s) == CHOOSE x \in s : TRUE
<1>0. DOMAIN f = D /\ \A s : s # {} => pick(s) \in s
  OBVIOUS
<1>1. ASSUME NEW s \in SUBSET D
      PROVE  T[s] = IF s = {} THEN 0 ELSE f[pick(s)] + T[s \ {pick(s)}]
  <2>1. CASE s = {}
    BY <2>1 DEF Additive
  <2>2. CASE s # {}
    <3>1. pick(s) \in s
      BY <1>0, <2>2
    <3> HIDE DEF pick
    <3>2. T[s] = T[s \ {pick(s)}] + f[pick(s)] /\ f[pick(s)] \in Int /\ T[s \ {pick(s)}] \in Int
      BY <3>1 DEF Additive
    <3>. QED BY <2>2, <3>2
  <2>. QED BY <2>1, <2>2
<1>2. T = [s \in SUBSET D |-> T[s]]
  BY DEF Additive
<1>. QED BY <1>0, <1>1, <1>2 DEF Sums

LEMMA SumsAre ==
  ASSUME NEW D, IsFiniteSet(D), NEW f \in [D -> Int], NEW T, Additive(T, f, D),
         NEW g, Sums(g, f)
  PROVE  g[D] = T[D]
<1> DEFINE pick(s) == CHOOSE x \in s : TRUE
           P == {s \in SUBSET D : g[s] = T[s]}
<1>0. DOMAIN f = D /\ \A s : s # {} => pick(s) \in s
  OBVIOUS
<1>1. ASSUME NEW s \in SUBSET D
      PROVE  g[s] = IF s = {} THEN 0 ELSE f[pick(s)] + g[s \ {pick(s)}]
  BY <1>0, Zenon DEF Sums
<1>2. ASSUME NEW s \in SUBSET D, \A x \in s : s \ {x} \in P
      PROVE  s \in P
  <2>1. CASE s = {}
    BY <1>1, <2>1 DEF Additive
  <2>2. CASE s # {}
    <3>1. pick(s) \in s
      BY <1>0, <2>2
    <3> HIDE DEF pick
    <3>2. T[s] = T[s \ {pick(s)}] + f[pick(s)] /\ f[pick(s)] \in Int /\ T[s \ {pick(s)}] \in Int
      BY <3>1 DEF Additive
    <3>3. g[s \ {pick(s)}] = T[s \ {pick(s)}]
      BY <1>2, <3>1
    <3>4. g[s] = f[pick(s)] + g[s \ {pick(s)}]
      BY <1>1, <2>2
    <3>5. g[s] = T[s]
      BY <3>2, <3>3, <3>4
    <3>. QED BY <3>5
  <2>. QED BY <2>1, <2>2
<1>3. \A s \in SUBSET D : s \in P
  <2> HIDE DEF P
  <2>. QED BY <1>2, SubsetInduction
<1>4. D \in P
  BY <1>3
<1>. QED BY <1>4

LEMMA TotalIs ==
  ASSUME NEW D, IsFiniteSet(D), NEW f \in [D -> Int], NEW T, Additive(T, f, D)
  PROVE  Total(f) = T[D] /\ Total(f) \in Int
<1> DEFINE g == CHOOSE g : Sums(g, f)
<1>1. Sums(g, f)
  BY AdditiveSums
<1>2. Total(f) = g[D]
  BY DEF Total
<1> HIDE DEF g
<1>3. g[D] = T[D]
  BY <1>1, SumsAre
<1>. QED BY <1>2, <1>3 DEF Additive

(* The sum after one term is replaced, and with one more term.             *)
LEMMA TotalReplaced ==
  ASSUME NEW D, IsFiniteSet(D), NEW f \in [D -> Int], NEW h \in [D -> Int], NEW x \in D,
         \A y \in D \ {x} : h[y] = f[y]
  PROVE  Total(h) = Total(f) - f[x] + h[x] /\ Total(f) \in Int
<1>1. PICK T : Additive(T, f, D)
  BY AdditiveExists
<1>2. PICK U : Additive(U, h, D)
  BY AdditiveExists
<1>3. T[D \ {x}] = U[D \ {x}]
  <2>1. IsFiniteSet(D \ {x})
    BY FS_RemoveElement
  <2>. QED BY <1>1, <1>2, <2>1, SameSum
<1>4. T[D] = T[D \ {x}] + f[x] /\ U[D] = U[D \ {x}] + h[x] /\ T[D \ {x}] \in Int
  BY <1>1, <1>2 DEF Additive
<1>5. Total(f) = T[D] /\ Total(f) \in Int
  BY <1>1, TotalIs
<1>6. Total(h) = U[D]
  BY <1>2, TotalIs
<1>7. f[x] \in Int /\ h[x] \in Int
  OBVIOUS
<1>. QED BY <1>3, <1>4, <1>5, <1>6, <1>7

LEMMA TotalAdded ==
  ASSUME NEW D, NEW E, NEW f, NEW h, NEW x, IsFiniteSet(D), x \notin D, E = D \cup {x},
         f \in [D -> Int], h \in [E -> Int], \A y \in D : h[y] = f[y]
  PROVE  Total(h) = Total(f) + h[x] /\ Total(f) \in Int
<1>0. IsFiniteSet(D \cup {x}) /\ (D \cup {x}) \ {x} = D
  BY FS_AddElement
<1>1. PICK T : Additive(T, f, D)
  BY AdditiveExists
<1>2. PICK U : Additive(U, h, D \cup {x})
  BY <1>0, AdditiveExists
<1>3. T[D] = U[D]
  BY <1>1, <1>2, SameSum
<1>4. U[D \cup {x}] = U[D] + h[x]
  BY <1>0, <1>2 DEF Additive
<1>5. Total(f) = T[D] /\ Total(f) \in Int
  BY <1>1, TotalIs
<1>6. Total(h) = U[D \cup {x}]
  BY <1>0, <1>2, TotalIs
<1>. QED BY <1>3, <1>4, <1>5, <1>6

LEMMA TotalOfNone ==
  ASSUME NEW f \in [{} -> Int]
  PROVE  Total(f) = 0
<1>1. PICK T : Additive(T, f, {})
  BY AdditiveExists, FS_EmptySet
<1>2. Total(f) = T[{}]
  BY <1>1, TotalIs, FS_EmptySet
<1>. QED BY <1>1, <1>2 DEF Additive

-----------------------------------------------------------------------------
(* The books of the broker b, which began with the capital k.              *)
HeldOf(ps) == [i \in DOMAIN ps |-> ps[i].entry * ps[i].quantity]
PnlOf(ps)  == [i \in DOMAIN ps |-> ps[i].pnl]

Books(b, k, paid, short) ==
    /\ b.margin = Total(HeldOf(b.positions)) + short
    /\ b.balance + b.margin = k + Total(PnlOf(b.positions)) - paid

LEMMA PositionNumbers ==
  ASSUME NEW p, PositionOK(p)
  PROVE  /\ p.entry \in Int /\ p.quantity \in Int /\ p.pnl \in Int
         /\ p.entry * p.quantity \in Int
<1>1. p.entry \in Int /\ p.quantity \in Int /\ p.pnl \in Int
  BY DEF PositionOK, Position
<1>. QED BY <1>1

LEMMA Columns ==
  ASSUME NEW ps \in Seq(Position), \A i \in DOMAIN ps : PositionOK(ps[i])
  PROVE  /\ IsFiniteSet(DOMAIN ps)
         /\ HeldOf(ps) \in [DOMAIN ps -> Int] /\ PnlOf(ps) \in [DOMAIN ps -> Int]
<1>1. \A i \in DOMAIN ps : ps[i].entry * ps[i].quantity \in Int /\ ps[i].pnl \in Int
  BY PositionNumbers
<1>2. DOMAIN ps = 1 .. Len(ps) /\ Len(ps) \in Nat
  BY LenProperties
<1>3. IsFiniteSet(1 .. Len(ps))
  BY <1>2, FS_Interval
<1>. QED BY <1>1, <1>2, <1>3 DEF HeldOf, PnlOf

LEMMA ReplaceBooks ==
  ASSUME NEW ps \in Seq(Position), \A i \in DOMAIN ps : PositionOK(ps[i]),
         NEW i \in DOMAIN ps, NEW p, PositionOK(p)
  PROVE  LET qs == [ps EXCEPT ![i] = p]
         IN  /\ Total(HeldOf(qs)) = Total(HeldOf(ps)) - ps[i].entry * ps[i].quantity
                                        + p.entry * p.quantity
             /\ Total(PnlOf(qs)) = Total(PnlOf(ps)) - ps[i].pnl + p.pnl
             /\ Total(HeldOf(ps)) \in Int /\ Total(PnlOf(ps)) \in Int
<1> DEFINE qs == [ps EXCEPT ![i] = p]
<1>1. qs \in Seq(Position) /\ \A j \in DOMAIN qs : PositionOK(qs[j])
  BY ReplaceOK
<1>2. /\ DOMAIN qs = DOMAIN ps /\ qs[i] = p
      /\ \A j \in DOMAIN ps \ {i} : qs[j] = ps[j]
  OBVIOUS
<1> HIDE DEF qs
<1> DEFINE D == DOMAIN ps
           f == HeldOf(ps)
           h == HeldOf(qs)
           u == PnlOf(ps)
           v == PnlOf(qs)
<1>3. /\ IsFiniteSet(D) /\ f \in [D -> Int] /\ h \in [D -> Int]
      /\ u \in [D -> Int] /\ v \in [D -> Int]
  BY <1>1, <1>2, Columns
<1>4. /\ f[i] = ps[i].entry * ps[i].quantity /\ h[i] = p.entry * p.quantity
      /\ u[i] = ps[i].pnl /\ v[i] = p.pnl
      /\ \A j \in D \ {i} : h[j] = f[j] /\ v[j] = u[j]
  BY <1>2 DEF HeldOf, PnlOf
<1> HIDE DEF f, h, u, v
<1>5. Total(h) = Total(f) - f[i] + h[i] /\ Total(f) \in Int
  BY <1>3, <1>4, TotalReplaced
<1>6. Total(v) = Total(u) - u[i] + v[i] /\ Total(u) \in Int
  BY <1>3, <1>4, TotalReplaced
<1>. QED BY <1>4, <1>5, <1>6 DEF f, h, u, v, qs

LEMMA AppendBooks ==
  ASSUME NEW ps \in Seq(Position), \A i \in DOMAIN ps : PositionOK(ps[i]),
         NEW p, PositionOK(p)
  PROVE  /\ Total(HeldOf(Append(ps, p))) = Total(HeldOf(ps)) + p.entry * p.quantity
         /\ Total(PnlOf(Append(ps, p))) = Total(PnlOf(ps)) + p.pnl
         /\ Total(HeldOf(ps)) \in Int /\ Total(PnlOf(ps)) \in Int
<1> DEFINE qs == Append(ps, p)
           n == Len(ps) + 1
<1>0. p \in Position
  BY DEF PositionOK
<1>1. /\ qs \in Seq(Position) /\ DOMAIN qs = DOMAIN ps \cup {n} /\ n \notin DOMAIN ps
      /\ qs[n] = p /\ \A j \in DOMAIN ps : qs[j] = ps[j]
  BY <1>0, AppendProperties, LenProperties
<1> HIDE DEF qs, n
<1>2. \A j \in DOMAIN qs : PositionOK(qs[j])
  BY <1>1
<1> DEFINE D == DOMAIN ps
           f == HeldOf(ps)
           h == HeldOf(qs)
           u == PnlOf(ps)
           v == PnlOf(qs)
<1>3. /\ IsFiniteSet(D) /\ f \in [D -> Int] /\ h \in [DOMAIN qs -> Int]
      /\ u \in [D -> Int] /\ v \in [DOMAIN qs -> Int]
  BY <1>1, <1>2, Columns
<1>4. /\ h[n] = p.entry * p.quantity /\ v[n] = p.pnl
      /\ \A j \in D : h[j] = f[j] /\ v[j] = u[j]
  BY <1>1 DEF HeldOf, PnlOf
<1>5. Total(h) = Total(f) + h[n] /\ Total(f) \in Int
  <2>1. \A j \in D : h[j] = f[j]
    BY <1>4
  <2>2. IsFiniteSet(D) /\ f \in [D -> Int]
    BY <1>3
  <2>3. h \in [DOMAIN qs -> Int] /\ n \notin D /\ DOMAIN qs = D \cup {n}
    BY <1>1, <1>3
  <2> HIDE DEF f, h
  <2>. QED BY ONLY <2>1, <2>2, <2>3, TotalAdded, SMT
<1>6. Total(v) = Total(u) + v[n] /\ Total(u) \in Int
  <2>1. \A j \in D : v[j] = u[j]
    BY <1>4
  <2>2. IsFiniteSet(D) /\ u \in [D -> Int]
    BY <1>3
  <2>3. v \in [DOMAIN qs -> Int] /\ n \notin D /\ DOMAIN qs = D \cup {n}
    BY <1>1, <1>3
  <2> HIDE DEF u, v
  <2>. QED BY ONLY <2>1, <2>2, <2>3, TotalAdded, SMT
<1>. QED BY <1>4, <1>5, <1>6 DEF f, h, u, v, qs

LEMMA NoBooks ==
  ASSUME NEW k \in Int
  PROVE  Books([NoBroker EXCEPT !.balance = k], k, 0, 0)
<1>1. HeldOf(<< >>) \in [{} -> Int] /\ PnlOf(<< >>) \in [{} -> Int]
  BY DEF HeldOf, PnlOf
<1>2. Total(HeldOf(<< >>)) = 0 /\ Total(PnlOf(<< >>)) = 0
  BY <1>1, TotalOfNone
<1>. QED BY <1>2 DEF Books, NoBroker

LEMMA Purchase ==
  ASSUME NEW bal \in Int, NEW m \in Int, NEW k \in Int, NEW n \in Int, NEW paid \in Int,
         NEW c \in Int, NEW f \in Int, bal + m = k + n - paid
  PROVE  (bal - (c + f)) + (m + c) = k + n - (paid + f)
OBVIOUS

LEMMA Distributes ==
  ASSUME NEW x \in Int, NEW y \in Int, NEW z \in Int
  PROVE  (x - y) * z = x * z - y * z /\ z * (x - y) = z * x - z * y
OBVIOUS

(* Every order leaves the books balanced.                                  *)
LEMMA PlaceOrderBooks ==
  ASSUME NEW b, NEW k, NEW paid, NEW short, BrokerOK(b, paid), k \in Int, short \in Int,
         Books(b, k, paid, short), NEW o, OrderOK(o), ~Undoes(b, o)
  PROVE  Books(PlaceOrder(b, o), k, paid + Charged(b, o), short + Rounding(b, o))
<1> DEFINE i  == FindOpen(b, o.symbol)
           B  == PlaceOrder(b, o)
           ps == b.positions
           H  == Total(HeldOf(ps))
           N  == Total(PnlOf(ps))
           C  == Cost(o)
           F  == Commission(o)
           L  == Rounding(b, o)
<1>1. /\ ps \in Seq(Position) /\ \A j \in DOMAIN ps : PositionOK(ps[j])
      /\ b.balance \in Int /\ b.margin \in Int /\ paid \in Int
      /\ C \in Int /\ F \in Int /\ FillPrice(o) \in Int /\ o.quantity \in Int
  BY DEF BrokerOK, OrderOK
<1>2. b.margin = H + short /\ b.balance + b.margin = k + N - paid
  BY DEF Books
<1>3. ASSUME i # 0, o.action # "BUY", B = Reduced(b, i, o), Filled(b, o)
      PROVE  Books(B, k, paid + Charged(b, o), short + L)
  <2> DEFINE p == ps[i]
             q == FillQuantity(p, o)
             w == (FillPrice(o) - p.entry) * q
             r == Sold(p, p.quantity - q, p.pnl + w)
             x == FillPrice(o) * q
             y == p.entry * q
             z == p.entry * p.quantity
  <2>1. B.positions = [ps EXCEPT ![i] = r] /\ q \in Int /\ p.quantity - q \in Int /\ w \in Int
    <3>1. /\ Reduced(b, i, o).positions = [ps EXCEPT ![i] = r]
          /\ q \in Int /\ p.quantity - q \in Int /\ w \in Int
      <4> HIDE DEF B
      <4>. QED BY <1>3, ReducedIs
    <3>. QED BY <1>3, <3>1
  <2>2. /\ i \in DOMAIN ps /\ p \in Position /\ p.entry \in Int /\ p.quantity \in Int
        /\ p.pnl \in Int
    BY <1>3, FoundIsOpenBuy DEF Position
  <2>3. B.balance = b.balance + x - F /\ B.margin = b.margin - y
    BY <1>3 DEF Reduced
  <2>4. Charged(b, o) = F
    BY <1>3 DEF Charged
  <2>5. L = 0
    BY <1>3, RoundingIs DEF Averages
  <2>6. x \in Int /\ y \in Int /\ z \in Int /\ w = x - y /\ p.entry * (p.quantity - q) = z - y
    <3> HIDE DEF q, p
    <3>1. q \in Int /\ p.entry \in Int /\ p.quantity \in Int /\ FillPrice(o) \in Int
      BY <1>1, <2>1, <2>2
    <3>2. w = x - y
      BY <3>1, Distributes
    <3>3. p.entry * (p.quantity - q) = z - y
      BY <3>1, Distributes
    <3>. QED BY <3>1, <3>2, <3>3
  <2>7. PositionOK(r) /\ r.entry = p.entry /\ r.quantity = p.quantity - q /\ r.pnl = p.pnl + w
    <3> DEFINE sum == p.pnl + w
               left == p.quantity - q
    <3>1. sum \in Int
      <4> HIDE DEF w, p
      <4>. QED BY <2>1, <2>2
    <3> HIDE DEF sum
    <3>2. PositionOK(Sold(p, left, sum)) /\ Sold(p, left, sum).entry = p.entry
          /\ Sold(p, left, sum).quantity = left /\ Sold(p, left, sum).pnl = sum
      <4> HIDE DEF left, p
      <4>1. left \in Int
        BY <2>1 DEF left
      <4>. QED BY <2>2, <3>1, <4>1, SoldOK
    <3>. QED BY <3>2 DEF sum
  <2>8. /\ Total(HeldOf(B.positions)) = H - z + r.entry * r.quantity
        /\ Total(PnlOf(B.positions)) = N - p.pnl + r.pnl
        /\ H \in Int /\ N \in Int
    <3> DEFINE qs == B.positions
    <3>1. qs = [ps EXCEPT ![i] = r] /\ PositionOK(r)
      BY <2>1, <2>7
    <3> HIDE DEF r, i, qs
    <3>2. /\ Total(HeldOf(qs)) = H - z + r.entry * r.quantity
          /\ Total(PnlOf(qs)) = N - p.pnl + r.pnl
          /\ H \in Int /\ N \in Int
      BY <1>1, <2>2, <3>1, ReplaceBooks
    <3>. QED BY <3>2 DEF qs
  <2>9. r.entry * r.quantity = z - y /\ r.pnl = p.pnl + w
    BY <2>6, <2>7
  <2> HIDE DEF B, H, N, L, F, C, p, q, w, r, x, y, z
  <2>10. Total(HeldOf(B.positions)) = H - y /\ Total(PnlOf(B.positions)) = N + (x - y)
    BY <2>2, <2>6, <2>8, <2>9
  <2>11. B.margin = Total(HeldOf(B.positions)) + (short + L)
    BY <1>1, <1>2, <2>3, <2>5, <2>6, <2>8, <2>10
  <2>12. B.balance + B.margin = k + Total(PnlOf(B.positions)) - (paid + Charged(b, o))
    <3>1. (b.balance + x - F) + (b.margin - y) = k + (N + (x - y)) - (paid + F)
      <4>1. /\ b.balance \in Int /\ b.margin \in Int /\ paid \in Int /\ F \in Int
            /\ x \in Int /\ y \in Int /\ N \in Int
        BY <1>1, <2>6, <2>8
      <4>. QED BY <1>2, <4>1
    <3>. QED BY <2>3, <2>4, <2>10, <3>1
  <2>. QED BY <2>11, <2>12 DEF Books
<1>4. ASSUME B = b, ~Affordable(b, o), ~Filled(b, o)
      PROVE  Books(B, k, paid + Charged(b, o), short + L)
  <2>1. Charged(b, o) = 0 /\ L = 0
    BY <1>4, RoundingIs DEF Charged, Averages
  <2>2. paid + 0 = paid /\ short + 0 = short
    BY <1>1
  <2> HIDE DEF B, L
  <2>. QED BY <1>4, <2>1, <2>2
<1>5. ASSUME NEW qs, B = Paid(b, o, qs), Filled(b, o), H \in Int, N \in Int, L \in Int,
             Total(HeldOf(qs)) = H + (C - L), Total(PnlOf(qs)) = N
      PROVE  Books(B, k, paid + Charged(b, o), short + L)
  <2>1. B.balance = b.balance - (C + F) /\ B.margin = b.margin + C /\ B.positions = qs
    BY <1>5 DEF Paid
  <2>2. Charged(b, o) = F
    BY <1>5 DEF Charged
  <2> HIDE DEF B, H, N, L, F, C
  <2>3. (b.balance - (C + F)) + (b.margin + C) = k + N - (paid + F)
    BY <1>1, <1>2, <1>5, Purchase
  <2>4. B.balance + B.margin = k + Total(PnlOf(B.positions)) - (paid + Charged(b, o))
    BY <1>5, <2>1, <2>2, <2>3
  <2>5. B.margin = Total(HeldOf(B.positions)) + (short + L)
    <3>1. Total(HeldOf(B.positions)) = H + (C - L)
      BY <1>5, <2>1
    <3>2. (H + short) + C = (H + (C - L)) + (short + L)
      BY <1>1, <1>5
    <3>. QED BY <1>2, <2>1, <3>1, <3>2
  <2>. QED BY <2>4, <2>5 DEF Books
<1>6. ASSUME Averages(b, o), Filled(b, o),
             B = Paid(b, o, Averaged(b, i, o))
      PROVE  Books(B, k, paid + Charged(b, o), short + L)
  <2> DEFINE p == ps[i]
             n == p.quantity + o.quantity
             a == [p EXCEPT !.entry = Ratio(p.entry * p.quantity + C, n), !.quantity = n]
             e == a.entry * a.quantity
             z == p.entry * p.quantity
             qs == Averaged(b, i, o)
  <2>1. qs = [ps EXCEPT ![i] = a] /\ PositionOK(a) /\ a.pnl = p.pnl
    BY <1>6, AveragedIs
  <2>2. i \in DOMAIN ps /\ p \in Position /\ p.pnl \in Int
    BY <1>6, FoundIsOpenBuy DEF Position, Averages
  <2>3. PositionOK(p)
    BY <1>1, <2>2
  <2> HIDE DEF a, i
  <2>4. qs[i] = a
    BY <2>1, <2>2
  <2>5. L = (z + C) - e /\ L \in Int
    BY <1>6, <2>4, RoundingIs DEF i
  <2>6. e \in Int /\ z \in Int
    BY <2>1, <2>3, PositionNumbers
  <2> HIDE DEF qs
  <2>7. /\ Total(HeldOf(qs)) = H - z + e /\ Total(PnlOf(qs)) = N - p.pnl + a.pnl
        /\ H \in Int /\ N \in Int
    BY <1>1, <2>1, <2>2, ReplaceBooks
  <2>8. Total(HeldOf(qs)) = H + (C - L) /\ Total(PnlOf(qs)) = N
    <3> HIDE DEF H, N, L, C, z, e, p
    <3>. QED BY <1>1, <2>1, <2>2, <2>5, <2>6, <2>7
  <2> HIDE DEF B, H, N, L, C
  <2>. QED BY <1>5, <1>6, <2>5, <2>7, <2>8 DEF i, qs
<1>7. ASSUME i = 0, Affordable(b, o), Filled(b, o),
             B = Paid(b, o, NewPosition(b, o))
      PROVE  Books(B, k, paid + Charged(b, o), short + L)
  <2> DEFINE qs == NewPosition(b, o)
  <2>1. PICK p : /\ qs = Append(ps, p) /\ PositionOK(p)
                 /\ p.quantity = o.quantity /\ p.pnl = 0 /\ p.entry = FillPrice(o)
    BY NewPositionIs
  <2>2. L = 0
    BY <1>7, RoundingIs DEF Averages
  <2>3. p.entry * p.quantity = C
    BY <2>1 DEF Cost
  <2>4. /\ Total(HeldOf(qs)) = H + p.entry * p.quantity /\ Total(PnlOf(qs)) = N + p.pnl
        /\ H \in Int /\ N \in Int
    <3> HIDE DEF qs
    <3>. QED BY <1>1, <2>1, AppendBooks
  <2> HIDE DEF B, H, N, L, C
  <2>5. Total(HeldOf(qs)) = H + (C - L) /\ Total(PnlOf(qs)) = N
    BY <1>1, <2>1, <2>2, <2>3, <2>4
  <2>6. L \in Int
    BY <2>2
  <2>. QED BY <1>5, <1>7, <2>4, <2>5, <2>6
<1> HIDE DEF B
<1>. QED BY <1>3, <1>4, <1>6, <1>7, PlaceOrderCases DEF B

BooksOK == Replaying => Books(broker, config.capital, fees, lost)

LEMMA BooksUnchanged ==
  ASSUME BooksOK, UNCHANGED <<broker, config, fees, lost>>, Replaying' => Replaying
  PROVE  BooksOK'
<1>1. Books(broker, config.capital, fees, lost)' <=> Books(broker, config.capital, fees, lost)
  BY DEF Books
<1>. QED BY <1>1 DEF BooksOK

LEMMA BooksNext ==
  ASSUME CsvTypes, BooksOK, [CsvNext]_csvVars
  PROVE  BooksOK'
<1>0. config.capital \in Int
  BY CsvAssumption DEF CsvTypes, RequestTypes
<1>1. CASE Create
  BY <1>1 DEF Create, BooksOK, Replaying
<1>2. CASE Load
  <2>1. phase = "refresh" /\ UNCHANGED <<config, fees, lost>>
        /\ broker' = [NoBroker EXCEPT !.balance = config.capital]
    BY <1>2 DEF Load
  <2>2. fees = 0 /\ lost = 0
    BY <2>1 DEF CsvTypes, SignalTypes, Replaying
  <2>3. Books([NoBroker EXCEPT !.balance = config.capital], config.capital, 0, 0)
    BY <1>0, NoBooks
  <2>. QED BY <2>1, <2>2, <2>3 DEF BooksOK
<1>3. CASE Return
  BY <1>3, OverIs DEF BooksOK, Replaying
<1>4. CASE Signal
  <2>1. PICK o \in Signals : /\ broker' = PlaceOrder(broker, o)
                                 /\ fees' = fees + Charged(broker, o)
                                 /\ lost' = lost + Rounding(broker, o) /\ ~Undoes(broker, o)
    BY <1>4, SignalIs
  <2>2. config' = config /\ Replaying
    BY <1>4, SignalIs DEF Replaying
  <2>3. OrderOK(o) /\ BrokerOK(broker, fees) /\ lost \in Int
    BY CostIsNumber DEF CsvTypes, RequestTypes, SignalTypes
  <2>4. Books(PlaceOrder(broker, o), config.capital, fees + Charged(broker, o),
              lost + Rounding(broker, o))
    BY <1>0, <2>1, <2>2, <2>3, PlaceOrderBooks DEF BooksOK
  <2>. QED BY <2>1, <2>2, <2>4 DEF BooksOK
<1>5. CASE BadSignal
  BY <1>5, BooksUnchanged DEF BadSignal, Replaying
<1>6. CASE End
  BY <1>6, BooksUnchanged DEF End, Replaying
<1>7. CASE row = "queued" /\ Commit
  BY <1>7, BooksUnchanged DEF Commit, Replaying
<1>8. CASE Delete
  BY <1>8, BooksUnchanged DEF Delete, Replaying
<1>9. CASE UNCHANGED csvVars
  BY <1>9, BooksUnchanged DEF csvVars, Replaying
<1>10. LoadFails \/ Respond \/ Crash \/ (row # "queued" /\ Commit) => Return
  BY DEF LoadFails, Respond, Crash, Commit
<1>. QED BY <1>1, <1>2, <1>3, <1>4, <1>5, <1>6, <1>7, <1>8, <1>9, <1>10 DEF CsvNext

(* The sums of BooksBalance are totals.                                    *)
LEMMA BooksAreBalanced ==
  ASSUME CsvTypes, BooksOK
  PROVE  BooksBalance
<1>1. SUFFICES ASSUME Replaying PROVE BooksBalance
  BY DEF BooksBalance, Replaying
<1> DEFINE ps == broker.positions
           Held(i) == broker.positions[i].entry * broker.positions[i].quantity
           Pnl(i)  == broker.positions[i].pnl
<1>0. /\ IsFiniteSet(DOMAIN ps)
      /\ HeldOf(ps) \in [DOMAIN ps -> Int] /\ PnlOf(ps) \in [DOMAIN ps -> Int]
  BY Columns DEF CsvTypes, BrokerOK
<1>2. MapThenSumSet(Held, DOMAIN ps) = Total(HeldOf(ps))
  <2> DEFINE Sum(g) == g = [s \in SUBSET DOMAIN ps |->
                               IF s = {} THEN 0
                               ELSE LET x == CHOOSE x \in s : TRUE IN Held(x) + g[s \ {x}]]
             F == CHOOSE g : Sum(g)
  <2>1. ASSUME NEW g
        PROVE  Sums(g, HeldOf(ps)) <=> Sum(g)
    <3>1. \A s \in SUBSET DOMAIN ps :
             s # {} => HeldOf(ps)[CHOOSE x \in s : TRUE] = Held(CHOOSE x \in s : TRUE)
      BY DEF HeldOf
    <3>2. DOMAIN HeldOf(ps) = DOMAIN ps
      BY DEF HeldOf
    <3> HIDE DEF Held
    <3>. QED BY <3>1, <3>2 DEF Sums
  <2>2. MapThenSumSet(Held, DOMAIN ps) = F[DOMAIN ps]
    BY DEF MapThenSumSet, MapThenFoldSet
  <2> HIDE DEF Sum
  <2>3. PICK T : Additive(T, HeldOf(ps), DOMAIN ps)
    BY <1>0, AdditiveExists
  <2>4. Sum(T)
    BY <1>0, <2>1, <2>3, AdditiveSums
  <2>5. Sum(F)
    BY <2>4
  <2> HIDE DEF F
  <2>6. F[DOMAIN ps] = T[DOMAIN ps]
    BY <1>0, <2>1, <2>3, <2>5, SumsAre
  <2>7. Total(HeldOf(ps)) = T[DOMAIN ps]
    BY <1>0, <2>3, TotalIs
  <2>. QED BY <2>2, <2>6, <2>7
<1>3. MapThenSumSet(Pnl, DOMAIN ps) = Total(PnlOf(ps))
  <2> DEFINE Sum(g) == g = [s \in SUBSET DOMAIN ps |->
                               IF s = {} THEN 0
                               ELSE LET x == CHOOSE x \in s : TRUE IN Pnl(x) + g[s \ {x}]]
             F == CHOOSE g : Sum(g)
  <2>1. ASSUME NEW g
        PROVE  Sums(g, PnlOf(ps)) <=> Sum(g)
    <3>1. \A s \in SUBSET DOMAIN ps :
             s # {} => PnlOf(ps)[CHOOSE x \in s : TRUE] = Pnl(CHOOSE x \in s : TRUE)
      BY DEF PnlOf
    <3>2. DOMAIN PnlOf(ps) = DOMAIN ps
      BY DEF PnlOf
    <3> HIDE DEF Pnl
    <3>. QED BY <3>1, <3>2 DEF Sums
  <2>2. MapThenSumSet(Pnl, DOMAIN ps) = F[DOMAIN ps]
    BY DEF MapThenSumSet, MapThenFoldSet
  <2> HIDE DEF Sum
  <2>3. PICK T : Additive(T, PnlOf(ps), DOMAIN ps)
    BY <1>0, AdditiveExists
  <2>4. Sum(T)
    BY <1>0, <2>1, <2>3, AdditiveSums
  <2>5. Sum(F)
    BY <2>4
  <2> HIDE DEF F
  <2>6. F[DOMAIN ps] = T[DOMAIN ps]
    BY <1>0, <2>1, <2>3, <2>5, SumsAre
  <2>7. Total(PnlOf(ps)) = T[DOMAIN ps]
    BY <1>0, <2>3, TotalIs
  <2>. QED BY <2>2, <2>6, <2>7
<1>4. Books(broker, config.capital, fees, lost)
  BY <1>1 DEF BooksOK
<1>5. /\ broker.margin = MapThenSumSet(Held, DOMAIN broker.positions) + lost
      /\ broker.balance + broker.margin
             = config.capital + MapThenSumSet(Pnl, DOMAIN broker.positions) - fees
  BY <1>2, <1>3, <1>4 DEF Books
<1>. QED BY <1>5 DEF BooksBalance

(* The books of the simulated broker balance, whatever is traded.          *)
THEOREM CsvBooks == CsvSpec => []BooksBalance
<1>1. CsvInit => CsvTypes /\ BooksOK
  BY CsvTypesInit DEF CsvInit, BooksOK, Replaying
<1>2. CsvTypes /\ BooksOK /\ [CsvNext]_csvVars => (CsvTypes /\ BooksOK)'
  BY CsvTypesNext, BooksNext
<1>3. CsvTypes /\ BooksOK => BooksBalance
  BY BooksAreBalanced
<1>. QED BY <1>1, <1>2, <1>3, PTL DEF CsvSpec
=============================================================================
