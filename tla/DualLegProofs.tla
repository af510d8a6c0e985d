--------------------------- MODULE DualLegProofs ---------------------------
(***************************************************************************)
(* Theorems about DualLeg, for every set of slots, every bound and every   *)
(* value of the constants their statements leave open.                     *)
(***************************************************************************)
EXTENDS DualLeg, FiniteSetTheorems, TLAPS

LEMMA SettingType ==
  ASSUME setting \in Settings
  PROVE  /\ MaxTrades \in Nat /\ Hours \in BOOLEAN /\ Serial \in BOOLEAN
         /\ Env \subseteq Events
BY DualLegAssumption DEF MaxTrades, Hours, Serial, Env

(* The strategy's rules and the environment stay what they are.            *)
LEMMA SettingStays ==
  ASSUME [Next]_vars
  PROVE  /\ setting' = setting
         /\ MaxTrades' = MaxTrades /\ Hours' = Hours /\ Env' = Env
         /\ Benign' = Benign /\ BookingReliable' = BookingReliable
BY DEF Next, vars, MaxTrades, Hours, Serial, Env, Benign, BookingReliable

LEMMA NewSideType == ASSUME NEW a \in Actions PROVE NewSide(a) \in Sides
BY DEF NewSide, Actions, Sides

LEMMA InitTypeOK == Init => TypeOK
<1> USE DEF TypeOK, Sides, NoSide, Actions, Steps
<1> SUFFICES ASSUME Init PROVE TypeOK
  OBVIOUS
<1>1. pos \in [Sides -> Nat] /\ resting \in [Sides -> Nat]
  BY DEF Init
<1>2. count \in Nat /\ received \in Nat /\ openLegs \in Nat /\ missed \in Nat
  BY DEF Init
<1>3. /\ sideTTL \in BOOLEAN /\ countTTL \in BOOLEAN /\ inHours \in BOOLEAN
      /\ stop \in [Slots -> BOOLEAN]
  BY DEF Init
<1>. QED BY <1>1, <1>2, <1>3 DEF Init, Results

(* What is left of a request slot after its request returned.              *)
LEMMA FinishType ==
  ASSUME TypeOK, NEW t \in Slots, NEW r \in Results, Finish(t, r)
  PROVE  /\ pc' \in [Slots -> Steps] /\ action' \in [Slots -> Actions]
         /\ kind' \in [Slots -> {"MARKET", "LIMIT"}]
         /\ tracked' \in [Slots -> {NoSide} \cup Sides]
         /\ stop' \in [Slots -> BOOLEAN]
         /\ result' \in Results
BY DEF TypeOK, Finish, Steps, Actions

(* Redis, the exchange and the request slots only ever hold the values the *)
(* handlers write there.                                                   *)
THEOREM TypeCorrect == Spec => []TypeOK
<1> USE DEF TypeOK, Sides, NoSide, Actions, Steps
<1>1. Init => TypeOK
  BY InitTypeOK
<1>2. TypeOK /\ [Next]_vars => TypeOK'
  <2> SUFFICES ASSUME TypeOK, [Next]_vars PROVE TypeOK'
    OBVIOUS
  <2>s. setting' \in Settings
    BY SettingStays
  <2>0. CASE UNCHANGED vars
    BY <2>s, <2>0 DEF vars, redis, exch, local, legs
  <2> USE DEF redis, exch, local, legs, Goto, Finish, Results
  <2>1. ASSUME NEW t \in Slots, Receive(t) PROVE TypeOK'
    <3>1. CASE Hours /\ ~inHours
      <4>1. Finish(t, "blocked_by_rule") /\ received' \in Nat
        BY <2>1, <3>1 DEF Receive
      <4>2. UNCHANGED <<redis, exch, inHours, legs>>
        BY <2>1 DEF Receive
      <4> HIDE DEF Finish
      <4>. QED BY <2>s, <4>1, <4>2, FinishType
    <3>2. CASE ~(Hours /\ ~inHours)
      <4>1. PICK a \in Actions, k \in {"MARKET", "LIMIT"} :
              /\ action' = [action EXCEPT ![t] = a]
              /\ kind' = [kind EXCEPT ![t] = k]
        BY <2>1, <3>2 DEF Receive, OrderKinds
      <4>. QED BY <2>s, <2>1, <3>2, <4>1 DEF Receive
    <3>. QED BY <3>1, <3>2
  <2>2. ASSUME NEW t \in Slots, ReadState(t) PROVE TypeOK'
    <3>1. PICK read \in {<<side, count>>, <<NoSide, 0>>} :
            \/ /\ tracked' = [tracked EXCEPT ![t] = read[1]]
               /\ stop' = [stop EXCEPT ![t] = StopCondition(read[2])]
               /\ pc' = [pc EXCEPT ![t] = "auth"]
               /\ UNCHANGED <<action, kind, result>>
            \/ Finish(t, "no_action")
      BY <2>2 DEF ReadState
    <3>2. StopCondition(read[2]) \in BOOLEAN
      BY DEF StopCondition
    <3>3. read[1] \in {NoSide} \cup Sides
      OBVIOUS
    <3>4. UNCHANGED <<redis, exch, inHours, received, legs>>
      BY <2>2 DEF ReadState
    <3>5. CASE Finish(t, "no_action")
      <4> HIDE DEF Finish
      <4>. QED BY <2>s, <3>4, <3>5, FinishType
    <3>6. CASE ~Finish(t, "no_action")
      <4>1. stop' \in [Slots -> BOOLEAN]
        BY <3>1, <3>2, <3>6
      <4>2. /\ tracked' \in [Slots -> {NoSide} \cup Sides]
            /\ pc' \in [Slots -> Steps]
            /\ UNCHANGED <<action, kind, result>>
        BY <3>1, <3>3, <3>6
      <4>. QED BY <2>s, <3>4, <4>1, <4>2
    <3>. QED BY <2>s, <3>5, <3>6
  <2>3. ASSUME NEW t \in Slots, Authenticate(t) PROVE TypeOK'
    BY <2>s, <2>3 DEF Authenticate
  <2>4. ASSUME NEW t \in Slots, CloseLeg(t) PROVE TypeOK'
    <3>1. pos' \in [Sides -> Nat] /\ UNCHANGED resting
      BY <2>4 DEF CloseLeg, Filled
    <3>. QED BY <2>s, <2>4, <3>1 DEF CloseLeg
  <2>5. ASSUME NEW t \in Slots, ClearPosition(t) PROVE TypeOK'
    BY <2>s, <2>5 DEF ClearPosition, WriteSide, AfterClear
  <2>6. ASSUME NEW t \in Slots, OpenLeg(t) PROVE TypeOK'
    <3>1. /\ pos' \in [Sides -> Nat] /\ resting' \in [Sides -> Nat]
          /\ openLegs' \in Nat /\ missed' \in Nat
      BY <2>6, NewSideType DEF OpenLeg, Filled
    <3>. QED BY <2>s, <2>6, <3>1 DEF OpenLeg
  <2>7. ASSUME NEW t \in Slots, SetPosition(t) PROVE TypeOK'
    BY <2>s, <2>7, NewSideType DEF SetPosition, WriteSide
  <2>8. ASSUME NEW t \in Slots, IncrementTradeCount(t) PROVE TypeOK'
    <3>1. count' \in Nat
      BY <2>8 DEF IncrementTradeCount
    <3>4. countTTL' \in BOOLEAN
      BY <2>8 DEF IncrementTradeCount
    <3>2. PICK r \in {"reversed", "opened"} : Finish(t, r)
      BY <2>8 DEF IncrementTradeCount
    <3>3. UNCHANGED <<side, sideTTL, exch, inHours, received, legs>>
      BY <2>8 DEF IncrementTradeCount
    <3> HIDE DEF Finish
    <3>. QED BY <2>s, <3>1, <3>2, <3>3, <3>4, FinishType
  <2>9. ASSUME Midnight PROVE TypeOK'
    <3>1. Cardinality(Booking) \in Nat
      BY DualLegAssumption, FS_Subset, FS_CardinalityType DEF Booking
    <3>2. side' \in {NoSide} \cup Sides /\ count' \in Nat
      BY <2>9 DEF Midnight
    <3>. QED BY <2>s, <2>9, <3>1, <3>2 DEF Midnight
  <2>10. CASE TradingHoursChange
    BY <2>s, <2>10 DEF TradingHoursChange
  <2>11. CASE ExternalClose
    BY <2>s, <2>11 DEF ExternalClose
  <2>12. ASSUME NEW s \in Sides, RestingOrderFills(s) PROVE TypeOK'
    BY <2>s, <2>12 DEF RestingOrderFills
  <2>13. CASE Crash
    <3>1. Cardinality(Booking) \in Nat
      BY DualLegAssumption, FS_Subset, FS_CardinalityType DEF Booking
    <3>. QED BY <2>s, <2>13, <3>1 DEF Crash
  <2>. QED
    BY <2>0, <2>1, <2>2, <2>3, <2>4, <2>5, <2>6, <2>7, <2>8, <2>9, <2>10,
       <2>11, <2>12, <2>13 DEF Next, Handle, Environment
<1>. QED BY <1>1, <1>2, PTL DEF Spec
-----------------------------------------------------------------------------
(* The inductive invariant: what the exchange may hold at each await.      *)
Exclusive == \A t, u \in Slots : pc[t] # "idle" /\ pc[u] # "idle" => t = u

NoSideIssues ==
    /\ \A t \in Slots : ~stop[t] /\ kind[t] = "MARKET"
    /\ \A s \in Sides : resting[s] = 0 /\ pos[s] \in {0, 1}

Settled == \A t \in Slots : pc[t] \notin {"clear", "open", "set"}

StepInv ==
    /\ Settled => \A s \in Sides : pos[s] > 0 => side = s
    /\ \A t \in Slots :
          /\ pc[t] \in {"auth", "close"} =>
                tracked[t] = side /\ tracked[t] # NewSide(action[t])
          /\ pc[t] = "close" => tracked[t] # NoSide
          /\ pc[t] \in {"clear", "open"} => \A s \in Sides : pos[s] = 0
          /\ pc[t] = "clear" => tracked[t] # NewSide(action[t])
          /\ pc[t] = "set" =>
                \A s \in Sides : pos[s] > 0 => s = NewSide(action[t])

SerialInv == TypeOK /\ Exclusive /\ NoSideIssues /\ StepInv

LEMMA SerialInit == Benign /\ Init => SerialInv
<1> SUFFICES ASSUME Benign, Init PROVE SerialInv
  OBVIOUS
<1>1. TypeOK
  BY InitTypeOK
<1>2. Exclusive /\ StepInv
  BY DEF Init, Exclusive, StepInv
<1>3. NoSideIssues
  BY DEF Init, NoSideIssues
<1>. QED BY <1>1, <1>2, <1>3 DEF SerialInv

(* In a benign environment only these steps are left of Next.              *)
LEMMA BenignSteps ==
  ASSUME Benign, SerialInv, Next
  PROVE  \/ \E t \in Slots : Receive(t) \/ Handle(t)
         \/ ExternalClose
BY DEF Benign, SerialInv, NoSideIssues, Next, Environment, Midnight,
       TradingHoursChange, RestingOrderFills, Crash

LEMMA SerialStep ==
  ASSUME Benign, SerialInv, TypeOK', [Next]_vars
  PROVE  SerialInv'
<1> USE DEF Benign, SerialInv, TypeOK, Sides, Actions, NoSide, Goto, Finish, local, redis, exch, legs
<1> DEFINE Others(t) == \A u \in Slots : u # t => pc[u] = "idle" /\ pc'[u] = "idle"
<1>a. ASSUME NEW t \in Slots, Others(t) PROVE Exclusive'
  BY <1>a DEF Exclusive
<1>0. CASE UNCHANGED vars
  BY <1>0 DEF vars, Exclusive, NoSideIssues, StepInv, Settled
<1>1. ASSUME NEW t \in Slots, Receive(t) PROVE SerialInv'
  <2>1. Others(t) /\ pc[t] = "idle" /\ pc'[t] \in {"idle", "read"}
    BY <1>1 DEF Receive, Idle
  <2>2. NoSideIssues'
    BY <1>1 DEF Receive, NoSideIssues, OrderKinds
  <2>3. StepInv'
    BY <1>1, <2>1 DEF Receive, StepInv, Settled
  <2>. QED BY <1>a, <2>1, <2>2, <2>3
<1>2. ASSUME NEW t \in Slots, ReadState(t) PROVE SerialInv'
  <2>1. Others(t) /\ pc[t] = "read" /\ pc'[t] \in {"idle", "auth"}
    BY <1>2 DEF ReadState, Exclusive
  <2>2. NoSideIssues'
    BY <1>2 DEF ReadState, NoSideIssues, StopCondition
  <2>3. StepInv'
    BY <1>2, <2>1 DEF ReadState, StepInv, Settled, ClosesFor, OpensFor, StopCondition
  <2>. QED BY <1>a, <2>1, <2>2, <2>3
<1>3. ASSUME NEW t \in Slots, Authenticate(t) PROVE SerialInv'
  <2>1. Others(t) /\ pc[t] = "auth" /\ pc'[t] \in {"idle", "close", "open"}
    BY <1>3 DEF Authenticate, Exclusive
  <2>2. NoSideIssues'
    BY <1>3 DEF Authenticate, NoSideIssues
  <2>3. StepInv'
    BY <1>3, <2>1 DEF Authenticate, StepInv, Settled, NeedClose, ClosesFor, NoSideIssues
  <2>. QED BY <1>a, <2>1, <2>2, <2>3
<1>4. ASSUME NEW t \in Slots, CloseLeg(t) PROVE SerialInv'
  <2>1. Others(t) /\ pc[t] = "close" /\ pc'[t] \in {"idle", "clear"}
    BY <1>4 DEF CloseLeg, Exclusive
  <2>2. ~RoutesToOpen(action[t], tracked[t])
    BY <2>1 DEF StepInv, RoutesToOpen
  <2>3. \/ UNCHANGED pos /\ pc'[t] = "idle"
        \/ \A s \in Sides : pos'[s] = 0
    BY <1>4, <2>2 DEF CloseLeg, Filled, NothingToClose
  <2>4. NoSideIssues'
    BY <1>4, <2>3 DEF CloseLeg, NoSideIssues, Filled
  <2>5. StepInv'
    BY <1>4, <2>1, <2>3 DEF CloseLeg, StepInv, Settled
  <2>. QED BY <1>a, <2>1, <2>4, <2>5
<1>5. ASSUME NEW t \in Slots, ClearPosition(t) PROVE SerialInv'
  <2>1. Others(t) /\ pc[t] = "clear" /\ pc'[t] \in {"idle", "open"}
    BY <1>5 DEF ClearPosition, AfterClear, Exclusive
  <2>2. NoSideIssues'
    BY <1>5 DEF ClearPosition, AfterClear, NoSideIssues
  <2>3. StepInv'
    BY <1>5, <2>1 DEF ClearPosition, AfterClear, StepInv, Settled
  <2>. QED BY <1>a, <2>1, <2>2, <2>3
<1>6. ASSUME NEW t \in Slots, OpenLeg(t) PROVE SerialInv'
  <2>1. Others(t) /\ pc[t] = "open" /\ pc'[t] \in {"idle", "set"}
    BY <1>6 DEF OpenLeg, Exclusive
  <2>2. \/ UNCHANGED pos /\ pc'[t] = "idle"
        \/ pos' = [pos EXCEPT ![NewSide(action[t])] = @ + 1] /\ pc'[t] = "set"
    BY <1>6 DEF OpenLeg, Filled, RoutesToOpen, NoSideIssues
  <2>3. NewSide(action[t]) \in Sides /\ \A s \in Sides : pos[s] = 0
    BY <2>1, NewSideType DEF StepInv
  <2>4. NoSideIssues'
    BY <1>6, <2>2, <2>3 DEF OpenLeg, NoSideIssues, Filled
  <2>5. StepInv'
    BY <1>6, <2>1, <2>2, <2>3 DEF OpenLeg, StepInv, Settled
  <2>. QED BY <1>a, <2>1, <2>4, <2>5
<1>7. ASSUME NEW t \in Slots, SetPosition(t) PROVE SerialInv'
  <2>1. Others(t) /\ pc[t] = "set" /\ pc'[t] = "count"
    BY <1>7 DEF SetPosition, Exclusive
  <2>2. NoSideIssues'
    BY <1>7 DEF SetPosition, NoSideIssues
  <2>3. side' = NewSide(action[t])
    BY <1>7 DEF SetPosition, WriteSide
  <2>4. StepInv'
    BY <1>7, <2>1, <2>3 DEF SetPosition, StepInv, Settled
  <2>. QED BY <1>a, <2>1, <2>2, <2>4
<1>8. ASSUME NEW t \in Slots, IncrementTradeCount(t) PROVE SerialInv'
  <2>1. Others(t) /\ pc[t] = "count" /\ pc'[t] = "idle"
    BY <1>8 DEF IncrementTradeCount, Exclusive
  <2>2. NoSideIssues'
    BY <1>8 DEF IncrementTradeCount, NoSideIssues
  <2>3. StepInv'
    BY <1>8, <2>1 DEF IncrementTradeCount, StepInv, Settled
  <2>. QED BY <1>a, <2>1, <2>2, <2>3
<1>9. CASE ExternalClose
  <2>1. Exclusive' /\ NoSideIssues'
    BY <1>9 DEF ExternalClose, Exclusive, NoSideIssues
  <2>2. StepInv'
    BY <1>9 DEF ExternalClose, StepInv, Settled
  <2>. QED BY <2>1, <2>2
<1>. QED
  BY BenignSteps, <1>0, <1>1, <1>2, <1>3, <1>4, <1>5, <1>6, <1>7, <1>8, <1>9
  DEF Handle

(* Handled one at a time in a benign environment, signals never leave the  *)
(* strategy with more than one contract, and between requests whatever the *)
(* exchange holds is what Redis tracks.                                    *)
THEOREM SerialSafety == Spec => [](SinglePosition /\ HeldIsTracked)
<1> DEFINE SafeInv == Benign => SerialInv
<1>1. SafeInv => SinglePosition /\ HeldIsTracked
  <2> SUFFICES ASSUME Benign, SerialInv PROVE SinglePosition /\ HeldIsTracked
    BY DEF SinglePosition, HeldIsTracked
  <2>. QED
    BY DEF SerialInv, TypeOK, Exclusive, NoSideIssues, StepInv, Settled,
           SinglePosition, HeldIsTracked, Idle, Sides
<1>2. Init => SafeInv
  BY SerialInit
<1>3. SafeInv /\ TypeOK' /\ [Next]_vars => SafeInv'
  BY SerialStep, SettingStays
<1> HIDE DEF SafeInv
<1>. QED BY <1>1, <1>2, <1>3, TypeCorrect, PTL DEF Spec
-----------------------------------------------------------------------------
(* A request is past the decision only if one of its legs is needed.       *)
LegsNeeded ==
    \A t \in Slots :
        /\ pc[t] = "auth" => NeedClose(t) \/ NeedOpen(t)
        /\ pc[t] \in {"open", "set", "count"} => NeedOpen(t)

(* The inductive invariant: requests committed to an open leg count        *)
(* against the limit from the moment they read the state.                  *)
CountInv ==
    /\ TypeOK
    /\ LegsNeeded
    /\ count > 0 => countTTL
    /\ TradeCountExact
    /\ MaxTrades # 0 =>
          count + Cardinality(Opening) <= MaxTrades - 1 + Cardinality(Slots)

LEMMA SlotSets ==
  /\ IsFiniteSet(Slots) /\ Cardinality(Slots) \in Nat
  /\ IsFiniteSet(Booking) /\ Cardinality(Booking) \in Nat
  /\ IsFiniteSet(Opening) /\ Cardinality(Opening) \in Nat
  /\ Cardinality(Opening) <= Cardinality(Slots)
<1>1. Booking \subseteq Slots /\ Opening \subseteq Slots
  BY DEF Booking, Opening
<1>. QED BY <1>1, DualLegAssumption, FS_Subset, FS_CardinalityType

(* The same with numbers for sets, for the steps of the proof below.       *)
LEMMA Numbers ==
  ASSUME CountInv, TypeOK'
  PROVE  /\ count \in Nat /\ openLegs \in Nat /\ missed \in Nat
         /\ count' \in Nat /\ openLegs' \in Nat /\ missed' \in Nat
         /\ TradeCountExact
  BY DEF CountInv, TypeOK

LEMMA SlotSetsNext ==
  /\ IsFiniteSet(Booking') /\ Cardinality(Booking') \in Nat
  /\ IsFiniteSet(Opening') /\ Cardinality(Opening') \in Nat
  /\ Cardinality(Opening') <= Cardinality(Slots)
<1>1. Booking' \subseteq Slots /\ Opening' \subseteq Slots
  BY DEF Booking, Opening
<1>. QED BY <1>1, DualLegAssumption, FS_Subset, FS_CardinalityType

(* A step that neither books nor commits a leg, and may drop a commitment. *)
LEMMA CountQuiet ==
  ASSUME CountInv, TypeOK', UNCHANGED <<count, countTTL>>,
         openLegs' - missed' = openLegs - missed, Booking' = Booking, Opening' \subseteq Opening,
         LegsNeeded', MaxTrades' = MaxTrades, BookingReliable
  PROVE  CountInv'
<1>1. Cardinality(Opening') <= Cardinality(Opening)
  BY SlotSets, FS_Subset
<1>t. TypeOK /\ MaxTrades \in Nat
  BY SettingType DEF CountInv, TypeOK
<1>2. TradeCountExact'
  <2>1. count + Cardinality(Booking) + missed = openLegs
    BY Numbers DEF TradeCountExact
  <2>2. Cardinality(Booking') = Cardinality(Booking)
    OBVIOUS
  <2>3. count' + Cardinality(Booking') + missed' = openLegs'
    BY <2>1, <2>2, Numbers, SlotSets
  <2>. QED BY <2>3 DEF TradeCountExact
<1>3. MaxTrades # 0 =>
          count' + Cardinality(Opening') <= MaxTrades - 1 + Cardinality(Slots)
  BY <1>1, SlotSets, <1>t, SlotSetsNext DEF CountInv, TypeOK
<1>. QED BY <1>2, <1>3 DEF CountInv

LEMMA CountInit == Init => CountInv
<1> SUFFICES ASSUME Init PROVE CountInv
  OBVIOUS
<1>1. Booking = {} /\ Opening = {}
  BY DEF Init, Booking, Opening
<1>2. TradeCountExact
  BY <1>1, FS_EmptySet DEF Init, TradeCountExact
<1>3. MaxTrades # 0 =>
          count + Cardinality(Opening) <= MaxTrades - 1 + Cardinality(Slots)
  BY <1>1, FS_EmptySet, SlotSets, SettingType DEF Init
<1>4. /\ LegsNeeded
      /\ count > 0 => countTTL
  BY DEF Init, LegsNeeded
<1>. QED BY InitTypeOK, <1>2, <1>3, <1>4 DEF CountInv

(* An open leg is booked next, was not executed, or is missed.             *)
LEMMA OpenLegCounts ==
  ASSUME NEW t \in Slots, OpenLeg(t)
  PROVE  \/ openLegs' = openLegs + 1 /\ missed' = missed /\ Goto(t, "set")
         \/ openLegs' = openLegs /\ missed' = missed /\ pc' = [pc EXCEPT ![t] = "idle"]
         \/ openLegs' = openLegs + 1 /\ missed' = missed + 1 /\ pc' = [pc EXCEPT ![t] = "idle"]
<1>1. \/ openLegs' = openLegs + 1 /\ UNCHANGED missed /\ Goto(t, "set")
      \/ UNCHANGED legs /\ Finish(t, "open_failed")
      \/ openLegs' = openLegs + 1 /\ missed' = missed + 1 /\ Finish(t, "open_failed")
  BY DEF OpenLeg, exch
<1>2. Finish(t, "open_failed") => pc' = [pc EXCEPT ![t] = "idle"]
  BY DEF Finish
<1>3. UNCHANGED legs => openLegs' = openLegs /\ missed' = missed
  BY DEF legs
<1>. QED BY <1>1, <1>2, <1>3

LEMMA CountStep ==
  ASSUME BookingReliable, CountInv, TypeOK', [Next]_vars
  PROVE  CountInv'
<1> USE DEF TypeOK, Sides, Actions, NoSide, Goto, Finish, local, redis, exch, legs,
            Booking, Opening, NeedOpen, NeedClose, OpensFor, LegsNeeded
<1> HIDE DEF TypeOK
<1>t. TypeOK
  BY DEF CountInv
<1>n. LegsNeeded
  BY DEF CountInv
<1>m. MaxTrades' = MaxTrades /\ MaxTrades \in Nat
  BY <1>t, SettingStays, SettingType DEF TypeOK
<1>0. CASE UNCHANGED vars
  BY <1>0, <1>n, <1>m, CountQuiet DEF vars
<1>1. ASSUME NEW t \in Slots, Receive(t) PROVE CountInv'
  BY <1>1, <1>t, <1>n, <1>m, CountQuiet DEF Receive, TypeOK
<1>2. ASSUME NEW t \in Slots, ReadState(t) PROVE CountInv'
  <2>1. CASE Opening' \subseteq Opening
    BY <1>2, <2>1, <1>t, <1>n, <1>m, CountQuiet DEF ReadState, TypeOK
  <2>2. CASE ~(Opening' \subseteq Opening)
    <3>1. ~StopCondition(count)
      BY <1>2, <2>2, <1>t DEF ReadState, TypeOK, BookingReliable
    <3>2. MaxTrades # 0 => count <= MaxTrades - 1
      BY <3>1, <1>t, <1>m DEF StopCondition, TypeOK
    <3>3. Booking' = Booking /\ UNCHANGED <<count, countTTL, legs>>
      BY <1>2, <1>t DEF ReadState, TypeOK
    <3>4. LegsNeeded'
      <4>1. pc' = [pc EXCEPT ![t] = "auth"] /\ UNCHANGED <<action, kind>>
        BY <1>2, <2>2, <1>t DEF ReadState, TypeOK
      <4>2. t \in Opening'
        BY <1>2, <2>2, <4>1, <1>t DEF ReadState, TypeOK
      <4>3. \A u \in Slots \ {t} : tracked'[u] = tracked[u] /\ stop'[u] = stop[u]
        BY <1>2, <1>t DEF ReadState, TypeOK
      <4>4. pc'[t] = "auth" /\ NeedOpen(t)'
        BY <4>1, <4>2, <1>t DEF TypeOK
      <4>5. ASSUME NEW u \in Slots \ {t}
            PROVE  pc'[u] = pc[u] /\ NeedOpen(u)' = NeedOpen(u) /\ NeedClose(u)' = NeedClose(u)
        BY <4>1, <4>3, <1>t DEF TypeOK
      <4>6. ASSUME NEW u \in Slots
            PROVE  /\ pc'[u] = "auth" => NeedClose(u)' \/ NeedOpen(u)'
                   /\ pc'[u] \in {"open", "set", "count"} => NeedOpen(u)'
        <5>1. CASE u = t
          BY <5>1, <4>4
        <5>2. CASE u # t
          <6> HIDE DEF NeedOpen, NeedClose
          <6>. QED BY <5>2, <4>5, <1>n
        <5>. QED BY <5>1, <5>2
      <4>. QED BY <4>6
    <3>5. MaxTrades # 0 =>
            count' + Cardinality(Opening') <= MaxTrades - 1 + Cardinality(Slots)
      BY <3>2, <3>3, <1>t, SlotSets, SlotSetsNext, <1>m DEF TypeOK
    <3>6. TradeCountExact'
      BY <3>3 DEF CountInv, TradeCountExact
    <3>. QED BY <3>3, <3>4, <3>5, <3>6, <1>m DEF CountInv
  <2>. QED BY <2>1, <2>2
<1>3. ASSUME NEW t \in Slots, Authenticate(t) PROVE CountInv'
  <2>1. Booking' = Booking /\ Opening' \subseteq Opening
    BY <1>3, <1>t DEF Authenticate, TypeOK
  <2>2. LegsNeeded'
    <3>1. CASE Finish(t, "broker_not_found")
      BY <1>3, <3>1, <1>t, <1>n DEF TypeOK
    <3>2. CASE Goto(t, IF NeedClose(t) THEN "close" ELSE "open")
      BY <1>3, <3>2, <1>t, <1>n DEF TypeOK, Authenticate
    <3>. QED BY <1>3, <3>1, <3>2 DEF Authenticate
  <2>. QED BY <1>3, <2>1, <2>2, <1>m, CountQuiet DEF Authenticate
<1>4. ASSUME NEW t \in Slots, CloseLeg(t) PROVE CountInv'
  BY <1>4, <1>t, <1>n, <1>m, CountQuiet DEF CloseLeg, TypeOK
<1>5. ASSUME NEW t \in Slots, ClearPosition(t) PROVE CountInv'
  BY <1>5, <1>t, <1>n, <1>m, CountQuiet DEF ClearPosition, AfterClear, TypeOK
<1>6. ASSUME NEW t \in Slots, OpenLeg(t) PROVE CountInv'
  <2>1. CASE openLegs' - missed' = openLegs - missed /\ pc'[t] = "idle"
    BY <1>6, <2>1, <1>t, <1>n, <1>m, CountQuiet DEF OpenLeg, TypeOK
  <2>2. CASE openLegs' = openLegs + 1 /\ UNCHANGED missed /\ Goto(t, "set")
    <3>1. Booking' = Booking \cup {t} /\ t \notin Booking /\ Opening' = Opening
      BY <1>6, <2>2, <1>t DEF OpenLeg, TypeOK
    <3>2. Cardinality(Booking') = Cardinality(Booking) + 1
      BY <3>1, SlotSets, FS_AddElement
    <3>3. UNCHANGED <<count, countTTL>>
      BY <1>6 DEF OpenLeg
    <3>4. TradeCountExact'
      <4>1. count + Cardinality(Booking) + missed = openLegs
        BY Numbers DEF TradeCountExact
      <4>2. count' + Cardinality(Booking') + missed' = openLegs'
        BY <2>2, <3>2, <3>3, <4>1, Numbers, SlotSets
      <4>. QED BY <4>2 DEF TradeCountExact
    <3>5. LegsNeeded'
      BY <1>6, <2>2, <1>t, <1>n DEF OpenLeg, TypeOK
    <3>. QED BY <3>1, <3>3, <3>4, <3>5, <1>m DEF CountInv
  <2>3. \/ openLegs' - missed' = openLegs - missed /\ pc'[t] = "idle"
        \/ openLegs' = openLegs + 1 /\ UNCHANGED missed /\ Goto(t, "set")
    <3>1. pc' = [pc EXCEPT ![t] = "idle"] => pc'[t] = "idle"
      BY <1>t DEF TypeOK
    <3>2. openLegs \in Nat /\ missed \in Nat
      BY Numbers
    <3>. QED BY <1>6, <3>1, <3>2, OpenLegCounts
  <2>. QED BY <2>1, <2>2, <2>3
<1>7. ASSUME NEW t \in Slots, SetPosition(t) PROVE CountInv'
  BY <1>7, <1>t, <1>n, <1>m, CountQuiet DEF SetPosition, TypeOK
<1>8. ASSUME NEW t \in Slots, IncrementTradeCount(t) PROVE CountInv'
  <2>1. count' = count + 1 /\ countTTL' = TRUE /\ UNCHANGED legs
    BY <1>8 DEF IncrementTradeCount, BookingReliable
  <2>2. Booking' = Booking \ {t} /\ t \in Booking
    BY <1>8, <1>t DEF IncrementTradeCount, TypeOK
  <2>3. Opening' = Opening \ {t} /\ t \in Opening
    BY <1>8, <1>t, <1>n DEF IncrementTradeCount, TypeOK
  <2>4. /\ Cardinality(Booking') = Cardinality(Booking) - 1
        /\ Cardinality(Opening') = Cardinality(Opening) - 1
    BY <2>2, <2>3, SlotSets, FS_RemoveElement
  <2>5. TradeCountExact'
    <3>1. count + Cardinality(Booking) + missed = openLegs
      BY Numbers DEF TradeCountExact
    <3>2. count' + Cardinality(Booking') + missed' = openLegs'
      BY <2>1, <2>4, <3>1, Numbers, SlotSets
    <3>. QED BY <3>2 DEF TradeCountExact
  <2>6. MaxTrades # 0 =>
            count' + Cardinality(Opening') <= MaxTrades - 1 + Cardinality(Slots)
    BY <2>1, <2>4, SlotSets, <1>t, <1>m DEF CountInv, TypeOK
  <2>7. LegsNeeded'
    BY <1>8, <1>t, <1>n DEF IncrementTradeCount, TypeOK
  <2>. QED BY <2>1, <2>5, <2>6, <2>7, <1>m DEF CountInv
<1>9. CASE Midnight
  <2>1. /\ count' = 0 /\ openLegs' = Cardinality(Booking) /\ missed' = 0
        /\ UNCHANGED <<pc, local>>
    BY <1>9, <1>t DEF Midnight, CountInv, TypeOK
  <2>2. Booking' = Booking /\ Opening' = Opening
    BY <2>1
  <2>3. TradeCountExact'
    BY <2>1, <2>2, SlotSets DEF TradeCountExact
  <2>4. MaxTrades # 0 =>
            count' + Cardinality(Opening') <= MaxTrades - 1 + Cardinality(Slots)
    BY <2>1, <2>2, SlotSets, <1>m
  <2>. QED BY <2>1, <2>3, <2>4, <1>n, <1>m DEF CountInv
<1>10. CASE TradingHoursChange
  BY <1>10, <1>n, <1>m, CountQuiet DEF TradingHoursChange
<1>11. CASE ExternalClose
  BY <1>11, <1>n, <1>m, CountQuiet DEF ExternalClose
<1>12. ASSUME NEW s \in Sides, RestingOrderFills(s) PROVE CountInv'
  <2>1. openLegs' - missed' = openLegs - missed
    BY <1>12, <1>t DEF RestingOrderFills, TypeOK
  <2>. QED BY <1>12, <2>1, <1>n, <1>m, CountQuiet DEF RestingOrderFills
<1>13. CASE Crash
  <2>1. Booking' = {} /\ Opening' = {} /\ LegsNeeded'
    BY <1>13 DEF Crash
  <2>2. Cardinality(Booking') = 0 /\ Cardinality(Opening') = 0
    BY <2>1, FS_EmptySet
  <2>3. TradeCountExact'
    <3>1. count + Cardinality(Booking) + missed = openLegs
      BY Numbers DEF TradeCountExact
    <3>2. UNCHANGED <<count, openLegs>> /\ missed' = missed + Cardinality(Booking)
      BY <1>13 DEF Crash
    <3>3. count' + Cardinality(Booking') + missed' = openLegs'
      BY <2>2, <3>1, <3>2, Numbers, SlotSets
    <3>. QED BY <3>3 DEF TradeCountExact
  <2>4. MaxTrades # 0 =>
            count' + Cardinality(Opening') <= MaxTrades - 1 + Cardinality(Slots)
    BY <1>13, <1>t, <2>2, SlotSets, <1>m DEF Crash, CountInv, TypeOK
  <2>5. count' > 0 => countTTL'
    BY <1>13 DEF Crash, CountInv
  <2>. QED BY <2>1, <2>3, <2>4, <2>5, <1>m DEF CountInv
<1>. QED
  BY <1>0, <1>1, <1>2, <1>3, <1>4, <1>5, <1>6, <1>7, <1>8, <1>9, <1>10, <1>11,
     <1>12, <1>13 DEF Next, Handle, Environment

(* However many signals are handled at once, trade_count is the number of  *)
(* open legs executed today less those being booked and those missed, and  *)
(* a day's open legs exceed max_trades by at most the number of concurrent *)
(* requests less one and the number of legs missed.                        *)
THEOREM TradeLimit == Spec => [](TradeCountExact /\ MaxTradesOvershoot)
<1> DEFINE SafeInv == BookingReliable => CountInv
<1>1. SafeInv => TradeCountExact /\ MaxTradesOvershoot
  <2> SUFFICES ASSUME BookingReliable, CountInv
               PROVE  TradeCountExact /\ MaxTradesOvershoot
    BY DEF TradeCountExact, MaxTradesOvershoot
  <2>1. Booking \subseteq Opening
    BY DEF CountInv, Booking, Opening, LegsNeeded, TypeOK
  <2>2. Cardinality(Booking) <= Cardinality(Opening)
    BY <2>1, SlotSets, FS_Subset
  <2>3. TradeCountExact
    BY DEF CountInv
  <2>. QED
    BY <2>2, <2>3, SlotSets, SettingType
    DEF CountInv, TypeOK, TradeCountExact, MaxTradesOvershoot
<1>2. Init => SafeInv
  BY CountInit
<1>3. SafeInv /\ TypeOK' /\ [Next]_vars => SafeInv'
  BY CountStep, SettingStays
<1> HIDE DEF SafeInv
<1>. QED BY <1>1, <1>2, <1>3, TypeCorrect, PTL DEF Spec
-----------------------------------------------------------------------------
(* A request only gets to its close leg with a side to close, on the other *)
(* side of its signal unless it met the stop condition.                    *)
CloseNeeded == \A t \in Slots : pc[t] = "close" => NeedClose(t)

LEMMA CloseNeededStep == TypeOK /\ CloseNeeded /\ [Next]_vars => CloseNeeded'
<1> SUFFICES ASSUME TypeOK, CloseNeeded, [Next]_vars PROVE CloseNeeded'
  OBVIOUS
<1> USE DEF TypeOK, Goto, Finish, local
<1> DEFINE Same(u) == /\ pc'[u] = pc[u] /\ tracked'[u] = tracked[u]
                      /\ stop'[u] = stop[u] /\ action'[u] = action[u]
<1>s. ASSUME \A u \in Slots : Same(u) \/ pc'[u] # "close" PROVE CloseNeeded'
  BY <1>s DEF CloseNeeded, NeedClose
<1>1. ASSUME NEW t \in Slots, Receive(t) \/ ReadState(t) PROVE CloseNeeded'
  <2>1. /\ \A u \in Slots \ {t} : Same(u)
        /\ pc'[t] # "close"
    BY <1>1 DEF Receive, ReadState
  <2>. QED BY <2>1, <1>s
<1>2. ASSUME NEW t \in Slots, Authenticate(t) PROVE CloseNeeded'
  <2>1. CASE Goto(t, IF NeedClose(t) THEN "close" ELSE "open")
    <3>1. /\ \A u \in Slots \ {t} : Same(u)
          /\ pc'[t] = "close" => NeedClose(t)
          /\ UNCHANGED local
      BY <2>1
    <3>. QED BY <3>1 DEF CloseNeeded, NeedClose
  <2>2. CASE Finish(t, "broker_not_found")
    <3>1. (\A u \in Slots \ {t} : Same(u)) /\ pc'[t] # "close"
      BY <2>2
    <3>. QED BY <3>1, <1>s
  <2>. QED BY <1>2, <2>1, <2>2 DEF Authenticate
<1>3. ASSUME NEW t \in Slots, CloseLeg(t) \/ ClearPosition(t) \/ OpenLeg(t) \/ SetPosition(t)
                              \/ IncrementTradeCount(t)
      PROVE  CloseNeeded'
  <2>1. /\ \A u \in Slots \ {t} : Same(u)
        /\ pc'[t] # "close"
    BY <1>3 DEF CloseLeg, ClearPosition, AfterClear, OpenLeg, SetPosition, IncrementTradeCount
  <2>. QED BY <2>1, <1>s
<1>4. CASE Environment
  <2>1. \A u \in Slots : Same(u) \/ pc'[u] # "close"
    BY <1>4 DEF Environment, Midnight, TradingHoursChange, ExternalClose, RestingOrderFills, Crash
  <2>. QED BY <2>1, <1>s
<1>5. CASE UNCHANGED vars
  BY <1>5, <1>s DEF vars
<1>. QED BY <1>1, <1>2, <1>3, <1>4, <1>5 DEF Next, Handle

(* Only its own close leg takes a request on to clearing the side.         *)
LEMMA OnlyCloseLegClears ==
  ASSUME TypeOK, [Next]_vars, NEW t \in Slots, pc[t] = "close", pc'[t] = "clear"
  PROVE  CloseLeg(t)
<1> USE DEF TypeOK, Goto, Finish, local
<1>1. ASSUME NEW u \in Slots \ {t}, Receive(u) \/ Handle(u) PROVE FALSE
  <2>1. \E step : pc' = [pc EXCEPT ![u] = step]
    BY <1>1 DEF Receive, Handle, ReadState, Authenticate, CloseLeg, ClearPosition, AfterClear,
                OpenLeg, SetPosition, IncrementTradeCount
  <2>. QED BY <2>1
<1>2. CASE Receive(t) \/ Handle(t)
  BY <1>2 DEF Receive, Handle, ReadState, Authenticate, ClearPosition, OpenLeg, SetPosition,
              IncrementTradeCount
<1>3. CASE Environment \/ UNCHANGED vars
  BY <1>3 DEF Environment, Midnight, TradingHoursChange, ExternalClose, RestingOrderFills, Crash,
              vars
<1>. QED BY <1>1, <1>2, <1>3 DEF Next

(* Whatever fails, is lost or runs at the same time, a close leg of a      *)
(* reversal that is taken for a success leaves nothing held.               *)
THEOREM ReversalClosesFirst == Spec => ConfirmedCloseIsFlat
<1>1. Init => CloseNeeded
  BY DEF Init, CloseNeeded
<1>2. TypeOK /\ CloseNeeded /\ [Next]_vars
        => [\A t \in Slots : pc[t] = "close" /\ pc'[t] = "clear" /\ ~stop[t]
               => \A s \in Sides : pos'[s] = 0]_vars
  <2> SUFFICES ASSUME TypeOK, CloseNeeded, [Next]_vars, NEW t \in Slots,
                      pc[t] = "close", pc'[t] = "clear", ~stop[t], NEW s \in Sides
               PROVE  pos'[s] = 0
    OBVIOUS
  <2>1. CloseLeg(t)
    BY OnlyCloseLegClears
  <2>2. ~RoutesToOpen(action[t], tracked[t])
    BY DEF CloseNeeded, NeedClose, ClosesFor, RoutesToOpen
  <2>. QED BY <2>1, <2>2 DEF CloseLeg, Filled, NothingToClose, Finish, TypeOK, exch
<1>. QED BY <1>1, <1>2, CloseNeededStep, TypeCorrect, PTL DEF Spec, ConfirmedCloseIsFlat
=============================================================================
