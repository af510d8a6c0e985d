--------------------------- MODULE SignalsProofs ---------------------------
(***************************************************************************)
(* Theorems about Signals, for any strategies, limits and faults and any   *)
(* finite number of webhooks at a time.                                    *)
(***************************************************************************)
EXTENDS Signals, FiniteSetTheorems, TLAPS

(* TypeOK in the parts that change together.                               *)
HooksOK ==
    /\ pc \in [Hooks -> {"idle", "run", "log", "failed"}]
    /\ action \in [Hooks -> Actions]
    /\ step \in [Hooks -> [Strategies -> Steps]]
    /\ filled \in [Hooks -> SUBSET Strategies]

CountersOK ==
    /\ positions \in [Strategies -> Int] /\ signals \in [Strategies -> Nat]
    /\ logged \in [Strategies -> Nat]
    /\ fills \in [Strategies -> Nat] /\ today \in [Strategies -> Nat]
    /\ escaped \in [Strategies -> Nat]
    /\ received \in Nat

(* Steps before an order is noted as filled.                               *)
Pending == {"rules", "order", "paper", "held"}

(* A webhook has steps only while its orders run; an order is placed once, *)
(* and what a webhook has had filled is forgotten with it.                 *)
StepsOK ==
    \A h \in Hooks :
        /\ pc[h] \notin {"run", "failed"} => \A s \in Strategies : step[h][s] = "none"
        /\ pc[h] = "idle" => filled[h] = {}
        /\ \A s \in Strategies :
              step[h][s] \in Pending => s \notin filled[h]

Inv == HooksOK /\ CountersOK /\ StepsOK /\ faults \subseteq Events

-----------------------------------------------------------------------------
LEMMA InitInv == Init => Inv
<1> SUFFICES ASSUME Init PROVE Inv
  OBVIOUS
<1>1. HooksOK
  BY DEF Init, HooksOK, Actions, Steps
<1>2. CountersOK
  BY DEF Init, CountersOK
<1>. QED BY <1>1, <1>2 DEF Init, Inv, StepsOK, Events

LEMMA NumberType ==
  ASSUME NEW Q, NEW s PROVE Number(Q, s) \in Nat
<1>1. IsFiniteSet({h \in Hooks : step[h][s] \in Q})
  BY SignalsAssumption, FS_Subset
<1>. QED BY <1>1, FS_CardinalityType DEF Number

LEMMA ForgetHooks ==
  ASSUME HooksOK, NEW H, Forget(H) PROVE HooksOK'
BY DEF HooksOK, Forget, Actions, Steps

LEMMA ForgetSteps ==
  ASSUME HooksOK, StepsOK, NEW H, Forget(H) PROVE StepsOK'
BY DEF HooksOK, StepsOK, Forget

LEMMA GotoHooks ==
  ASSUME HooksOK, NEW h \in Hooks, NEW s \in Strategies, NEW n \in Steps, Goto(h, s, n)
  PROVE  /\ step' \in [Hooks -> [Strategies -> Steps]]
         /\ step'[h][s] = n
         /\ \A k \in Hooks, u \in Strategies :
               k # h \/ u # s => step'[k][u] = step[k][u]
BY DEF HooksOK, Goto

(* A step of a running webhook that fills nothing.                         *)
LEMMA GotoSteps ==
  ASSUME HooksOK, StepsOK, NEW h \in Hooks, NEW s \in Strategies, NEW n \in Steps,
         Goto(h, s, n), step[h][s] # "none",
         n \in Pending => step[h][s] \in Pending,
         UNCHANGED <<pc, action, filled>>
  PROVE  HooksOK' /\ StepsOK'
<1>1. HooksOK'
  BY GotoHooks DEF HooksOK
<1>2. pc[h] \in {"run", "failed"}
  BY DEF StepsOK, HooksOK
<1>3. ASSUME NEW k \in Hooks, NEW u \in Strategies, k # h \/ u # s
      PROVE  step'[k][u] = step[k][u]
  BY <1>3, GotoHooks
<1>4. step'[h][s] = n
  BY GotoHooks
<1>5. ASSUME NEW k \in Hooks PROVE
        /\ pc'[k] \notin {"run", "failed"} => \A u \in Strategies : step'[k][u] = "none"
        /\ pc'[k] = "idle" => filled'[k] = {}
  BY <1>2, <1>3 DEF StepsOK
<1>6. ASSUME NEW k \in Hooks, NEW u \in Strategies,
             step'[k][u] \in Pending
      PROVE  u \notin filled'[k]
  <2>1. CASE k # h \/ u # s
    BY <2>1, <1>3, <1>6 DEF StepsOK
  <2>2. CASE k = h /\ u = s
    BY <2>2, <1>4, <1>6 DEF StepsOK
  <2>. QED BY <2>1, <2>2
<1>. QED BY <1>1, <1>5, <1>6 DEF StepsOK

(* A step that fills the order of strategy s.                              *)
LEMMA FillSteps ==
  ASSUME HooksOK, StepsOK, NEW h \in Hooks, NEW s \in Strategies, NEW n \in Steps,
         Goto(h, s, n), step[h][s] # "none", n \in Booking,
         Fill(h, s), UNCHANGED <<pc, action>>
  PROVE  HooksOK' /\ StepsOK'
<1>1. HooksOK'
  BY GotoHooks DEF HooksOK, Fill
<1>2. pc[h] \in {"run", "failed"}
  BY DEF StepsOK, HooksOK
<1>3. ASSUME NEW k \in Hooks, NEW u \in Strategies, k # h \/ u # s
      PROVE  step'[k][u] = step[k][u] /\ (u \in filled'[k] <=> u \in filled[k])
  BY <1>3, GotoHooks DEF Fill, HooksOK
<1>4. step'[h][s] = n
  BY GotoHooks
<1>5. ASSUME NEW k \in Hooks PROVE
        /\ pc'[k] \notin {"run", "failed"} => \A u \in Strategies : step'[k][u] = "none"
        /\ pc'[k] = "idle" => filled'[k] = {}
  BY <1>2, <1>3 DEF StepsOK, Fill, HooksOK
<1>6. ASSUME NEW k \in Hooks, NEW u \in Strategies,
             step'[k][u] \in Pending
      PROVE  u \notin filled'[k]
  <2>1. k # h \/ u # s
    BY <1>4, <1>6 DEF Booking, Pending
  <2>. QED BY <2>1, <1>3, <1>6 DEF StepsOK
<1>. QED BY <1>1, <1>5, <1>6 DEF StepsOK

LEMMA FillCounters ==
  ASSUME CountersOK, NEW h, NEW s \in Strategies, Fill(h, s)
  PROVE  fills' \in [Strategies -> Nat] /\ today' \in [Strategies -> Nat]
BY DEF CountersOK, Fill

LEMMA FaultType ==
  ASSUME faults \subseteq Events, NEW e \in Events, Fault(e) PROVE faults' \subseteq Events
BY DEF Fault

LEMMA HandleInv ==
  ASSUME Inv, NEW h \in Hooks, NEW s \in Strategies, Handle(h, s) PROVE Inv'
<1> USE DEF Inv
<1>f. ASSUME UNCHANGED faults \/ (\E e \in Events : Fault(e)) PROVE faults' \subseteq Events
  BY <1>f, FaultType
<1>1. CASE Evaluate(h, s)
  <2>1. PICK n \in {"none", "order", "paper"} : Goto(h, s, n)
    BY <1>1 DEF Evaluate, Start
  <2>2. HooksOK' /\ StepsOK'
    BY <1>1, <2>1, GotoSteps DEF Evaluate, Steps, Pending
  <2>3. CountersOK'
    BY <1>1 DEF Evaluate, CountersOK, redis
  <2>. QED BY <1>1, <2>2, <2>3, <1>f DEF Evaluate, Events
<1>2. CASE PlaceOrder(h, s)
  <2>1. CASE Fill(h, s) /\ Goto(h, s, "positions") /\ UNCHANGED faults
    <3>1. HooksOK' /\ StepsOK'
      BY <1>2, <2>1, FillSteps DEF PlaceOrder, Steps, Booking
    <3>2. CountersOK'
      BY <1>2, <2>1, FillCounters DEF PlaceOrder, CountersOK, redis
    <3>. QED BY <2>1, <3>1, <3>2
  <2>2. CASE Goto(h, s, "none") /\ UNCHANGED filled
    <3>1. HooksOK' /\ StepsOK'
      BY <1>2, <2>2, GotoSteps DEF PlaceOrder, Steps, Pending
    <3>2. CountersOK'
      BY <1>2, FillCounters DEF PlaceOrder, CountersOK, redis, history
    <3>3. faults' \subseteq Events
      BY <1>2, <1>f DEF PlaceOrder, Events, history
    <3>. QED BY <3>1, <3>2, <3>3
  <2>. QED BY <1>2, <2>1, <2>2 DEF PlaceOrder
<1>3. CASE PaperTrade(h, s)
  <2>1. PICK n \in {"none", "held"} : Goto(h, s, n)
    BY <1>3 DEF PaperTrade
  <2>2. HooksOK' /\ StepsOK'
    BY <1>3, <2>1, GotoSteps DEF PaperTrade, Steps, Pending
  <2>. QED BY <1>3, <2>2 DEF PaperTrade, CountersOK, redis, history
<1>4. CASE CountPaper(h, s)
  <2>1. HooksOK' /\ StepsOK'
    BY <1>4, FillSteps DEF CountPaper, Steps, Booking
  <2>2. CountersOK'
    BY <1>4, FillCounters DEF CountPaper, CountersOK, redis
  <2>. QED BY <1>4, <2>1, <2>2 DEF CountPaper
<1>5. CASE UpdatePositions(h, s)
  <2>1. PICK n \in {"decr", "signals"} : Goto(h, s, n)
    BY <1>5 DEF UpdatePositions
  <2>2. HooksOK' /\ StepsOK'
    BY <1>5, <2>1, GotoSteps DEF UpdatePositions, Steps, Pending
  <2>3. CountersOK'
    BY <1>5 DEF UpdatePositions, CountersOK
  <2>. QED BY <1>5, <2>2, <2>3, <1>f DEF UpdatePositions, Events
<1>6. CASE Decrement(h, s)
  <2>1. HooksOK' /\ StepsOK'
    BY <1>6, GotoSteps DEF Decrement, Steps, Pending
  <2>2. CountersOK'
    BY <1>6 DEF Decrement, CountersOK
  <2>. QED BY <1>6, <2>1, <2>2, <1>f DEF Decrement, Events
<1>7. CASE CountSignal(h, s)
  <2>1. HooksOK' /\ StepsOK'
    BY <1>7, GotoSteps DEF CountSignal, Steps, Pending
  <2>2. CountersOK'
    BY <1>7 DEF CountSignal, CountersOK
  <2>. QED BY <1>7, <2>1, <2>2, <1>f DEF CountSignal, Events
<1>. QED BY <1>1, <1>2, <1>3, <1>4, <1>5, <1>6, <1>7 DEF Handle

LEMMA RaiseInv ==
  ASSUME Inv, NEW h \in Hooks, NEW s \in Strategies, Raise(h, s) PROVE Inv'
<1>1. HooksOK'
  BY DEF Raise, Inv, HooksOK, Steps
<1>2. \A k \in Hooks, u \in Strategies : step'[k][u] \in {step[k][u], "none"}
  BY DEF Raise, Inv, HooksOK
<1>3. StepsOK'
  BY <1>2 DEF Raise, Inv, HooksOK, StepsOK, Pending
<1>4. CountersOK' /\ faults' \subseteq Events
  BY FaultType DEF Raise, Inv, CountersOK, redis, Events
<1>. QED BY <1>1, <1>3, <1>4 DEF Inv

LEMMA InvStep == Inv /\ [Next]_vars => Inv'
<1> SUFFICES ASSUME Inv, [Next]_vars PROVE Inv'
  OBVIOUS
<1> USE DEF Inv
<1>1. ASSUME NEW h \in Hooks, Receive(h) PROVE Inv'
  <2>1. PICK a \in Actions, S \in SUBSET Strategies :
           /\ action' = [action EXCEPT ![h] = a]
           /\ step' = [step EXCEPT ![h] =
                         [s \in Strategies |-> IF s \in S THEN "rules" ELSE "none"]]
    BY <1>1 DEF Receive
  <2>2. HooksOK'
    BY <1>1, <2>1 DEF Receive, HooksOK, Steps
  <2>3. StepsOK'
    BY <1>1, <2>1 DEF Receive, HooksOK, StepsOK
  <2>4. CountersOK'
    BY <1>1 DEF Receive, CountersOK, redis, history
  <2>. QED BY <1>1, <2>2, <2>3, <2>4 DEF Receive, history
<1>2. ASSUME NEW h \in Hooks, Respond(h) PROVE Inv'
  <2>1. HooksOK' /\ StepsOK'
    BY <1>2 DEF Respond, HooksOK, StepsOK
  <2>. QED BY <1>2, <2>1 DEF Respond, CountersOK, redis, history
<1>7. ASSUME NEW h \in Hooks, Gone(h) PROVE Inv'
  <2>1. HooksOK' /\ StepsOK'
    BY <1>7, ForgetHooks, ForgetSteps DEF Gone
  <2>. QED BY <1>7, <2>1 DEF Gone, CountersOK, redis
<1>3. ASSUME NEW h \in Hooks, WriteLog(h) PROVE Inv'
  <2>1. HooksOK' /\ StepsOK'
    BY <1>3, ForgetHooks, ForgetSteps DEF WriteLog
  <2>2. logged' \in [Strategies -> Nat]
    BY <1>3 DEF WriteLog, CountersOK
  <2>3. CountersOK'
    BY <1>3, <2>2 DEF WriteLog, CountersOK, redis
  <2>4. faults' \subseteq Events
    BY <1>3, FaultType DEF WriteLog, Events
  <2>. QED BY <2>1, <2>3, <2>4
<1>4. ASSUME Midnight PROVE Inv'
  <2>1. signals' \in [Strategies -> Nat] /\ today' \in [Strategies -> Nat]
    BY <1>4, NumberType DEF Midnight
  <2>2. HooksOK' /\ StepsOK'
    BY <1>4 DEF Midnight, HooksOK, StepsOK, hooks
  <2>. QED BY <1>4, <2>1, <2>2 DEF Midnight, CountersOK
<1>5. ASSUME Crash PROVE Inv'
  <2>1. HooksOK' /\ StepsOK'
    BY <1>5, ForgetHooks, ForgetSteps DEF Crash
  <2>2. CountersOK' /\ faults' \subseteq Events
    BY <1>5, FaultType DEF Crash, CountersOK, redis, Events
  <2>. QED BY <2>1, <2>2
<1>6. CASE UNCHANGED vars
  BY <1>6 DEF vars, redis, hooks, history, HooksOK, CountersOK, StepsOK
<1>. QED BY <1>1, <1>2, <1>3, <1>4, <1>5, <1>6, <1>7, HandleInv, RaiseInv DEF Next

(* Every behaviour is well typed: whatever fails or races, the day's count *)
(* of signals is a natural number and no unknown step is reached.          *)
THEOREM TypeCorrect == Spec => []TypeOK
<1>1. Inv => TypeOK
  BY DEF Inv, HooksOK, CountersOK, TypeOK
<1>. QED BY InitInv, InvStep, <1>1, PTL DEF Spec

-----------------------------------------------------------------------------
(* How many webhooks are at one of the steps Q for a strategy.             *)

LEMMA NumberBound ==
  ASSUME NEW Q, NEW s PROVE Number(Q, s) <= Cardinality(Hooks)
BY SignalsAssumption, FS_Subset DEF Number

(* Another webhook fits in as long as one is not there.                    *)
LEMMA NumberRoom ==
  ASSUME NEW Q, NEW s, NEW h \in Hooks, step[h][s] \notin Q
  PROVE  Number(Q, s) <= Cardinality(Hooks) - 1
<1> DEFINE A == {k \in Hooks : step[k][s] \in Q}
<1>1. A \subseteq Hooks \ {h} /\ IsFiniteSet(Hooks \ {h})
  BY SignalsAssumption, FS_Subset
<1>2. Cardinality(A) <= Cardinality(Hooks \ {h})
  BY <1>1, FS_Subset
<1>3. Cardinality(Hooks \ {h}) = Cardinality(Hooks) - 1
  BY SignalsAssumption, FS_RemoveElement
<1>. QED BY <1>2, <1>3 DEF Number

LEMMA NumberSame ==
  ASSUME NEW Q, NEW s, \A h \in Hooks : step'[h][s] \in Q <=> step[h][s] \in Q
  PROVE  Number(Q, s)' = Number(Q, s)
BY DEF Number

(* Webhooks move nowhere else.                                             *)
LEMMA NumberFewer ==
  ASSUME NEW Q, "none" \notin Q, NEW s,
         \A h \in Hooks : step'[h][s] \in {step[h][s], "none"}
  PROVE  Number(Q, s)' \in Nat /\ Number(Q, s)' <= Number(Q, s)
<1> DEFINE A == {k \in Hooks : step[k][s] \in Q}
           B == {k \in Hooks : step'[k][s] \in Q}
<1>1. B \subseteq A
  OBVIOUS
<1>2. IsFiniteSet(A)
  BY SignalsAssumption, FS_Subset
<1>3. IsFiniteSet(B) /\ Cardinality(B) <= Cardinality(A) /\ Cardinality(B) \in Nat
  BY <1>1, <1>2, FS_Subset, FS_CardinalityType
<1>. QED BY <1>3 DEF Number

(* A crash or an exception in the rules ends shares and starts none.       *)
LEMMA NumberEnds ==
  ASSUME Inv, NEW Q, "none" \notin Q, NEW s \in Strategies,
         Crash \/ \E h \in Hooks, u \in Strategies : Raise(h, u)
  PROVE  Number(Q, s)' \in Nat /\ Number(Q, s)' <= Number(Q, s)
<1>1. ASSUME Crash, NEW k \in Hooks PROVE step'[k][s] \in {step[k][s], "none"}
  BY <1>1 DEF Crash, Forget
<1>2. ASSUME NEW h \in Hooks, NEW u \in Strategies, Raise(h, u), NEW k \in Hooks
      PROVE  step'[k][s] \in {step[k][s], "none"}
  <2>1. step' = [step EXCEPT ![h] =
                   [v \in Strategies |->
                      IF step[h][v] \in {"rules", "paper", "held"} THEN "none"
                      ELSE step[h][v]]]
    BY <1>2 DEF Raise
  <2>2. k # h => step'[k] = step[k]
    BY <2>1 DEF Inv, HooksOK
  <2>3. step'[h][s] \in {step[h][s], "none"}
    BY <2>1 DEF Inv, HooksOK
  <2>. QED BY <2>2, <2>3
<1>. QED BY <1>1, <1>2, NumberFewer

(* One webhook moves to step n for strategy s.                             *)
LEMMA NumberMove ==
  ASSUME HooksOK, NEW h \in Hooks, NEW s \in Strategies, NEW n \in Steps, Goto(h, s, n),
         NEW Q
  PROVE  /\ \A u \in Strategies : u # s => Number(Q, u)' = Number(Q, u)
         /\ Number(Q, s)' = CASE n \in Q /\ step[h][s] \notin Q -> Number(Q, s) + 1
                              [] n \notin Q /\ step[h][s] \in Q -> Number(Q, s) - 1
                              [] OTHER -> Number(Q, s)
<1> DEFINE A == {k \in Hooks : step[k][s] \in Q}
           B == {k \in Hooks : step'[k][s] \in Q}
<1>1. ASSUME NEW k \in Hooks, NEW u \in Strategies, k # h \/ u # s
      PROVE  step'[k][u] = step[k][u]
  BY <1>1, GotoHooks
<1>2. step'[h][s] = n
  BY GotoHooks
<1>3. ASSUME NEW u \in Strategies, u # s PROVE Number(Q, u)' = Number(Q, u)
  BY <1>1, <1>3, NumberSame
<1>4. IsFiniteSet(A)
  BY SignalsAssumption, FS_Subset
<1>5. CASE n \in Q /\ step[h][s] \notin Q
  <2>1. h \notin A /\ B = A \cup {h}
    BY <1>1, <1>2, <1>5
  <2>2. Cardinality(B) = Cardinality(A) + 1
    BY <1>4, <2>1, FS_AddElement
  <2>. QED BY <1>3, <1>5, <2>2 DEF Number
<1>6. CASE n \notin Q /\ step[h][s] \in Q
  <2>1. h \in A /\ B = A \ {h}
    BY <1>1, <1>2, <1>6
  <2>2. Cardinality(B) = Cardinality(A) - 1
    BY <1>4, <2>1, FS_RemoveElement
  <2>. QED BY <1>3, <1>6, <2>2 DEF Number
<1>7. CASE (n \in Q) <=> (step[h][s] \in Q)
  <2>1. B = A
    BY <1>1, <1>2, <1>7
  <2>. QED BY <1>3, <1>7, <2>1 DEF Number
<1>. QED BY <1>5, <1>6, <1>7

(* Receiving and answering a webhook moves nobody between counted steps.   *)
LEMMA NumberStays ==
  ASSUME Inv, NEW Q, Q \cap {"none", "rules"} = {}, NEW s \in Strategies,
         \/ \E h \in Hooks : Receive(h) \/ Respond(h) \/ Gone(h) \/ WriteLog(h)
         \/ Midnight \/ UNCHANGED vars
  PROVE  Number(Q, s)' = Number(Q, s)
<1>1. ASSUME NEW h \in Hooks, Receive(h) PROVE Number(Q, s)' = Number(Q, s)
  <2>1. step[h][s] = "none" /\ step'[h][s] \in {"none", "rules"}
    BY <1>1 DEF Receive, Inv, HooksOK, StepsOK
  <2>2. \A k \in Hooks : k # h => step'[k] = step[k]
    BY <1>1 DEF Receive, Inv, HooksOK
  <2>. QED BY <2>1, <2>2, NumberSame
<1>2. ASSUME NEW h \in Hooks, Gone(h) \/ WriteLog(h) PROVE Number(Q, s)' = Number(Q, s)
  <2>1. step[h][s] = "none" /\ step'[h][s] = "none"
    BY <1>2 DEF Gone, WriteLog, Forget, Inv, StepsOK
  <2>2. \A k \in Hooks : k # h => step'[k] = step[k]
    BY <1>2 DEF Gone, WriteLog, Forget
  <2>. QED BY <2>1, <2>2, NumberSame
<1>3. CASE UNCHANGED step
  BY <1>3, NumberSame
<1>. QED BY <1>1, <1>2, <1>3 DEF Respond, Midnight, vars, hooks

LEMMA HooksNumber == Cardinality(Hooks) \in Nat /\ Cardinality(Hooks) >= 1
<1>1. Cardinality(Hooks) \in Nat /\ Cardinality(Hooks) # 0
  BY SignalsAssumption, FS_CardinalityType, FS_EmptySet
<1>. QED BY <1>1

(* Every step of a strategy's share is a move to another step.             *)
LEMMA HandleMoves ==
  ASSUME NEW h \in Hooks, NEW s \in Strategies, Handle(h, s)
  PROVE  \E n \in Steps : Goto(h, s, n)
BY DEF Handle, Evaluate, Start, PlaceOrder, PaperTrade, CountPaper, UpdatePositions,
       Decrement, CountSignal, Steps

(* What it leaves alone: the counters of every other strategy.             *)
LEMMA HandleElsewhere ==
  ASSUME Inv, NEW h \in Hooks, NEW s \in Strategies, Handle(h, s),
         NEW u \in Strategies, u # s
  PROVE  /\ positions'[u] = positions[u] /\ signals'[u] = signals[u]
         /\ today'[u] = today[u]
         /\ \A Q : Number(Q, u)' = Number(Q, u)
<1>1. \A Q : Number(Q, u)' = Number(Q, u)
  <2>. TAKE Q
  <2>1. PICK n \in Steps : Goto(h, s, n)
    BY HandleMoves
  <2>. QED BY <2>1, NumberMove DEF Inv
<1>2. positions'[u] = positions[u]
  BY DEF Handle, Evaluate, PlaceOrder, PaperTrade, CountPaper, UpdatePositions,
         Decrement, CountSignal, redis, Inv, CountersOK
<1>3. signals'[u] = signals[u]
  BY DEF Handle, Evaluate, PlaceOrder, PaperTrade, CountPaper, UpdatePositions,
         Decrement, CountSignal, redis, Inv, CountersOK
<1>4. today'[u] = today[u]
  BY DEF Handle, Evaluate, PlaceOrder, PaperTrade, CountPaper, UpdatePositions,
         Decrement, CountSignal, Fill, history, Inv, CountersOK
<1>. QED BY <1>1, <1>2, <1>3, <1>4

-----------------------------------------------------------------------------
(* The floor: a SELL that has seen a positive counter is about to take one *)
(* off; each of the others can have taken one off in the meantime.         *)
Floor(s) == positions[s] - Number({"decr"}, s) >= 1 - Cardinality(Hooks)

LEMMA FloorHandle ==
  ASSUME Inv, NEW h \in Hooks, NEW s \in Strategies, Handle(h, s), Floor(s)
  PROVE  Floor(s)'
<1>0. /\ positions[s] \in Int /\ Number({"decr"}, s) \in Nat
      /\ positions \in [Strategies -> Int]
      /\ Cardinality(Hooks) \in Nat
  BY NumberType, HooksNumber DEF Inv, CountersOK
<1> USE DEF Floor
<1>1. CASE UpdatePositions(h, s)
  <2>. USE <1>1 DEF UpdatePositions
  <2>1. PICK n \in {"decr", "signals"} :
           /\ Goto(h, s, n)
           /\ n = "decr" => positions'[s] = positions[s] /\ positions[s] > 0
           /\ n = "signals" => positions'[s] >= positions[s]
           /\ positions'[s] \in Int
    BY <1>0
  <2>2. /\ n = "decr" => Number({"decr"}, s)' = Number({"decr"}, s) + 1
        /\ n = "signals" => Number({"decr"}, s)' = Number({"decr"}, s)
    BY <2>1, NumberMove DEF Inv, Steps
  <2>3. Number({"decr"}, s) <= Cardinality(Hooks) - 1
    BY NumberRoom
  <2>. QED BY <1>0, <2>1, <2>2, <2>3
<1>2. CASE Decrement(h, s)
  <2>. USE <1>2 DEF Decrement
  <2>1. Number({"decr"}, s)' = Number({"decr"}, s) - 1
    BY NumberMove DEF Inv, Steps
  <2>2. positions'[s] \in {positions[s], positions[s] - 1}
    BY <1>0
  <2>. QED BY <1>0, <2>1, <2>2
<1>3. CASE Evaluate(h, s) \/ PlaceOrder(h, s) \/ PaperTrade(h, s) \/ CountPaper(h, s)
           \/ CountSignal(h, s)
  <2>1. /\ positions' = positions /\ step[h][s] # "decr"
        /\ \E n \in Steps \ {"decr"} : Goto(h, s, n)
    BY <1>3 DEF Evaluate, Start, PlaceOrder, PaperTrade, CountPaper, CountSignal, redis, Steps
  <2>2. Number({"decr"}, s)' = Number({"decr"}, s)
    BY <2>1, NumberMove DEF Inv
  <2>. QED BY <2>1, <2>2
<1>. QED BY <1>1, <1>2, <1>3 DEF Handle

LEMMA FloorStep ==
  ASSUME Inv, NEW s \in Strategies, Floor(s), [Next]_vars
  PROVE  Floor(s)'
<1>0. /\ positions[s] \in Int /\ Number({"decr"}, s) \in Nat
      /\ Cardinality(Hooks) \in Nat
  BY NumberType, HooksNumber DEF Inv, CountersOK
<1>1. ASSUME NEW h \in Hooks, NEW u \in Strategies, Handle(h, u) PROVE Floor(s)'
  <2>1. CASE u = s
    BY <1>1, <2>1, FloorHandle
  <2>2. CASE u # s
    <3>1. positions'[s] = positions[s] /\ Number({"decr"}, s)' = Number({"decr"}, s)
      BY <1>1, <2>2, HandleElsewhere
    <3>. QED BY <3>1 DEF Floor
  <2>. QED BY <2>1, <2>2
<1>2. CASE \/ \E h \in Hooks : Receive(h) \/ Respond(h) \/ Gone(h) \/ WriteLog(h)
           \/ Midnight \/ UNCHANGED vars
  <2>1. Number({"decr"}, s)' = Number({"decr"}, s)
    BY <1>2, NumberStays
  <2>2. positions' = positions
    BY <1>2 DEF Receive, Respond, Gone, WriteLog, Midnight, vars, redis
  <2>. QED BY <2>1, <2>2 DEF Floor
<1>3. CASE Crash \/ \E h \in Hooks, u \in Strategies : Raise(h, u)
  <2>1. positions' = positions
    BY <1>3 DEF Crash, Raise, redis
  <2>2. Number({"decr"}, s)' \in Nat /\ Number({"decr"}, s)' <= Number({"decr"}, s)
    BY <1>3, NumberEnds
  <2>. QED BY <1>0, <2>1, <2>2 DEF Floor
<1>. QED BY <1>1, <1>2, <1>3 DEF Next

(* The counter of open positions passes its floor by at most one less than *)
(* the webhooks handled at a time.                                         *)
THEOREM FloorHolds == Spec => []PositionsFloor
<1> DEFINE AllFloors == \A s \in Strategies : Floor(s)
<1>1. Init => AllFloors
  <2> SUFFICES ASSUME Init, NEW s \in Strategies PROVE Floor(s)
    OBVIOUS
  <2>1. {h \in Hooks : step[h][s] \in {"decr"}} = {}
    BY DEF Init
  <2>2. Number({"decr"}, s) = 0
    BY <2>1, FS_EmptySet DEF Number
  <2>. QED BY <2>2, HooksNumber DEF Init, Floor
<1>2. Inv /\ AllFloors /\ [Next]_vars => AllFloors'
  BY FloorStep
<1>3. Inv /\ AllFloors => PositionsFloor
  <2> SUFFICES ASSUME Inv, AllFloors, NEW s \in Strategies
               PROVE  positions[s] >= 1 - Cardinality(Hooks)
    BY DEF PositionsFloor
  <2>. QED BY NumberType, HooksNumber DEF Floor, Inv, CountersOK
<1>. QED
  <2> HIDE DEF AllFloors
  <2>. QED BY InitInv, InvStep, <1>1, <1>2, <1>3, PTL DEF Spec

-----------------------------------------------------------------------------
(* The limit on open positions: what the counter says, and what the orders *)
(* under way may still add to it.                                          *)
Flying == {"order", "paper", "held", "positions"}

Open(s) ==
    "redis" \notin faults /\ MaxOpen[s] # 0 =>
        positions[s] + Number(Flying, s) <= MaxOpen[s] - 1 + Cardinality(Hooks)

LEMMA FaultsStay == ASSUME [Next]_vars PROVE faults \subseteq faults'
<1>1. ASSUME NEW h \in Hooks, NEW s \in Strategies, Handle(h, s) \/ Raise(h, s)
      PROVE  faults \subseteq faults'
  BY <1>1 DEF Handle, Evaluate, Raise, PlaceOrder, PaperTrade, CountPaper,
       UpdatePositions, Decrement, CountSignal, Fault, history
<1>2. CASE \E h \in Hooks : Receive(h) \/ Respond(h) \/ Gone(h) \/ WriteLog(h)
  BY <1>2 DEF Receive, Respond, Gone, WriteLog, Fault, history
<1>3. CASE Midnight \/ Crash \/ UNCHANGED vars
  BY <1>3 DEF Midnight, Crash, Fault, vars, history
<1>. QED BY <1>1, <1>2, <1>3 DEF Next

LEMMA OpenHandle ==
  ASSUME Inv, NEW h \in Hooks, NEW s \in Strategies, Handle(h, s), Open(s)
  PROVE  Open(s)'
<1> SUFFICES ASSUME "redis" \notin faults', MaxOpen[s] # 0
             PROVE  positions'[s] + Number(Flying, s)' <= MaxOpen[s] - 1 + Cardinality(Hooks)
  BY DEF Open, Flying
<1>0. /\ positions[s] \in Int /\ Number(Flying, s) \in Nat
      /\ positions \in [Strategies -> Int]
      /\ Cardinality(Hooks) \in Nat /\ MaxOpen[s] \in Nat
  BY NumberType, HooksNumber, SignalsAssumption DEF Inv, CountersOK
<1>f. "redis" \notin faults
  BY FaultsStay DEF Next
<1>o. positions[s] + Number(Flying, s) <= MaxOpen[s] - 1 + Cardinality(Hooks)
  BY <1>f DEF Open
<1>1. CASE Evaluate(h, s)
  <2>. USE <1>1 DEF Evaluate
  <2>1. positions' = positions
    BY DEF redis
  <2>2. CASE Goto(h, s, "none")
    <3>1. Number(Flying, s)' = Number(Flying, s)
      BY <2>2, NumberMove DEF Inv, Steps, Flying
    <3>. QED BY <1>o, <2>1, <3>1
  <2>3. CASE ~Goto(h, s, "none")
    <3>1. positions[s] < MaxOpen[s]
      BY <2>3 DEF Allows, Fault
    <3>2. \E n \in {"order", "paper"} : Goto(h, s, n)
      BY <2>3 DEF Start
    <3>3. Number(Flying, s)' = Number(Flying, s) + 1
      BY <3>2, NumberMove DEF Inv, Steps, Flying
    <3>4. Number(Flying, s) <= Cardinality(Hooks) - 1
      BY NumberRoom DEF Flying
    <3>. QED BY <1>0, <2>1, <3>1, <3>3, <3>4
  <2>. QED BY <2>2, <2>3
<1>2. CASE PlaceOrder(h, s) \/ PaperTrade(h, s) \/ CountPaper(h, s)
  <2>1. /\ positions' = positions /\ step[h][s] \in Flying
        /\ \E n \in {"none", "held", "positions"} : Goto(h, s, n)
    BY <1>2 DEF PlaceOrder, PaperTrade, CountPaper, redis, Flying
  <2>2. Number(Flying, s)' \in {Number(Flying, s), Number(Flying, s) - 1}
    BY <2>1, NumberMove DEF Inv, Steps
  <2>. QED BY <1>0, <1>o, <2>1, <2>2
<1>3. CASE UpdatePositions(h, s)
  <2>. USE <1>3 DEF UpdatePositions
  <2>1. positions'[s] \in {positions[s], positions[s] + 1}
    BY <1>0
  <2>2. \E n \in {"decr", "signals"} : Goto(h, s, n)
    OBVIOUS
  <2>3. Number(Flying, s)' = Number(Flying, s) - 1
    BY <2>2, NumberMove DEF Inv, Steps, Flying
  <2>. QED BY <1>0, <1>o, <2>1, <2>3
<1>4. CASE Decrement(h, s) \/ CountSignal(h, s)
  <2>1. positions'[s] \in {positions[s], positions[s] - 1}
    BY <1>0, <1>4 DEF Decrement, CountSignal
  <2>2. step[h][s] \notin Flying /\ \E n \in {"none", "signals"} : Goto(h, s, n)
    BY <1>4 DEF Decrement, CountSignal, Flying
  <2>3. Number(Flying, s)' = Number(Flying, s)
    BY <2>2, NumberMove DEF Inv, Steps, Flying
  <2>. QED BY <1>0, <1>o, <2>1, <2>3
<1>. QED BY <1>1, <1>2, <1>3, <1>4 DEF Handle

LEMMA OpenStep ==
  ASSUME Inv, NEW s \in Strategies, Open(s), [Next]_vars
  PROVE  Open(s)'
<1>0. /\ positions[s] \in Int /\ Number(Flying, s) \in Nat
      /\ Cardinality(Hooks) \in Nat /\ MaxOpen[s] \in Nat
  BY NumberType, HooksNumber, SignalsAssumption DEF Inv, CountersOK
<1>f. "redis" \notin faults' => "redis" \notin faults
  BY FaultsStay
<1>1. ASSUME NEW h \in Hooks, NEW u \in Strategies, Handle(h, u) PROVE Open(s)'
  <2>1. CASE u = s
    BY <1>1, <2>1, OpenHandle
  <2>2. CASE u # s
    <3>1. positions'[s] = positions[s] /\ Number(Flying, s)' = Number(Flying, s)
      BY <1>1, <2>2, HandleElsewhere DEF Flying
    <3>. QED BY <1>f, <3>1 DEF Open
  <2>. QED BY <2>1, <2>2
<1>2. CASE \/ \E h \in Hooks : Receive(h) \/ Respond(h) \/ Gone(h) \/ WriteLog(h)
           \/ Midnight \/ UNCHANGED vars
  <2>1. Number(Flying, s)' = Number(Flying, s)
    BY <1>2, NumberStays DEF Flying
  <2>2. positions' = positions
    BY <1>2 DEF Receive, Respond, Gone, WriteLog, Midnight, vars, redis
  <2>. QED BY <1>f, <2>1, <2>2 DEF Open
<1>3. CASE Crash \/ \E h \in Hooks, u \in Strategies : Raise(h, u)
  <2>1. positions' = positions
    BY <1>3 DEF Crash, Raise, redis
  <2>2. Number(Flying, s)' \in Nat /\ Number(Flying, s)' <= Number(Flying, s)
    BY <1>3, NumberEnds DEF Flying
  <2>. QED BY <1>0, <1>f, <2>1, <2>2 DEF Open
<1>. QED BY <1>1, <1>2, <1>3 DEF Next

(* Nobody is anywhere at the start.                                        *)
LEMMA NumberInit ==
  ASSUME Init, NEW Q, "none" \notin Q, NEW s \in Strategies PROVE Number(Q, s) = 0
<1>1. {h \in Hooks : step[h][s] \in Q} = {}
  BY DEF Init
<1>. QED BY <1>1, FS_EmptySet DEF Number

(* max_open_positions is exceeded by at most one less than the webhooks    *)
(* handled at a time, while Redis answers.                                 *)
THEOREM OpenPositionsLimited == Spec => []OpenPositionsLimit
<1> DEFINE AllOpen == \A s \in Strategies : Open(s)
<1>1. Init => AllOpen
  <2> SUFFICES ASSUME Init, NEW s \in Strategies PROVE Open(s)
    OBVIOUS
  <2>1. Number(Flying, s) = 0 /\ MaxOpen[s] \in Nat
    BY NumberInit, SignalsAssumption DEF Flying
  <2>. QED BY <2>1, HooksNumber DEF Init, Open
<1>2. Inv /\ AllOpen /\ [Next]_vars => AllOpen'
  BY OpenStep
<1>3. Inv /\ AllOpen => OpenPositionsLimit
  <2> SUFFICES ASSUME Inv, AllOpen, "redis" \notin faults,
                      NEW s \in Strategies, MaxOpen[s] # 0
               PROVE  positions[s] <= MaxOpen[s] - 1 + Cardinality(Hooks)
    BY DEF OpenPositionsLimit
  <2>1. MaxOpen[s] \in Nat
    BY SignalsAssumption
  <2>. QED BY <2>1, NumberType, HooksNumber DEF Open, Inv, CountersOK
<1>. QED
  <2> HIDE DEF AllOpen
  <2>. QED BY InitInv, InvStep, <1>1, <1>2, <1>3, PTL DEF Spec

-----------------------------------------------------------------------------
(* The limit of a day: what is counted is what was answered "filled" and   *)
(* booked, and the orders under way may still add to it.                   *)
Taken == {"order", "paper", "held", "positions", "decr", "signals"}

Counted == faults \cap {"redis", "crash"} = {}

Exact(s) == Counted => signals[s] + Number(Booking, s) = today[s]

Day(s) ==
    Counted /\ MaxSignals[s] # 0 =>
        signals[s] + Number(Taken, s) <= MaxSignals[s] - 1 + Cardinality(Hooks)

LEMMA DayTypes ==
  ASSUME Inv, NEW s \in Strategies
  PROVE  /\ signals[s] \in Nat /\ today[s] \in Nat /\ MaxSignals[s] \in Nat
         /\ Number(Booking, s) \in Nat /\ Number(Taken, s) \in Nat
         /\ Cardinality(Hooks) \in Nat /\ Cardinality(Hooks) >= 1
BY NumberType, HooksNumber, SignalsAssumption DEF Inv, CountersOK

LEMMA TakenIncludesBooking ==
  ASSUME NEW s PROVE Number(Booking, s) <= Number(Taken, s)
<1> DEFINE A == {h \in Hooks : step[h][s] \in Booking}
           B == {h \in Hooks : step[h][s] \in Taken}
<1>1. A \subseteq B
  BY DEF Booking, Taken
<1>2. IsFiniteSet(B)
  BY SignalsAssumption, FS_Subset
<1>3. Cardinality(A) <= Cardinality(B)
  BY <1>1, <1>2, FS_Subset
<1>. QED BY <1>3 DEF Number

(* The steps of Handle, by what they do to the day's counters.             *)
LEMMA DayHandle ==
  ASSUME Inv, NEW h \in Hooks, NEW s \in Strategies, Handle(h, s), Exact(s), Day(s)
  PROVE  Exact(s)' /\ Day(s)'
<1> SUFFICES ASSUME Counted'
             PROVE  /\ signals'[s] + Number(Booking, s)' = today'[s]
                    /\ MaxSignals[s] # 0 => signals'[s] + Number(Taken, s)' <=
                                              MaxSignals[s] - 1 + Cardinality(Hooks)
  BY DEF Exact, Day, Booking, Taken
<1>0. /\ signals[s] \in Nat /\ today[s] \in Nat /\ MaxSignals[s] \in Nat
      /\ Number(Booking, s) \in Nat /\ Number(Taken, s) \in Nat
      /\ Cardinality(Hooks) \in Nat /\ Cardinality(Hooks) >= 1
  BY DayTypes
<1>t. signals \in [Strategies -> Nat] /\ today \in [Strategies -> Nat]
  BY DEF Inv, CountersOK
<1>f. Counted /\ "redis" \notin faults'
  BY FaultsStay DEF Next, Counted
<1>o. /\ signals[s] + Number(Booking, s) = today[s]
      /\ MaxSignals[s] # 0 =>
            signals[s] + Number(Taken, s) <= MaxSignals[s] - 1 + Cardinality(Hooks)
  BY <1>f DEF Exact, Day
<1>1. CASE Evaluate(h, s)
  <2>. USE <1>1 DEF Evaluate
  <2>1. signals' = signals /\ today' = today
    BY DEF redis
  <2>2. CASE Goto(h, s, "none")
    <3>1. Number(Booking, s)' = Number(Booking, s) /\ Number(Taken, s)' = Number(Taken, s)
      BY <2>2, NumberMove DEF Inv, Steps, Booking, Taken
    <3>. QED BY <1>o, <2>1, <3>1
  <2>3. CASE ~Goto(h, s, "none")
    <3>1. MaxSignals[s] # 0 => signals[s] < MaxSignals[s]
      BY <1>f, <2>3 DEF Allows, Fault
    <3>2. \E n \in {"order", "paper"} : Goto(h, s, n)
      BY <2>3 DEF Start
    <3>3. Number(Taken, s)' = Number(Taken, s) + 1
      BY <3>2, NumberMove DEF Inv, Steps, Taken
    <3>4. Number(Booking, s)' = Number(Booking, s)
      BY <3>2, NumberMove DEF Inv, Steps, Booking
    <3>5. Number(Taken, s) <= Cardinality(Hooks) - 1
      BY NumberRoom DEF Taken
    <3>. QED BY <1>0, <1>o, <2>1, <3>1, <3>3, <3>4, <3>5
  <2>. QED BY <2>2, <2>3
<1>2. CASE PlaceOrder(h, s) \/ PaperTrade(h, s) \/ CountPaper(h, s)
  <2>1. signals' = signals /\ step[h][s] \in {"order", "paper", "held"}
    BY <1>2 DEF PlaceOrder, PaperTrade, CountPaper, redis
  <2>2. CASE Fill(h, s) /\ Goto(h, s, "positions")
    <3>1. today'[s] = today[s] + 1
      BY <1>t, <2>2 DEF Fill
    <3>2. Number(Booking, s)' = Number(Booking, s) + 1
      BY <2>1, <2>2, NumberMove DEF Inv, Steps, Booking
    <3>3. Number(Taken, s)' = Number(Taken, s)
      BY <2>1, <2>2, NumberMove DEF Inv, Steps, Taken
    <3>. QED BY <1>0, <1>o, <2>1, <3>1, <3>2, <3>3
  <2>3. CASE today' = today /\ \E n \in {"none", "held"} : Goto(h, s, n)
    <3>1. Number(Booking, s)' = Number(Booking, s)
      BY <2>1, <2>3, NumberMove DEF Inv, Steps, Booking
    <3>2. Number(Taken, s)' \in {Number(Taken, s), Number(Taken, s) - 1}
      BY <2>1, <2>3, NumberMove DEF Inv, Steps, Taken
    <3>. QED BY <1>0, <1>o, <2>1, <2>3, <3>1, <3>2
  <2>. QED BY <1>2, <2>2, <2>3 DEF PlaceOrder, PaperTrade, CountPaper, history
<1>3. CASE UpdatePositions(h, s) \/ Decrement(h, s)
  <2>1. /\ signals' = signals /\ today' = today
        /\ step[h][s] \in {"positions", "decr"}
        /\ \E n \in {"decr", "signals"} : Goto(h, s, n)
    BY <1>3 DEF UpdatePositions, Decrement, redis
  <2>2. Number(Booking, s)' = Number(Booking, s)
    BY <2>1, NumberMove DEF Inv, Steps, Booking
  <2>3. Number(Taken, s)' = Number(Taken, s)
    BY <2>1, NumberMove DEF Inv, Steps, Taken
  <2>. QED BY <1>o, <2>1, <2>2, <2>3
<1>4. CASE CountSignal(h, s)
  <2>1. signals'[s] = signals[s] + 1 /\ today' = today
    BY <1>4, <1>f, <1>t DEF CountSignal, Fault
  <2>2. Goto(h, s, "none") /\ step[h][s] = "signals"
    BY <1>4 DEF CountSignal
  <2>3. Number(Booking, s)' = Number(Booking, s) - 1
    BY <2>2, NumberMove DEF Inv, Steps, Booking
  <2>4. Number(Taken, s)' = Number(Taken, s) - 1
    BY <2>2, NumberMove DEF Inv, Steps, Taken
  <2>. QED BY <1>0, <1>o, <2>1, <2>3, <2>4
<1>. QED BY <1>1, <1>2, <1>3, <1>4 DEF Handle

LEMMA DayStep ==
  ASSUME Inv, NEW s \in Strategies, Exact(s), Day(s), [Next]_vars
  PROVE  Exact(s)' /\ Day(s)'
<1>f. Counted' => Counted
  BY FaultsStay DEF Counted
<1>1. ASSUME NEW h \in Hooks, NEW u \in Strategies, Handle(h, u) PROVE Exact(s)' /\ Day(s)'
  <2>1. CASE u = s
    BY <1>1, <2>1, DayHandle
  <2>2. CASE u # s
    <3>1. /\ signals'[s] = signals[s] /\ today'[s] = today[s]
          /\ Number(Booking, s)' = Number(Booking, s)
          /\ Number(Taken, s)' = Number(Taken, s)
      BY <1>1, <2>2, HandleElsewhere DEF Booking, Taken
    <3>. QED BY <1>f, <3>1 DEF Exact, Day
  <2>. QED BY <2>1, <2>2
<1>2. CASE \/ \E h \in Hooks : Receive(h) \/ Respond(h) \/ Gone(h) \/ WriteLog(h)
           \/ Midnight \/ UNCHANGED vars
  <2>1. Number(Booking, s)' = Number(Booking, s) /\ Number(Taken, s)' = Number(Taken, s)
    BY <1>2, NumberStays DEF Booking, Taken
  <2>2. CASE UNCHANGED <<signals, today>>
    BY <1>f, <2>1, <2>2 DEF Exact, Day
  <2>3. CASE Midnight
    <3>1. signals'[s] = 0 /\ today'[s] = Number(Booking, s)
      BY <2>3 DEF Midnight
    <3>2. Number(Taken, s) <= Cardinality(Hooks)
      BY NumberBound
    <3>. QED BY <2>1, <3>1, <3>2, DayTypes DEF Exact, Day
  <2>. QED BY <1>2, <2>2, <2>3 DEF Receive, Respond, Gone, WriteLog, vars, redis, history
<1>3. CASE Crash
  BY <1>3 DEF Crash, Fault, Exact, Day, Counted
<1>4. ASSUME NEW h \in Hooks, NEW u \in Strategies, Raise(h, u) PROVE Exact(s)' /\ Day(s)'
  <2>1. UNCHANGED <<signals, today>>
    BY <1>4 DEF Raise, redis
  <2>2. Number(Taken, s)' \in Nat /\ Number(Taken, s)' <= Number(Taken, s)
    BY <1>4, NumberEnds DEF Taken
  <2>3. Number(Booking, s)' = Number(Booking, s)
    <3>1. \A k \in Hooks : step'[k][s] \in Booking <=> step[k][s] \in Booking
      BY <1>4 DEF Raise, Inv, HooksOK, Booking
    <3>. QED BY <3>1, NumberSame DEF Booking
  <2>. QED BY <1>f, <2>1, <2>2, <2>3, DayTypes DEF Exact, Day
<1>. QED BY <1>1, <1>2, <1>3, <1>4 DEF Next

(* max_signals_per_day is exceeded by at most one less than the webhooks   *)
(* handled at a time, if no increment of the counter is lost.              *)
THEOREM DayLimited == Spec => []DailyLimit
<1> DEFINE Days == \A s \in Strategies : Exact(s) /\ Day(s)
<1>1. Init => Days
  <2> SUFFICES ASSUME Init, NEW s \in Strategies PROVE Exact(s) /\ Day(s)
    OBVIOUS
  <2>1. /\ Number(Booking, s) = 0 /\ Number(Taken, s) = 0
        /\ MaxSignals[s] \in Nat
    BY NumberInit, SignalsAssumption DEF Booking, Taken
  <2>2. signals[s] = 0 /\ today[s] = 0
    BY DEF Init
  <2>. QED BY <2>1, <2>2, HooksNumber DEF Exact, Day
<1>2. Inv /\ Days /\ [Next]_vars => Days'
  BY DayStep
<1>3. Inv /\ Days => DailyLimit
  <2> SUFFICES ASSUME Inv, Days, Counted, NEW s \in Strategies, MaxSignals[s] # 0
               PROVE  today[s] <= MaxSignals[s] - 1 + Cardinality(Hooks)
    BY DEF DailyLimit, Counted
  <2>. QED BY DayTypes, TakenIncludesBooking DEF Exact, Day
<1>. QED
  <2> HIDE DEF Days
  <2>. QED BY InitInv, InvStep, <1>1, <1>2, <1>3, PTL DEF Spec

-----------------------------------------------------------------------------
(* The log: EveryFillLogged is inductive once it is known (StepsOK) that   *)
(* an order about to be filled is not among the filled ones.               *)
Heard == faults \cap {"timeout", "database", "crash"} = {}

Logged(s) ==
    Heard => /\ logged[s] + Cardinality(Unlogged(s)) + escaped[s] = fills[s]
             /\ "rules" \notin faults => escaped[s] = 0 /\ \A h \in Hooks : pc[h] # "failed"

LEMMA LoggedTypes ==
  ASSUME Inv, NEW s \in Strategies
  PROVE  /\ logged[s] \in Nat /\ fills[s] \in Nat /\ escaped[s] \in Nat
         /\ IsFiniteSet(Unlogged(s)) /\ Cardinality(Unlogged(s)) \in Nat
<1>1. IsFiniteSet(Unlogged(s))
  BY SignalsAssumption, FS_Subset DEF Unlogged
<1>. QED BY <1>1, FS_CardinalityType DEF Inv, CountersOK

(* A fill of strategy s by webhook h.                                      *)
LEMMA LoggedFill ==
  ASSUME Inv, NEW h \in Hooks, NEW s \in Strategies, Fill(h, s), s \notin filled[h],
         UNCHANGED <<logged, escaped, faults, pc>>, NEW u \in Strategies, Logged(u)
  PROVE  Logged(u)'
<1> USE DEF Inv, HooksOK, CountersOK, Fill
<1>1. CASE u = s
  <2>1. Unlogged(s)' = Unlogged(s) \cup {h} /\ h \notin Unlogged(s)
    BY DEF Unlogged
  <2>2. Cardinality(Unlogged(s)') = Cardinality(Unlogged(s)) + 1
    BY <2>1, LoggedTypes, FS_AddElement
  <2>3. fills'[s] = fills[s] + 1
    OBVIOUS
  <2>. QED BY <1>1, <2>2, <2>3, LoggedTypes DEF Logged, Heard
<1>2. CASE u # s
  <2>1. Unlogged(u)' = Unlogged(u)
    BY <1>2 DEF Unlogged
  <2>2. fills'[u] = fills[u]
    BY <1>2
  <2>. QED BY <2>1, <2>2 DEF Logged, Heard
<1>. QED BY <1>1, <1>2

(* Where nothing is filled or logged nothing changes.                      *)
LEMMA LoggedSame ==
  ASSUME NEW s \in Strategies, Logged(s), UNCHANGED <<logged, fills, escaped, filled>>,
         Heard' => Heard, faults \subseteq faults',
         "rules" \in faults' \/ \A h \in Hooks : pc'[h] = "failed" => pc[h] = "failed"
  PROVE  Logged(s)'
<1>1. Unlogged(s)' = Unlogged(s)
  BY DEF Unlogged
<1>. QED BY <1>1 DEF Logged

LEMMA LoggedWrite ==
  ASSUME Inv, NEW h \in Hooks, WriteLog(h), NEW s \in Strategies, Logged(s), Heard', Heard
  PROVE  Logged(s)'
<1>1. /\ logged'[s] = logged[s] + IF s \in filled[h] THEN 1 ELSE 0
      /\ UNCHANGED <<fills, escaped, faults>>
      /\ \A k \in Hooks : pc'[k] = "failed" => pc[k] = "failed"
  BY DEF WriteLog, Forget, Fault, Heard
<1>2. Unlogged(s)' = Unlogged(s) \ {h}
  BY DEF WriteLog, Forget, Unlogged, Inv, HooksOK
<1>3. CASE s \in filled[h]
  <2>1. Cardinality(Unlogged(s)') = Cardinality(Unlogged(s)) - 1
    BY <1>2, <1>3, LoggedTypes, FS_RemoveElement DEF Unlogged
  <2>. QED BY <1>1, <1>3, <2>1, LoggedTypes DEF Logged
<1>4. CASE s \notin filled[h]
  <2>1. Unlogged(s)' = Unlogged(s)
    BY <1>2, <1>4 DEF Unlogged
  <2>. QED BY <1>1, <1>4, <2>1, LoggedTypes DEF Logged
<1>. QED BY <1>3, <1>4

LEMMA LoggedGone ==
  ASSUME Inv, NEW h \in Hooks, Gone(h), NEW s \in Strategies, Logged(s), Heard', Heard
  PROVE  Logged(s)'
<1>1. /\ escaped'[s] = escaped[s] + IF s \in filled[h] THEN 1 ELSE 0
      /\ UNCHANGED <<fills, logged, faults>>
      /\ "rules" \in faults
  BY DEF Gone, Logged
<1>2. Unlogged(s)' = Unlogged(s) \ {h}
  BY DEF Gone, Forget, Unlogged, Inv, HooksOK
<1>3. CASE s \in filled[h]
  <2>1. Cardinality(Unlogged(s)') = Cardinality(Unlogged(s)) - 1
    BY <1>2, <1>3, LoggedTypes, FS_RemoveElement DEF Unlogged
  <2>. QED BY <1>1, <1>3, <2>1, LoggedTypes DEF Logged
<1>4. CASE s \notin filled[h]
  <2>1. Unlogged(s)' = Unlogged(s)
    BY <1>2, <1>4 DEF Unlogged
  <2>. QED BY <1>1, <1>4, <2>1, LoggedTypes DEF Logged
<1>. QED BY <1>3, <1>4

LEMMA LoggedStep ==
  ASSUME Inv, NEW s \in Strategies, Logged(s), [Next]_vars
  PROVE  Logged(s)'
<1>f. Heard' => Heard
  BY FaultsStay DEF Heard
<1>s. faults \subseteq faults'
  BY FaultsStay
<1>1. ASSUME NEW h \in Hooks, NEW u \in Strategies, Handle(h, u), Heard' PROVE Logged(s)'
  <2>1. UNCHANGED pc
    BY <1>1 DEF Handle, Evaluate, PlaceOrder, PaperTrade, CountPaper, UpdatePositions, Decrement,
       CountSignal
  <2>2. CASE PlaceOrder(h, u) \/ CountPaper(h, u)
    <3>1. u \notin filled[h] /\ UNCHANGED <<logged, escaped>>
      BY <2>2 DEF PlaceOrder, CountPaper, Inv, StepsOK, Pending, history
    <3>2. \/ Fill(h, u) /\ faults' = faults
          \/ UNCHANGED <<filled, fills>>
      BY <1>1, <2>2 DEF PlaceOrder, CountPaper, Heard, Fault, history
    <3>. QED BY <1>f, <1>s, <2>1, <3>1, <3>2, LoggedFill, LoggedSame
  <2>3. CASE ~(PlaceOrder(h, u) \/ CountPaper(h, u))
    <3>1. UNCHANGED <<logged, fills, escaped, filled>>
      BY <1>1, <2>3 DEF Handle, Evaluate, PaperTrade, UpdatePositions, Decrement,
         CountSignal, history
    <3>. QED BY <1>f, <1>s, <2>1, <3>1, LoggedSame
  <2>. QED BY <2>2, <2>3
<1>2. ASSUME NEW h \in Hooks, Gone(h) \/ WriteLog(h), Heard' PROVE Logged(s)'
  BY <1>2, <1>f, LoggedWrite, LoggedGone
<1>3. CASE \/ \E h \in Hooks : Receive(h) \/ Respond(h)
           \/ Midnight \/ UNCHANGED vars
  <2>1. UNCHANGED <<logged, fills, escaped, filled>>
    BY <1>3 DEF Receive, Respond, Midnight, vars, hooks, history
  <2>2. \A h \in Hooks : pc'[h] = "failed" => pc[h] = "failed"
    BY <1>3 DEF Receive, Respond, Midnight, vars, hooks, Inv, HooksOK
  <2>. QED BY <1>f, <1>s, <2>1, <2>2, LoggedSame
<1>6. ASSUME NEW h \in Hooks, NEW u \in Strategies, Raise(h, u) PROVE Logged(s)'
  <2>1. UNCHANGED <<logged, fills, escaped, filled>> /\ "rules" \in faults'
    BY <1>6 DEF Raise, Fault
  <2>. QED BY <1>f, <1>s, <2>1, LoggedSame
<1>4. CASE Crash
  BY <1>4 DEF Crash, Fault, Logged, Heard
<1>5. CASE ~Heard'
  BY <1>5 DEF Logged, Heard
<1>. QED BY <1>1, <1>2, <1>3, <1>4, <1>5, <1>6 DEF Next

(* Every filled order has exactly one row in the log that says so, or will *)
(* have, whatever happens to the other strategies of the same webhook      *)
(* except that the rules of one raise.                                     *)
THEOREM FillsAreLogged == Spec => []EveryFillLogged
<1> DEFINE All == \A s \in Strategies : Logged(s)
<1>1. Init => All
  <2> SUFFICES ASSUME Init, NEW s \in Strategies PROVE Logged(s)
    OBVIOUS
  <2>1. Unlogged(s) = {}
    BY DEF Init, Unlogged
  <2>2. Cardinality(Unlogged(s)) = 0
    BY <2>1, FS_EmptySet
  <2>. QED BY <2>2 DEF Init, Logged
<1>2. Inv /\ All /\ [Next]_vars => All'
  BY LoggedStep
<1>3. All => EveryFillLogged
  BY DEF EveryFillLogged, Logged, Heard
<1>. QED
  <2> HIDE DEF All
  <2>. QED BY InitInv, InvStep, <1>1, <1>2, <1>3, PTL DEF Spec
=============================================================================
