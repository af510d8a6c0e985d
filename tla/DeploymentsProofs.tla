------------------------- MODULE DeploymentsProofs -------------------------
(***************************************************************************)
(* Theorems about Deployments, for any number of deployments and requests, *)
(* any limits, and with a busy or crashing runner and a failing Redis.     *)
(***************************************************************************)
EXTENDS Deployments, TLAPS

(* TypeOK in the parts that change together.                               *)
Rows ==
    /\ mode \in [Deps -> Modes] /\ status \in [Deps -> Statuses]
    /\ cron \in [Deps -> Crons] /\ late \in [Deps -> Nat]

Messages == queue \in Seq(Created) /\ channel \in Seq([register : BOOLEAN, dep : Created])

Requests ==
    /\ op \in [Calls -> Ops] /\ target \in [Calls -> SUBSET Created]
    /\ newMode \in [Calls -> Modes]
    /\ pc \in [Calls -> {"idle", "write", "publish"}]

RunnerOK ==
    /\ runner \in {"down", "loading", "up", "stuck"}
    /\ toLoad \subseteq Created /\ sched \subseteq Created
    /\ tick \in [Deps -> {"idle", "execute"}]
    /\ reg \in Progress /\ job \in Progress

Past == calm \in BOOLEAN /\ requests \in Nat /\ crashes \in Nat

Inv == Rows /\ Messages /\ Requests /\ RunnerOK /\ Past

-----------------------------------------------------------------------------
(* A sequence over a set is one over every larger set.                     *)
LEMMA SeqGrows ==
  ASSUME NEW S, NEW T, S \subseteq T, NEW q \in Seq(S) PROVE q \in Seq(T)
OBVIOUS

(* The oldest entry of a sequence, and what remains, are over its set.     *)
LEMMA HeadTail ==
  ASSUME NEW S, NEW q \in Seq(S), q # << >> PROVE Head(q) \in S /\ Tail(q) \in Seq(S)
OBVIOUS

LEMMA InitInv == Init => Inv
<1> SUFFICES ASSUME Init PROVE Inv
  OBVIOUS
<1> USE DEF Init
<1>1. Rows
  BY DEF Rows, Modes, Statuses, Crons
<1>2. Messages
  BY DEF Messages
<1>3. Requests
  BY DEF Requests, Ops, Changes, Modes
<1>4. RunnerOK
  BY DEF RunnerOK, Idle, Progress
<1>5. Past
  BY DEF Past
<1>. QED BY <1>1, <1>2, <1>3, <1>4, <1>5 DEF Inv

(* Rows are never deleted, so what refers to a row goes on doing so.       *)
LEMMA RowsStay ==
  ASSUME Inv, Created \subseteq Created'
  PROVE  /\ queue \in Seq(Created')
         /\ channel \in Seq([register : BOOLEAN, dep : Created'])
         /\ target \in [Calls -> SUBSET Created']
         /\ toLoad \subseteq Created' /\ sched \subseteq Created'
         /\ reg \in Progress' /\ job \in Progress'
<1>1. queue \in Seq(Created')
  BY SeqGrows DEF Inv, Messages
<1>2. channel \in Seq([register : BOOLEAN, dep : Created'])
  <2>1. [register : BOOLEAN, dep : Created] \subseteq [register : BOOLEAN, dep : Created']
    OBVIOUS
  <2>. QED BY <2>1, SeqGrows DEF Inv, Messages
<1>3. target \in [Calls -> SUBSET Created']
  BY DEF Inv, Requests
<1>4. reg \in Progress' /\ job \in Progress'
  BY DEF Inv, RunnerOK, Progress
<1>. QED BY <1>1, <1>2, <1>3, <1>4 DEF Inv, RunnerOK

LEMMA SetStatusRows ==
  ASSUME Rows, NEW S, NEW s \in Statuses, s # "absent", SetStatus(S, s)
  PROVE  Rows' /\ Created \subseteq Created'
BY DEF Rows, SetStatus, Created, Statuses

LEMMA FinishRequests ==
  ASSUME Requests, NEW c \in Calls, Finish(c), Created' = Created
  PROVE  Requests'
BY DEF Requests, Finish, Ops, Modes

LEMMA RequestRequests ==
  ASSUME Requests, NEW c \in Calls, NEW o \in Ops, NEW S \in SUBSET Created,
         NEW m \in Modes, Request(c, o, S, m)
  PROVE  /\ Requests' /\ requests' = requests + 1 /\ (calm \in BOOLEAN => calm' \in BOOLEAN)
         /\ UNCHANGED <<db, redis, run, crashes>>
<1>1. calm' = (calm /\ Quiet)
  BY DEF Request
<1>2. calm \in BOOLEAN => calm' \in BOOLEAN
  BY <1>1, Zenon
<1>. QED BY <1>2 DEF Requests, Request, db, Created

LEMMA SameRows ==
  ASSUME UNCHANGED db PROVE Created' = Created /\ (Rows => Rows')
BY DEF db, Rows, Created

LEMMA TypeStep == Inv /\ [Next]_vars => Inv'
<1> SUFFICES ASSUME Inv, [Next]_vars PROVE Inv'
  OBVIOUS
<1> USE DEF Inv
<1>b. UNCHANGED past => Past'
  BY DEF Past, past
<1>m. ASSUME UNCHANGED redis, Created \subseteq Created' PROVE Messages'
  BY <1>m, RowsStay DEF Messages, redis
<1>r. ASSUME UNCHANGED api, Created \subseteq Created' PROVE Requests'
  BY <1>r, RowsStay DEF Requests, api
<1>n. ASSUME UNCHANGED run, Created \subseteq Created' PROVE RunnerOK'
  BY <1>n, RowsStay DEF RunnerOK, run
<1>1. ASSUME NEW c \in Calls, Api(c) PROVE Inv'
  <2>1. PICK o \in Ops, S \in SUBSET Created, m \in Modes : Request(c, o, S, m)
    BY <1>1 DEF Api, CreateDeployment, PromoteDeployment, ChangeDeployment, StopAll,
                StopSession, Modes, NextMode, Ops, Changes, Created
  <2>2. /\ Requests' /\ requests' = requests + 1 /\ (calm \in BOOLEAN => calm' \in BOOLEAN)
        /\ UNCHANGED <<db, redis, run, crashes>>
    BY <2>1, RequestRequests
  <2>3. Rows' /\ Created' = Created
    BY <2>2, SameRows
  <2>4. Past'
    BY <2>2 DEF Past
  <2>. QED BY <2>2, <2>3, <2>4, <1>m, <1>n
<1>2. ASSUME NEW c \in Calls, InsertRow(c) PROVE Inv'
  <2>. USE <1>2 DEF InsertRow
  <2>1. PICK d \in Deps \ Created :
           /\ mode' = [mode EXCEPT ![d] = newMode[c]]
           /\ status' = [status EXCEPT ![d] = "pending"]
           /\ \E e \in Crons : cron' = [cron EXCEPT ![d] = e]
           /\ IF op[c] = "create"
                THEN /\ target' = [target EXCEPT ![c] = {d}]
                     /\ pc' = [pc EXCEPT ![c] = "publish"]
                     /\ UNCHANGED <<op, newMode>>
                ELSE Finish(c)
    OBVIOUS
  <2>2. Rows' /\ Created \subseteq Created' /\ d \in Created'
    BY <2>1 DEF Rows, Statuses, Created, Requests
  <2>3. Requests'
    <3>1. target \in [Calls -> SUBSET Created']
      BY <2>2, RowsStay
    <3>2. CASE op[c] = "create"
      BY <2>1, <2>2, <3>1, <3>2 DEF Requests
    <3>3. CASE op[c] # "create"
      BY <2>1, <3>1, <3>3 DEF Requests, Finish, Ops, Modes
    <3>. QED BY <3>2, <3>3
  <2>. QED BY <2>2, <2>3, <1>b, <1>m, <1>n
<1>3. ASSUME NEW c \in Calls, WriteStatus(c) PROVE Inv'
  <2>. USE <1>3 DEF WriteStatus
  <2>1. Rows' /\ Created \subseteq Created'
    BY SetStatusRows DEF NewStatus, Statuses
  <2>2. Requests'
    <3>1. target \in [Calls -> SUBSET Created']
      BY <2>1, RowsStay
    <3>2. CASE op[c] = "stop_session"
      BY <3>1, <3>2 DEF Requests, Finish, Ops, Modes
    <3>3. CASE op[c] # "stop_session"
      BY <3>1, <3>3 DEF Requests
    <3>. QED BY <3>2, <3>3
  <2>. QED BY <2>1, <2>2, <1>b, <1>m, <1>n
<1>4. ASSUME NEW c \in Calls, Publish(c) PROVE Inv'
  <2>. USE <1>4 DEF Publish
  <2>1. Rows' /\ Created' = Created
    BY SameRows
  <2>2. Messages'
    <3>1. CASE UNCHANGED redis
      BY <3>1, <2>1, <1>m
    <3>2. CASE \E d \in target[c] : Announce(c, d)
      <4>1. PICK d \in Created : Announce(c, d)
        BY <3>2 DEF Requests
      <4>2. CASE op[c] = "create" /\ mode[d] = "backtest"
        BY <4>1, <4>2, <2>1 DEF Announce, Messages
      <4>3. CASE ~(op[c] = "create" /\ mode[d] = "backtest")
        <5> DEFINE r == op[c] \in {"create", "resume"}
        <5>1. r \in BOOLEAN
          OBVIOUS
        <5> HIDE DEF r
        <5>2. [register |-> r, dep |-> d] \in [register : BOOLEAN, dep : Created]
          BY <5>1
        <5>3. Append(channel, [register |-> r, dep |-> d])
                \in Seq([register : BOOLEAN, dep : Created])
          BY <5>2 DEF Messages
        <5>4. \/ channel' = channel
              \/ channel' = Append(channel, [register |-> r, dep |-> d])
          BY <4>1, <4>3 DEF Announce, r
        <5>5. channel' \in Seq([register : BOOLEAN, dep : Created])
          <6>1. CASE channel' = channel
            BY <6>1 DEF Messages
          <6>2. CASE channel' = Append(channel, [register |-> r, dep |-> d])
            BY <6>2, <5>3
          <6>. QED BY <5>4, <6>1, <6>2
        <5>6. queue' = queue
          BY <4>1, <4>3 DEF Announce
        <5>. QED BY <5>5, <5>6, <2>1 DEF Messages
      <4>. QED BY <4>2, <4>3
    <3>. QED BY <3>1, <3>2
  <2>3. Requests'
    <3>1. CASE Finish(c)
      BY <3>1, <2>1, FinishRequests
    <3>2. CASE ~Finish(c)
      BY <3>2, <2>1 DEF Requests
    <3>. QED BY <3>1, <3>2
  <2>. QED BY <2>1, <2>2, <2>3, <1>b, <1>n
<1>5. ASSUME Register PROVE Inv'
  <2>1. CASE RegisterRead
    <3>1. Rows' /\ Created' = Created
      BY <2>1, SameRows DEF RegisterRead
    <3>2. RunnerOK'
      BY <2>1, <3>1 DEF RegisterRead, RunnerOK, Progress, Idle
    <3>. QED BY <2>1, <3>1, <3>2, <1>b, <1>m, <1>r DEF RegisterRead
  <2>2. CASE RegisterWrite
    <3>1. Rows' /\ Created \subseteq Created'
      BY <2>2, SetStatusRows DEF RegisterWrite, Statuses
    <3>2. RunnerOK'
      BY <2>2, <3>1, RowsStay DEF RegisterWrite, RunnerOK, Progress, Idle
    <3>. QED BY <2>2, <3>1, <3>2, <1>b, <1>m, <1>r DEF RegisterWrite
  <2>. QED BY <1>5, <2>1, <2>2 DEF Register
<1>6. ASSUME LoadNext \/ Subscribe \/ RunnerStart \/ Hang PROVE Inv'
  <2>1. UNCHANGED <<db, redis, api>>
    BY <1>6 DEF LoadNext, Subscribe, RunnerStart, Hang
  <2>2. Rows' /\ Created' = Created
    BY <2>1, SameRows
  <2>3. RunnerOK'
    BY <1>6, <2>2 DEF LoadNext, Subscribe, RunnerStart, Reloaded, Hang, RunnerOK, Progress,
                      Schedule, At, Created
  <2>4. Past'
    <3>1. CASE RunnerStart
      <4>1. calm' = (calm /\ \A c \in Calls : pc[c] = "idle")
            /\ requests' = requests /\ crashes' = crashes
        BY <3>1 DEF RunnerStart
      <4>2. calm' \in BOOLEAN
        BY <4>1, Zenon
      <4>. QED BY <4>1, <4>2 DEF Past
    <3>. QED BY <3>1, <1>6, <1>b DEF LoadNext, Subscribe, Hang
  <2>. QED BY <2>1, <2>2, <2>3, <2>4, <1>m, <1>r
<1>7. ASSUME Listen PROVE Inv'
  <2>. USE <1>7 DEF Listen
  <2>1. Rows' /\ Created' = Created
    BY SameRows
  <2>2. /\ Head(channel) \in [register : BOOLEAN, dep : Created]
        /\ Tail(channel) \in Seq([register : BOOLEAN, dep : Created])
    BY HeadTail DEF Messages
  <2>3. Messages'
    BY <2>1, <2>2 DEF Messages
  <2>4. RunnerOK'
    BY <2>1, <2>2 DEF RunnerOK, Progress, Schedule, Unschedule, At
  <2>. QED BY <2>1, <2>3, <2>4, <1>b, <1>r
<1>8. ASSUME Backtest PROVE Inv'
  <2>1. CASE TakeJob
    <3>. USE <2>1 DEF TakeJob
    <3>1. Rows' /\ Created' = Created
      BY SameRows
    <3>2. Messages'
      BY <3>1 DEF Messages
    <3>3. RunnerOK'
      BY <3>1 DEF RunnerOK, Progress, At, Messages
    <3>. QED BY <3>1, <3>2, <3>3, <1>b, <1>r
  <2>2. CASE StartBacktest \/ EndBacktest
    <3>1. Rows' /\ Created \subseteq Created'
      <4>1. \/ \E s \in {"running", "completed", "failed"} : SetStatus(job.deps, s)
            \/ UNCHANGED db
        BY <2>2 DEF StartBacktest, EndBacktest
      <4>. QED BY <4>1, SetStatusRows, SameRows DEF Statuses
    <3>2. RunnerOK'
      BY <2>2, <3>1, RowsStay
         DEF StartBacktest, EndBacktest, RunnerOK, Progress, Idle
    <3>. QED BY <2>2, <3>1, <3>2, <1>b, <1>m, <1>r DEF StartBacktest, EndBacktest
  <2>. QED BY <1>8, <2>1, <2>2 DEF Backtest
<1>9. ASSUME NEW d \in Deps, StartTick(d) \/ EndTick(d) PROVE Inv'
  <2>1. Created' = Created /\ UNCHANGED <<redis, api, past>>
    BY <1>9 DEF StartTick, EndTick, db, Created
  <2>2. Rows'
    BY <1>9 DEF StartTick, EndTick, db, Rows
  <2>3. RunnerOK'
    BY <1>9, <2>1 DEF StartTick, EndTick, RunnerOK, Progress
  <2>. QED BY <2>1, <2>2, <2>3, <1>b, <1>m, <1>r
<1>10. ASSUME RunnerCrash \/ LoadRaises PROVE Inv'
  <2>0. Die /\ crashes' \in {crashes, crashes + 1}
    BY <1>10 DEF RunnerCrash, LoadRaises
  <2>. USE <2>0 DEF Die
  <2>1. Rows' /\ Created' = Created
    BY SameRows
  <2>2. Messages'
    BY <2>1 DEF Messages
  <2>3. RunnerOK'
    BY <2>1 DEF RunnerOK, Progress, Idle
  <2>4. Past'
    BY DEF Past
  <2>. QED BY <2>1, <2>2, <2>3, <2>4, <1>r
<1>11. CASE UNCHANGED vars
  <2>1. UNCHANGED <<db, redis, api, run, past>>
    BY <1>11 DEF vars
  <2>. QED BY <2>1, SameRows, <1>b, <1>m, <1>r, <1>n
<1>. QED
  BY <1>1, <1>2, <1>3, <1>4, <1>5, <1>6, <1>7, <1>8, <1>9, <1>10, <1>11
     DEF Next, Answer, Load

(* Every behaviour is well typed: a deployment the runner has scheduled,   *)
(* loaded or queued always has a row.                                      *)
THEOREM TypeCorrect == Spec => []TypeOK
<1>1. Inv => TypeOK
  BY DEF Inv, Rows, Messages, Requests, RunnerOK, Past, TypeOK
<1>. QED BY InitInv, TypeStep, <1>1, PTL DEF Spec

-----------------------------------------------------------------------------
(* What makes LateTickOnce inductive: orders can only be sent late by the  *)
(* tick in progress when the deployment stopped, so while one is in        *)
(* progress none has been; a running deployment has none on record.        *)
LateInv ==
    \A d \in Deps : /\ late[d] <= 1
                    /\ status[d] = "running" \/ tick[d] = "execute" => late[d] = 0

LEMMA SetStatusLate ==
  ASSUME Rows, LateInv, NEW S, NEW s, SetStatus(S, s), tick' = tick
  PROVE  LateInv'
BY DEF Rows, SetStatus, LateInv

LEMMA LateStep == Inv /\ LateInv /\ [Next]_vars => LateInv'
<1> SUFFICES ASSUME Inv, LateInv, [Next]_vars PROVE LateInv'
  OBVIOUS
<1>t. Rows /\ tick \in [Deps -> {"idle", "execute"}]
  BY DEF Inv, RunnerOK
<1>s. ASSUME UNCHANGED <<status, late, tick>> PROVE LateInv'
  BY <1>s DEF LateInv
<1>1. ASSUME NEW c \in Calls, Api(c) \/ Publish(c) PROVE LateInv'
  BY <1>1, <1>s DEF Api, CreateDeployment, PromoteDeployment, ChangeDeployment, StopAll,
                    StopSession, Request, Publish, db, run
<1>2. ASSUME NEW c \in Calls, InsertRow(c) PROVE LateInv'
  <2>1. /\ \E d \in Deps : status' = [status EXCEPT ![d] = "pending"]
        /\ UNCHANGED <<late, tick>>
    BY <1>2 DEF InsertRow, run
  <2>. QED BY <2>1, <1>t DEF LateInv, Rows
<1>3. ASSUME NEW c \in Calls, WriteStatus(c) PROVE LateInv'
  BY <1>3, <1>t, SetStatusLate DEF WriteStatus, run
<1>4. ASSUME RegisterWrite \/ StartBacktest \/ EndBacktest PROVE LateInv'
  BY <1>4, <1>s, <1>t, SetStatusLate DEF RegisterWrite, StartBacktest, EndBacktest, db
<1>5. ASSUME RegisterRead \/ LoadNext \/ Subscribe \/ RunnerStart \/ Hang \/ Listen \/ TakeJob
      PROVE  LateInv'
  BY <1>5, <1>s DEF RegisterRead, LoadNext, Subscribe, RunnerStart, Hang, Listen,
                    TakeJob, db
<1>6. ASSUME NEW d \in Deps, StartTick(d) PROVE LateInv'
  <2>1. /\ status[d] = "running" /\ tick' = [tick EXCEPT ![d] = "execute"]
        /\ UNCHANGED <<status, late>>
    BY <1>6 DEF StartTick, db
  <2>. QED BY <2>1, <1>t DEF LateInv
<1>7. ASSUME NEW d \in Deps, EndTick(d) PROVE LateInv'
  <2>1. /\ tick[d] = "execute" /\ tick' = [tick EXCEPT ![d] = "idle"] /\ status' = status
        /\ \/ late' = late
           \/ late' = [late EXCEPT ![d] = IF status[d] = "running" THEN 0 ELSE @ + 1]
    BY <1>7 DEF EndTick
  <2>2. late[d] = 0 /\ late \in [Deps -> Nat]
    BY <2>1 DEF LateInv, Inv, Rows
  <2>. QED BY <2>1, <2>2, <1>t DEF LateInv
<1>8. ASSUME RunnerCrash \/ LoadRaises PROVE LateInv'
  BY <1>8 DEF RunnerCrash, LoadRaises, Die, LateInv, db
<1>9. CASE UNCHANGED vars
  BY <1>9, <1>s DEF vars, db, run
<1>. QED
  BY <1>1, <1>2, <1>3, <1>4, <1>5, <1>6, <1>7, <1>8, <1>9
     DEF Next, Answer, Register, Load, Backtest

(* However the requests, the runner, its crashes and Redis interleave, a   *)
(* deployment that has stopped running sends at most one batch of orders.  *)
THEOREM AtMostOneLateTick == Spec => []LateTickOnce
<1>1. Init => LateInv
  BY DEF Init, LateInv
<1>2. Inv /\ LateInv => LateTickOnce
  BY DEF LateInv, LateTickOnce
<1>. QED BY InitInv, TypeStep, LateStep, <1>1, <1>2, PTL DEF Spec
-----------------------------------------------------------------------------
(* A backtest is queued, taken and run as one; the registration in         *)
(* progress is of one deployment.                                          *)
JobsAndReg ==
    /\ \A i \in 1 .. Len(queue) : mode[queue[i]] = "backtest"
    /\ \A d \in job.deps : mode[d] = "backtest"
    /\ reg = Idle \/ \E d \in Deps : reg \in {At("read", d), At("write", d)}


LEMMA JobsStep == Inv /\ JobsAndReg /\ [Next]_vars => JobsAndReg'
<1> SUFFICES ASSUME Inv, JobsAndReg, [Next]_vars PROVE JobsAndReg'
  OBVIOUS
<1>t. /\ queue \in Seq(Created) /\ job \in Progress /\ mode \in [Deps -> Modes]
      /\ \A i \in 1 .. Len(queue) : queue[i] \in Created
      /\ job.deps \subseteq Created /\ Created \subseteq Deps
  BY DEF Inv, Messages, RunnerOK, Rows, Progress, Created
<1>s. ASSUME UNCHANGED <<queue, job, reg>>, \A d \in Created : mode'[d] = mode[d]
      PROVE  JobsAndReg'
  BY <1>s, <1>t DEF JobsAndReg
<1>1. ASSUME NEW c \in Calls, Api(c) \/ WriteStatus(c) PROVE JobsAndReg'
  BY <1>1, <1>s DEF Api, CreateDeployment, PromoteDeployment, ChangeDeployment, StopAll,
                    StopSession, Request, WriteStatus, SetStatus, db, redis, run
<1>2. ASSUME NEW c \in Calls, InsertRow(c) PROVE JobsAndReg'
  <2>1. PICK d \in Deps \ Created : mode' = [mode EXCEPT ![d] = newMode[c]]
    BY <1>2 DEF InsertRow
  <2>2. \A e \in Created : mode'[e] = mode[e]
    BY <2>1, <1>t
  <2>. QED BY <1>2, <2>2, <1>s DEF InsertRow, redis, run
<1>3. ASSUME NEW c \in Calls, Publish(c) PROVE JobsAndReg'
  <2>1. UNCHANGED <<job, reg, mode>>
    BY <1>3 DEF Publish, db, run
  <2>2. CASE queue' = queue
    BY <2>1, <2>2, <1>s
  <2>3. CASE \E d \in target[c] : mode[d] = "backtest" /\ queue' = Append(queue, d)
    <3>1. PICK d \in target[c] : mode[d] = "backtest" /\ queue' = Append(queue, d)
      BY <2>3
    <3>2. /\ Len(queue') = Len(queue) + 1 /\ queue'[Len(queue) + 1] = d
          /\ \A i \in 1 .. Len(queue) : queue'[i] = queue[i]
          /\ Len(queue) \in Nat
      BY <3>1, <1>t
    <3>3. \A i \in 1 .. Len(queue') : mode[queue'[i]] = "backtest"
      BY <3>1, <3>2 DEF JobsAndReg
    <3>. QED BY <2>1, <3>3 DEF JobsAndReg
  <2>. QED BY <1>3, <2>2, <2>3 DEF Publish, Announce, redis
<1>4. ASSUME Register PROVE JobsAndReg'
  <2>1. UNCHANGED <<queue, job, mode>>
    BY <1>4 DEF Register, RegisterRead, RegisterWrite, SetStatus, db, redis
  <2>2. CASE RegisterRead
    <3>1. PICK d \in Deps : reg = At("read", d)
      BY <2>2 DEF RegisterRead, JobsAndReg, Idle, At
    <3>2. reg' \in {Idle, At("write", d)}
      BY <2>2, <3>1 DEF RegisterRead, At
    <3>. QED BY <2>1, <3>2 DEF JobsAndReg
  <2>. QED BY <1>4, <2>1, <2>2 DEF Register, RegisterWrite, JobsAndReg
<1>5. ASSUME LoadNext \/ Subscribe \/ Hang \/ Listen PROVE JobsAndReg'
  <2>1. UNCHANGED <<queue, job, mode>>
    BY <1>5 DEF LoadNext, Subscribe, Hang, Listen, db, redis
  <2>2. reg' = reg \/ \E d \in Deps : reg' = At("read", d)
    <3>1. CASE LoadNext \/ Subscribe \/ Hang
      BY <3>1, <1>t DEF LoadNext, Subscribe, Hang, Schedule, Inv, RunnerOK
    <3>2. CASE Listen
      <4>1. Head(channel).dep \in Deps
        <5>1. Head(channel) \in [register : BOOLEAN, dep : Created]
          BY <3>2, HeadTail DEF Listen, Inv, Messages
        <5>. QED BY <5>1, <1>t
      <4>. QED BY <3>2, <4>1 DEF Listen, Schedule
    <3>. QED BY <1>5, <3>1, <3>2
  <2>. QED BY <2>1, <2>2 DEF JobsAndReg
<1>6. ASSUME TakeJob PROVE JobsAndReg'
  <2>1. /\ queue # << >> /\ queue' = Tail(queue) /\ job'.deps = {Head(queue)}
        /\ UNCHANGED <<reg, mode>>
    BY <1>6 DEF TakeJob, At, db
  <2>2. /\ Head(queue) = queue[1] /\ 1 \in 1 .. Len(queue)
        /\ \A i \in 1 .. Len(Tail(queue)) :
              Tail(queue)[i] = queue[i + 1] /\ i + 1 \in 1 .. Len(queue)
    BY <2>1, <1>t
  <2>. QED BY <2>1, <2>2 DEF JobsAndReg
<1>7. ASSUME StartBacktest \/ EndBacktest PROVE JobsAndReg'
  <2>1. UNCHANGED <<queue, reg, mode>> /\ job'.deps \subseteq job.deps
    BY <1>7, <1>t DEF StartBacktest, EndBacktest, SetStatus, db, redis, Idle, Progress
  <2>. QED BY <2>1 DEF JobsAndReg
<1>8. ASSUME NEW d \in Deps, StartTick(d) \/ EndTick(d) PROVE JobsAndReg'
  BY <1>8, <1>s DEF StartTick, EndTick, db, redis
<1>9. ASSUME RunnerStart \/ RunnerCrash \/ LoadRaises PROVE JobsAndReg'
  BY <1>9 DEF RunnerStart, RunnerCrash, LoadRaises, Die, JobsAndReg, Idle, db, redis
<1>10. CASE UNCHANGED vars
  BY <1>10, <1>s DEF vars, db, redis, run
<1>. QED
  BY <1>1, <1>2, <1>3, <1>4, <1>5, <1>6, <1>7, <1>8, <1>9, <1>10
     DEF Next, Answer, Load, Backtest

(* Only a schedule makes a paper or live deployment run, so that the cron  *)
(* expression of one that runs, is paused, or is about to be, can be       *)
(* scheduled.                                                              *)
Ran(d) ==
    \/ status[d] \in {"running", "paused"} \/ d \in reg.deps
    \/ \E c \in Calls : op[c] \in {"pause", "resume"} /\ d \in target[c]

CronOK ==
    /\ \A d \in Deps : mode[d] # "backtest" /\ Ran(d) => cron[d] # "invalid"
    /\ \A d \in sched : cron[d] # "invalid"

LEMMA CronStep == Inv /\ JobsAndReg /\ CronOK /\ [Next]_vars => CronOK'
<1> SUFFICES ASSUME Inv, JobsAndReg, CronOK, [Next]_vars PROVE CronOK'
  OBVIOUS
<1>t. /\ Rows /\ Requests /\ reg \in Progress /\ reg.deps \subseteq Created
      /\ sched \subseteq Created
      /\ Created \subseteq Deps
  BY DEF Inv, RunnerOK, Progress, Created
<1>s. ASSUME sched' = sched, \A d \in sched : cron'[d] = cron[d],
             \A d \in Deps : (mode'[d] # "backtest" /\ Ran(d)') =>
                mode[d] # "backtest" /\ Ran(d) /\ cron'[d] = cron[d]
      PROVE  CronOK'
  BY <1>s DEF CronOK
<1>1. ASSUME NEW c \in Calls, Api(c) PROVE CronOK'
  <2>1. PICK o \in Ops, S \in SUBSET Created, m \in Modes :
           /\ Request(c, o, S, m)
           /\ o \in {"pause", "resume"} => \A d \in S : status[d] \in {"running", "paused"}
    <3>1. CASE \E d \in Created, o \in Changes : ChangeDeployment(c, o, d)
      BY <3>1 DEF ChangeDeployment, Permitted, Changes, Ops, Modes
    <3>2. CASE \E m \in Modes : CreateDeployment(c, m)
      BY <3>2 DEF CreateDeployment, Ops
    <3>3. CASE \E d \in Created : PromoteDeployment(c, d) \/ StopSession(c, d)
      BY <3>3 DEF PromoteDeployment, StopSession, NextMode, Ops, Modes
    <3>4. CASE StopAll(c)
      BY <3>4 DEF StopAll, Ops, Modes, Created
    <3>. QED BY <1>1, <3>1, <3>2, <3>3, <3>4 DEF Api
  <2>2. /\ op' = [op EXCEPT ![c] = o] /\ target' = [target EXCEPT ![c] = S]
        /\ UNCHANGED <<mode, status, cron, reg, sched>>
    BY <2>1 DEF Request, db, run
  <2>3. \A d \in Deps : Ran(d)' => Ran(d)
    BY <2>1, <2>2, <1>t DEF Ran, Requests
  <2>. QED BY <2>2, <2>3, <1>s
<1>2. ASSUME NEW c \in Calls, InsertRow(c) PROVE CronOK'
  <2>1. PICK d \in Deps \ Created :
           /\ mode' = [mode EXCEPT ![d] = newMode[c]]
           /\ status' = [status EXCEPT ![d] = "pending"]
           /\ \E e \in Crons : cron' = [cron EXCEPT ![d] = e]
           /\ \/ op[c] = "create" /\ op' = op /\ target' = [target EXCEPT ![c] = {d}]
              \/ Finish(c)
           /\ reg' = reg /\ sched' = sched
    BY <1>2 DEF InsertRow, run
  <2>2. \A b \in Calls : op'[b] \in {"pause", "resume"} =>
           op[b] = op'[b] /\ target'[b] = target[b] /\ d \notin target[b]
    BY <2>1, <1>t DEF Finish, Requests
  <2>3. ~Ran(d)'
    BY <2>1, <2>2, <1>t DEF Ran, Rows
  <2>4. \A e \in Deps \ {d} : (Ran(e)' => Ran(e)) /\ mode'[e] = mode[e] /\ cron'[e] = cron[e]
    BY <2>1, <2>2, <1>t DEF Ran, Rows
  <2>5. \A e \in sched : cron'[e] = cron[e]
    BY <2>4, <1>t
  <2>. QED BY <2>1, <2>3, <2>4, <2>5, <1>s
<1>3. ASSUME NEW c \in Calls, WriteStatus(c) PROVE CronOK'
  <2>1. /\ SetStatus(target[c], NewStatus(op[c])) /\ reg' = reg /\ sched' = sched
        /\ Finish(c) \/ UNCHANGED <<op, target>>
    BY <1>3 DEF WriteStatus, run
  <2>2. \A b \in Calls : op'[b] \in {"pause", "resume"} =>
           op[b] = op'[b] /\ target'[b] = target[b]
    BY <2>1, <1>t DEF Finish, Requests
  <2>3. \A d \in Deps : status'[d] \in {"running", "paused"} =>
           status'[d] = status[d] \/ (d \in target[c] /\ op[c] \in {"pause", "resume"})
    BY <2>1 DEF SetStatus, NewStatus
  <2>4. \A d \in Deps : Ran(d)' => Ran(d)
    BY <2>1, <2>2, <2>3 DEF Ran
  <2>. QED BY <2>1, <2>4, <1>s DEF SetStatus
<1>4. ASSUME NEW c \in Calls, Publish(c) PROVE CronOK'
  <2>1. /\ UNCHANGED <<mode, status, cron, reg, sched>>
        /\ \/ Finish(c)
           \/ op' = op /\ \E d : target' = [target EXCEPT ![c] = @ \ {d}]
    BY <1>4 DEF Publish, db, run
  <2>2. \A b \in Calls : op'[b] \in {"pause", "resume"} =>
           op[b] = op'[b] /\ target'[b] \subseteq target[b]
    BY <2>1, <1>t DEF Finish, Requests
  <2>. QED BY <2>1, <2>2, <1>s DEF Ran
<1>5. ASSUME Register PROVE CronOK'
  <2>1. UNCHANGED <<op, target, mode, cron, sched>> /\ reg'.deps \subseteq reg.deps
    BY <1>5, <1>t DEF Register, RegisterRead, RegisterWrite, SetStatus, db, api, Idle, Progress
  <2>2. \A d \in Deps : status'[d] = status[d] \/ d \in reg.deps
    BY <1>5 DEF Register, RegisterRead, RegisterWrite, SetStatus, db
  <2>. QED BY <2>1, <2>2, <1>s DEF Ran
<1>6. ASSUME LoadNext \/ Listen PROVE CronOK'
  <2>1. UNCHANGED <<op, target, mode, status, cron>>
    BY <1>6 DEF LoadNext, Listen, db, api
  <2>2. /\ \A d \in reg'.deps : cron[d] # "invalid" \/ d \in reg.deps
        /\ \A d \in sched' : cron[d] # "invalid" \/ d \in sched
    BY <1>6 DEF LoadNext, Listen, Schedule, Unschedule, At
  <2>. QED BY <2>1, <2>2 DEF CronOK, Ran
<1>7. ASSUME StartBacktest \/ EndBacktest PROVE CronOK'
  <2>1. /\ UNCHANGED <<op, target, mode, cron, reg, sched>>
        /\ \A d \in Deps : status'[d] = status[d] \/ mode[d] = "backtest"
    BY <1>7 DEF StartBacktest, EndBacktest, SetStatus, JobsAndReg, db, api
  <2>. QED BY <2>1, <1>s DEF Ran
<1>8. ASSUME Subscribe \/ Hang \/ TakeJob \/ RunnerStart \/ UNCHANGED vars
             \/ \E d \in Deps : StartTick(d) \/ EndTick(d)
      PROVE  CronOK'
  <2>1. UNCHANGED <<op, target, mode, status, cron, reg, sched>>
    BY <1>8 DEF Subscribe, Hang, TakeJob, RunnerStart, StartTick, EndTick, db, api, run, vars
  <2>. QED BY <2>1 DEF CronOK, Ran
<1>9. ASSUME RunnerCrash \/ LoadRaises PROVE CronOK'
  <2>1. UNCHANGED <<op, target, mode, status, cron>> /\ reg'.deps = {} /\ sched' = {}
    BY <1>9 DEF RunnerCrash, LoadRaises, Die, db, api, Idle
  <2>. QED BY <2>1 DEF CronOK, Ran
<1>. QED BY <1>1, <1>2, <1>3, <1>4, <1>5, <1>6, <1>7, <1>8, <1>9
         DEF Next, Answer, Load, Backtest

(* What the runner is about to hear of d, in the channel or from a request *)
(* that is publishing: to register or to unregister it.                    *)
Announces(c) == op[c] \in {"create", "resume"}

ToRegister(d) ==
    \/ \E c \in Calls : pc[c] = "publish" /\ d \in target[c] /\ Announces(c)
    \/ \E i \in 1 .. Len(channel) : channel[i].register /\ channel[i].dep = d

ToUnregister(d) ==
    \/ \E c \in Calls : pc[c] = "publish" /\ d \in target[c] /\ ~Announces(c)
    \/ \E i \in 1 .. Len(channel) : ~channel[i].register /\ channel[i].dep = d

(* What the runner will still do to d agrees with its row; when there is   *)
(* nothing left to do, the schedule does.                                  *)
InStep(d) ==
    /\ ToRegister(d) => status[d] \in {"pending", "running"}
    /\ ToUnregister(d) => status[d] \in {"paused", "stopped"}
    /\ reg = At("read", d) => d \in sched /\ status[d] \in {"pending", "running"}
    /\ reg = At("write", d) => d \in sched /\ status[d] = "pending"
    /\ (d \notin reg.deps /\ ~ToRegister(d) /\ ~ToUnregister(d))
          => (d \in sched <=> status[d] = "running")

(* A request that is about to write came when the runner had heard all.    *)
Alone(c) ==
    /\ channel = << >> /\ reg = Idle /\ op[c] # "stop_session"
    /\ \A b \in Calls \ {c} : pc[b] = "idle"

Undisturbed == NothingLost /\ crashes = 0 /\ calm

ScheduleInv ==
    Undisturbed =>
       /\ runner \in {"up", "stuck"}
       /\ \A c \in Calls : pc[c] = "write" => Alone(c)
       /\ \A d \in Deps : mode[d] # "backtest" => InStep(d)

(* Once disturbed, always disturbed.                                       *)
LEMMA UndisturbedBefore == Inv /\ [Next]_vars /\ Undisturbed' => Undisturbed
<1> SUFFICES ASSUME Inv, [Next]_vars, NothingLost, crashes' = 0, calm' PROVE Undisturbed
  BY DEF Undisturbed, NothingLost
<1>1. ASSUME NEW c \in Calls, Api(c) PROVE crashes' = crashes /\ (calm' => calm)
  <2>1. PICK o \in Ops, S \in SUBSET Created, m \in Modes : Request(c, o, S, m)
    BY <1>1 DEF Api, CreateDeployment, PromoteDeployment, ChangeDeployment, StopAll,
                StopSession, Modes, NextMode, Ops, Changes, Created
  <2>2. crashes' = crashes /\ calm' = (calm /\ Quiet)
    BY <2>1 DEF Request
  <2>. QED BY <2>2, Zenon
<1>2. CASE RunnerCrash
  BY <1>2 DEF RunnerCrash, Inv, Past
<1>5. ASSUME RunnerStart PROVE crashes' = crashes /\ (calm' => calm)
  <2>1. crashes' = crashes /\ calm' = (calm /\ \A c \in Calls : pc[c] = "idle")
    BY <1>5 DEF RunnerStart
  <2>. QED BY <2>1, Zenon
<1>3. CASE UNCHANGED <<calm, crashes>>
  BY <1>3 DEF Undisturbed
<1>4. \/ \E c \in Calls : Api(c)
      \/ RunnerCrash \/ RunnerStart
      \/ UNCHANGED <<calm, crashes>>
  BY DEF Next, Answer, InsertRow, WriteStatus, Publish, Register, RegisterRead,
         RegisterWrite, Load, LoadNext, LoadRaises, Die, Subscribe, Listen, Backtest, TakeJob,
         StartBacktest, EndBacktest, Hang, StartTick, EndTick, vars, past
<1>. QED BY <1>1, <1>2, <1>3, <1>4, <1>5 DEF Undisturbed

(* A step that leaves the rows, the messages and the runner's side alone.  *)
LEMMA InStepKept ==
  ASSUME NEW d \in Deps, InStep(d), UNCHANGED <<channel, op, target, pc, reg>>,
         status'[d] = status[d], d \in sched' <=> d \in sched
  PROVE  InStep(d)'
BY DEF InStep, ToRegister, ToUnregister, Announces

LEMMA AloneKept ==
  ASSUME ScheduleInv, Undisturbed, UNCHANGED <<channel, op, pc, reg>>,
         NEW c \in Calls, pc'[c] = "write"
  PROVE  Alone(c)'
BY DEF ScheduleInv, Alone, Idle

LEMMA ScheduleStep ==
  Inv /\ JobsAndReg /\ CronOK /\ ScheduleInv /\ [Next]_vars => ScheduleInv'
<1> SUFFICES ASSUME Inv, JobsAndReg, CronOK, ScheduleInv, [Next]_vars, Undisturbed'
             PROVE  /\ runner' \in {"up", "stuck"}
                    /\ \A c \in Calls : pc'[c] = "write" => Alone(c)'
                    /\ \A d \in Deps : mode'[d] # "backtest" => InStep(d)'
  BY DEF ScheduleInv
<1> DEFINE Up    == runner' \in {"up", "stuck"}
           Lone  == \A c \in Calls : pc'[c] = "write" => Alone(c)'
           Steps == \A d \in Deps : mode'[d] # "backtest" => InStep(d)'
<1>u. Undisturbed /\ "redis" \notin Env /\ "session" \notin Env
  BY UndisturbedBefore DEF Undisturbed, NothingLost
<1>i. /\ runner \in {"up", "stuck"}
      /\ \A c \in Calls : pc[c] = "write" => Alone(c)
      /\ \A d \in Deps : mode[d] # "backtest" => InStep(d)
  BY <1>u DEF ScheduleInv
<1>t. /\ Rows /\ Requests /\ sched \subseteq Created /\ reg \in Progress
      /\ channel \in Seq([register : BOOLEAN, dep : Created]) /\ Created \subseteq Deps
  BY DEF Inv, RunnerOK, Messages, Created
<1>s. ASSUME UNCHANGED <<mode, status, channel, op, target, pc, runner, sched, reg>>
      PROVE  Up /\ Lone /\ Steps
  BY <1>s, <1>i, <1>u, InStepKept, AloneKept
<1>1. ASSUME NEW c \in Calls, Api(c) PROVE Up /\ Lone /\ Steps
  <2>1. PICK o \in Ops \ {"stop_session"}, S \in SUBSET Created, m \in Modes :
           Request(c, o, S, m)
    BY <1>1, <1>u DEF Api, CreateDeployment, PromoteDeployment, ChangeDeployment, StopAll,
                      StopSession, Modes, NextMode, Ops, Changes, Created
  <2>2. Quiet
    <3>1. calm' = (calm /\ Quiet) /\ calm'
      BY <2>1 DEF Request, Undisturbed
    <3>. QED BY <3>1, Zenon
  <2>3. /\ op'[c] = o /\ pc'[c] = "write"
        /\ \A b \in Calls \ {c} : op'[b] = op[b] /\ target'[b] = target[b] /\ pc'[b] = "idle"
        /\ UNCHANGED <<mode, status, channel, runner, sched, reg>>
    BY <2>1, <2>2, <1>t DEF Request, Quiet, Requests, db, redis, run
  <2>4. Lone
    BY <2>1, <2>2, <2>3 DEF Alone, Quiet
  <2>5. Steps
    <3>1. ASSUME NEW d \in Deps PROVE ~ToRegister(d)' /\ ~ToUnregister(d)'
      BY <2>2, <2>3 DEF ToRegister, ToUnregister, Quiet
    <3>2. ASSUME NEW d \in Deps PROVE ~ToRegister(d) /\ ~ToUnregister(d)
      BY <2>2 DEF ToRegister, ToUnregister, Quiet
    <3>. QED BY <1>i, <2>2, <2>3, <3>1, <3>2 DEF InStep, Quiet, Idle, At
  <2>. QED BY <1>i, <2>3, <2>4, <2>5
<1>2. ASSUME NEW c \in Calls, InsertRow(c) PROVE Up /\ Lone /\ Steps
  <2>1. PICK d \in Deps \ Created :
           /\ mode' = [mode EXCEPT ![d] = newMode[c]]
           /\ status' = [status EXCEPT ![d] = "pending"]
           /\ IF op[c] = "create"
                THEN /\ target' = [target EXCEPT ![c] = {d}]
                     /\ pc' = [pc EXCEPT ![c] = "publish"]
                     /\ UNCHANGED <<op, newMode>>
                ELSE Finish(c)
    BY <1>2 DEF InsertRow
  <2>2. Alone(c) /\ pc[c] = "write" /\ UNCHANGED <<channel, runner, sched, reg>>
    BY <1>2, <1>i DEF InsertRow, redis, run
  <2>3. \A b \in Calls : pc'[b] # "write" /\ (pc'[b] = "publish" =>
                            b = c /\ op[c] = "create" /\ op'[c] = "create" /\ target'[c] = {d})
    BY <2>1, <2>2, <1>t DEF Alone, Requests, Finish
  <2>4. ASSUME NEW e \in Deps, mode'[e] # "backtest" PROVE InStep(e)'
    <3>1. ~ToRegister(e) /\ ~ToUnregister(e) /\ ~ToUnregister(e)'
      BY <2>2, <2>3 DEF ToRegister, ToUnregister, Alone, Announces
    <3>2. CASE e = d
      <4>1. e \notin sched' /\ status'[e] = "pending" /\ reg' = Idle
        BY <2>1, <2>2, <3>2, <1>t DEF Alone, Rows
      <4>. QED BY <3>1, <4>1 DEF InStep, Idle, At
    <3>3. CASE e # d
      <4>1. /\ mode[e] # "backtest" /\ status'[e] = status[e] /\ sched' = sched
            /\ reg' = reg /\ reg = Idle
        BY <2>1, <2>2, <2>4, <3>3, <1>t DEF Alone, Rows
      <4>2. ~ToRegister(e)'
        BY <2>2, <2>3, <3>3 DEF ToRegister, Alone
      <4>. QED BY <1>i, <3>1, <4>1, <4>2 DEF InStep, Idle, At
    <3>. QED BY <3>2, <3>3
  <2>. QED BY <1>i, <2>2, <2>3, <2>4
<1>3. ASSUME NEW c \in Calls, WriteStatus(c) PROVE Up /\ Lone /\ Steps
  <2>1. /\ Alone(c) /\ pc[c] = "write" /\ op[c] \notin {"create", "promote", "stop_session"}
        /\ SetStatus(target[c], NewStatus(op[c]))
        /\ pc' = [pc EXCEPT ![c] = "publish"]
        /\ UNCHANGED <<op, target, channel, runner, sched, reg>>
    BY <1>3, <1>i DEF WriteStatus, Alone, redis, run
  <2>2. \A b \in Calls : pc'[b] # "write" /\ (pc'[b] = "publish" => b = c)
    BY <2>1, <1>t DEF Alone, Requests
  <2>3. ASSUME NEW e \in Deps, mode'[e] # "backtest" PROVE InStep(e)'
    <3>0. ~ToRegister(e) /\ ~ToUnregister(e)
      BY <2>1 DEF ToRegister, ToUnregister, Alone
    <3>1. mode[e] # "backtest" /\ reg = Idle /\ channel = << >>
      BY <2>1, <2>3 DEF SetStatus, Alone
    <3>2. CASE e \in target[c]
      <4>1. status'[e] = NewStatus(op[c])
        BY <2>1, <3>2 DEF SetStatus
      <4>2. ToRegister(e)' => op[c] = "resume"
        BY <2>1, <2>2, <3>1 DEF ToRegister, Announces
      <4>3. ToUnregister(e)' => op[c] # "resume"
        BY <2>1, <2>2, <3>1 DEF ToUnregister, Announces
      <4>4. ToRegister(e)' \/ ToUnregister(e)'
        <5>1. pc'[c] = "publish" /\ e \in target'[c]
          BY <2>1, <3>2, <1>t DEF Requests
        <5>. QED BY <5>1, Zenon DEF ToRegister, ToUnregister
      <4>. QED BY <2>1, <3>1, <4>1, <4>2, <4>3, <4>4 DEF InStep, NewStatus, Idle, At
    <3>3. CASE e \notin target[c]
      <4>1. status'[e] = status[e]
        BY <2>1, <3>3 DEF SetStatus
      <4>2. ~ToRegister(e)' /\ ~ToUnregister(e)'
        BY <2>1, <2>2, <3>1, <3>3 DEF ToRegister, ToUnregister
      <4>. QED BY <1>i, <2>1, <3>0, <3>1, <4>1, <4>2 DEF InStep, Idle, At
    <3>. QED BY <3>2, <3>3
  <2>. QED BY <1>i, <2>1, <2>2, <2>3
<1>4. ASSUME NEW c \in Calls, Publish(c) PROVE Up /\ Lone /\ Steps
  <2>1. PICK d \in target[c] :
           /\ Announce(c, d)
           /\ \/ target[c] = {d} /\ Finish(c)
              \/ target' = [target EXCEPT ![c] = @ \ {d}] /\ UNCHANGED <<op, pc>>
    BY <1>4, <1>u DEF Publish
  <2>2. pc[c] = "publish" /\ UNCHANGED <<mode, status, runner, sched, reg>>
    BY <1>4 DEF Publish, db, run
  <2>3. /\ \A b \in Calls \ {c} : op'[b] = op[b] /\ target'[b] = target[b] /\ pc'[b] = pc[b]
        /\ \/ pc'[c] = "idle" /\ target[c] = {d}
           \/ pc'[c] = "publish" /\ op'[c] = op[c] /\ target'[c] = target[c] \ {d}
    BY <2>1, <2>2, <1>t DEF Finish, Requests
  <2>4. Lone
    BY <1>i, <2>2, <2>3 DEF Alone
  <2>5. ASSUME NEW e \in Deps, mode'[e] # "backtest" PROVE InStep(e)'
    <3>1. CASE mode[d] = "backtest" /\ channel' = channel
      <4>1. e # d
        BY <2>2, <2>5, <3>1
      <4>. QED BY <1>i, <2>2, <2>3, <2>5, <3>1, <4>1
               DEF InStep, ToRegister, ToUnregister, Announces
    <3>2. ASSUME NEW r \in BOOLEAN, r <=> Announces(c),
                 channel' = Append(channel, [register |-> r, dep |-> d])
          PROVE  InStep(e)'
      <4> DEFINE n == Len(channel) + 1
      <4>1. /\ Len(channel') = n /\ n \in 1 .. n
            /\ \A i \in 1 .. Len(channel) : i \in 1 .. n /\ channel'[i] = channel[i]
            /\ \A i \in 1 .. n : i \in 1 .. Len(channel) \/ i = n
            /\ channel'[n] = [register |-> r, dep |-> d]
        BY <3>2, <1>t
      <4>2. channel'[n].register = r /\ channel'[n].dep = d
        BY <4>1
      <4> HIDE DEF n
      <4>3. ToRegister(e)' <=> ToRegister(e)
        BY <2>1, <2>2, <2>3, <3>2, <4>1, <4>2 DEF ToRegister, Announces
      <4>4. ToUnregister(e)' <=> ToUnregister(e)
        BY <2>1, <2>2, <2>3, <3>2, <4>1, <4>2 DEF ToUnregister, Announces
      <4>. QED BY <1>i, <2>2, <2>5, <4>3, <4>4 DEF InStep
    <3>3. \/ mode[d] = "backtest" /\ channel' = channel
          \/ \E r \in BOOLEAN : /\ r <=> Announces(c)
                                /\ channel' = Append(channel, [register |-> r, dep |-> d])
      <4> DEFINE r == op[c] \in {"create", "resume"}
      <4>1. r \in BOOLEAN /\ (r <=> Announces(c))
        BY DEF Announces
      <4>2. \/ mode[d] = "backtest" /\ channel' = channel
            \/ channel' = Append(channel, [register |-> r, dep |-> d])
        BY <2>1, <1>i, Zenon DEF Announce
      <4> HIDE DEF r
      <4>. QED BY <4>1, <4>2, Zenon
    <3>. QED BY <3>1, <3>2, <3>3
  <2>. QED BY <1>i, <2>2, <2>4, <2>5
<1>5. ASSUME RegisterRead PROVE Up /\ Lone /\ Steps
  <2>1. PICK d \in Deps : reg = At("read", d)
    BY <1>5 DEF RegisterRead, JobsAndReg, Idle, At
  <2>2. /\ reg' = (IF status[d] = "pending" THEN At("write", d) ELSE Idle)
        /\ UNCHANGED <<mode, status, channel, op, target, pc, runner, sched>>
    BY <1>5, <2>1 DEF RegisterRead, At, db, redis, api
  <2>3. reg # Idle
    BY <2>1 DEF Idle, At
  <2>4. Lone
    BY <1>i, <2>2, <2>3 DEF Alone
  <2>5. ASSUME NEW e \in Deps, mode'[e] # "backtest" PROVE InStep(e)'
    <3>1. (ToRegister(e)' <=> ToRegister(e)) /\ (ToUnregister(e)' <=> ToUnregister(e))
      BY <2>2 DEF ToRegister, ToUnregister, Announces
    <3>2. InStep(e)
      BY <1>i, <2>2, <2>5
    <3>. QED BY <2>1, <2>2, <3>1, <3>2 DEF InStep, Idle, At
  <2>. QED BY <1>i, <2>2, <2>4, <2>5
<1>6. ASSUME RegisterWrite PROVE Up /\ Lone /\ Steps
  <2>1. PICK d \in Deps : reg = At("write", d)
    BY <1>6 DEF RegisterWrite, JobsAndReg, Idle, At
  <2>2. /\ SetStatus({d}, "running") /\ reg' = Idle
        /\ UNCHANGED <<mode, channel, op, target, pc, runner, sched>>
    BY <1>6, <2>1 DEF RegisterWrite, At, SetStatus, redis, api
  <2>3. reg # Idle
    BY <2>1 DEF Idle, At
  <2>4. Lone
    BY <1>i, <2>2, <2>3 DEF Alone
  <2>5. ASSUME NEW e \in Deps, mode'[e] # "backtest" PROVE InStep(e)'
    <3>1. (ToRegister(e)' <=> ToRegister(e)) /\ (ToUnregister(e)' <=> ToUnregister(e))
      BY <2>2 DEF ToRegister, ToUnregister, Announces
    <3>2. InStep(e)
      BY <1>i, <2>2, <2>5
    <3>3. status'[e] = IF e = d THEN "running" ELSE status[e]
      BY <2>2 DEF SetStatus
    <3>. QED BY <2>1, <2>2, <3>1, <3>2, <3>3 DEF InStep, Idle, At
  <2>. QED BY <1>i, <2>2, <2>4, <2>5
<1>7. ASSUME Listen PROVE Up /\ Lone /\ Steps
  <2> DEFINE m == Head(channel)
  <2>1. /\ channel # << >> /\ channel' = Tail(channel) /\ reg = Idle
        /\ IF m.register THEN Schedule(m.dep) ELSE Unschedule(m.dep) /\ UNCHANGED reg
        /\ UNCHANGED <<mode, status, cron, op, target, pc, runner>>
    BY <1>7 DEF Listen, db, api
  <2>2. /\ m = channel[1] /\ 1 \in 1 .. Len(channel)
        /\ m.dep \in Created /\ m.register \in BOOLEAN
    <3>1. m \in [register : BOOLEAN, dep : Created]
      BY <2>1, <1>t, HeadTail
    <3>2. m = channel[1] /\ 1 \in 1 .. Len(channel)
      BY <2>1, <1>t
    <3>. QED BY <3>1, <3>2
  <2>3. /\ \A i \in 1 .. Len(channel') : i + 1 \in 1 .. Len(channel) /\ channel'[i] = channel[i + 1]
        /\ \A i \in 2 .. Len(channel) : i - 1 \in 1 .. Len(channel') /\ channel'[i - 1] = channel[i]
    BY <2>1, <1>t
  <2>4. Lone
    BY <1>i, <2>1 DEF Alone
  <2>5. ASSUME NEW e \in Deps, mode'[e] # "backtest" PROVE InStep(e)'
    <3>0. InStep(e)
      BY <1>i, <2>1, <2>5
    <3>1. (ToRegister(e)' => ToRegister(e)) /\ (ToUnregister(e)' => ToUnregister(e))
      BY <2>1, <2>3 DEF ToRegister, ToUnregister, Announces
    <3>2. CASE e # m.dep
      <4>1. ASSUME NEW i \in 1 .. Len(channel), channel[i].dep = e
            PROVE  i - 1 \in 1 .. Len(channel') /\ channel'[i - 1] = channel[i]
        BY <2>2, <2>3, <3>2, <4>1
      <4>2. ToRegister(e) => ToRegister(e)'
        BY <2>1, <4>1 DEF ToRegister, Announces
      <4>3. ToUnregister(e) => ToUnregister(e)'
        BY <2>1, <4>1 DEF ToUnregister, Announces
      <4>4. (e \in sched' <=> e \in sched) /\ e \notin reg'.deps
        BY <2>1, <3>2 DEF Schedule, Unschedule, At, Idle
      <4>. QED BY <2>1, <3>0, <3>1, <4>2, <4>3, <4>4 DEF InStep, Idle, At
    <3>3. CASE e = m.dep /\ m.register
      <4>1. ToRegister(e)
        BY <2>2, <3>3 DEF ToRegister
      <4>2. CASE cron[e] # "invalid"
        <5>1. e \in sched' /\ reg' = At("read", e)
          BY <2>1, <3>3, <4>2 DEF Schedule
        <5>. QED BY <2>1, <3>0, <3>1, <4>1, <5>1 DEF InStep, At
      <4>3. CASE cron[e] = "invalid"
        <5>1. status[e] # "running" /\ e \notin sched
          BY <2>1, <2>5, <4>3 DEF CronOK, Ran
        <5>2. sched' = sched /\ reg' = Idle
          BY <2>1, <3>3, <4>3 DEF Schedule
        <5>. QED BY <2>1, <3>0, <3>1, <5>1, <5>2 DEF InStep, Idle, At
      <4>. QED BY <4>2, <4>3
    <3>4. CASE e = m.dep /\ ~m.register
      <4>1. ToUnregister(e)
        BY <2>2, <3>4 DEF ToUnregister
      <4>2. e \notin sched' /\ reg' = Idle
        BY <2>1, <3>4 DEF Unschedule
      <4>. QED BY <2>1, <3>0, <3>1, <4>1, <4>2 DEF InStep, Idle, At
    <3>. QED BY <3>2, <3>3, <3>4
  <2>. QED BY <1>i, <2>1, <2>4, <2>5
<1>8. ASSUME StartBacktest \/ EndBacktest PROVE Up /\ Lone /\ Steps
  <2>1. /\ UNCHANGED <<mode, channel, op, target, pc, runner, sched, reg>>
        /\ \A d \in Deps : mode[d] # "backtest" => status'[d] = status[d]
    BY <1>8 DEF StartBacktest, EndBacktest, SetStatus, JobsAndReg, db, redis, api
  <2>. QED BY <2>1, <1>i, <1>u, InStepKept, AloneKept
<1>9. ASSUME Load PROVE Up /\ Lone /\ Steps
  BY <1>9, <1>i DEF Load, LoadNext, LoadRaises, Subscribe
<1>13. ASSUME Hang PROVE Up /\ Lone /\ Steps
  <2>1. UNCHANGED <<mode, status, channel, op, target, pc, sched, reg>> /\ runner' = "stuck"
    BY <1>13 DEF Hang, db, redis, api
  <2>. QED BY <2>1, <1>i, <1>u, InStepKept, AloneKept
<1>10. ASSUME RunnerStart \/ RunnerCrash PROVE FALSE
  BY <1>10, <1>i, <1>u DEF RunnerStart, RunnerCrash, Undisturbed, Inv, Past
<1>11. ASSUME TakeJob \/ \E d \in Deps : StartTick(d) \/ EndTick(d) PROVE Up /\ Lone /\ Steps
  BY <1>11, <1>s DEF TakeJob, StartTick, EndTick, db, redis, api
<1>12. CASE UNCHANGED vars
  BY <1>12, <1>s DEF vars, db, redis, api, run
<1>. QED
  BY <1>1, <1>2, <1>3, <1>4, <1>5, <1>6, <1>7, <1>8, <1>9, <1>10, <1>11, <1>12, <1>13
     DEF Next, Answer, Register, Backtest

(* With requests one at a time and the runner keeping up, the scheduler    *)
(* has exactly the paper and live deployments whose row is running, for    *)
(* any number of deployments, until a message or the runner is lost.       *)
THEOREM ScheduleFollowsRows == Spec => []ScheduleAgrees
<1>1. Init => JobsAndReg /\ CronOK /\ ScheduleInv
  BY DEF Init, JobsAndReg, CronOK, Ran, ScheduleInv, InStep, ToRegister, ToUnregister, Idle, At
<1>2. Inv /\ ScheduleInv => ScheduleAgrees
  <2> SUFFICES ASSUME Inv, ScheduleInv, Undisturbed, Quiet, NEW d \in Deps, mode[d] # "backtest"
               PROVE  d \in sched <=> status[d] = "running"
    BY DEF ScheduleAgrees, Undisturbed, Inv, RunnerOK, Created
  <2>1. ~ToRegister(d) /\ ~ToUnregister(d) /\ d \notin reg.deps
    BY DEF ToRegister, ToUnregister, Quiet, Idle
  <2>. QED BY <2>1 DEF ScheduleInv, InStep
<1>. QED BY InitInv, TypeStep, JobsStep, CronStep, ScheduleStep, <1>1, <1>2, PTL DEF Spec

-----------------------------------------------------------------------------
(* A stop is heard however far the runner is behind.  Told: what the       *)
(* runner hears of d last is to unregister it, or it has heard already.    *)
Halted(d) == status[d] \in {"paused", "stopped"}

Publishing(d) == \E c \in Calls : pc[c] = "publish" /\ d \in target[c] /\ ~Announces(c)

RegistersFrom(i, d) == \E j \in i .. Len(channel) : channel[j].register /\ channel[j].dep = d

Told(d) ==
    \/ Publishing(d)
    \/ \E i \in 1 .. Len(channel) :
          ~channel[i].register /\ channel[i].dep = d /\ ~RegistersFrom(i, d)
    \/ d \notin sched /\ ~RegistersFrom(1, d)

ToldInv ==
    OneByOne =>
       /\ runner \in {"up", "stuck"}
       /\ \A c \in Calls : pc[c] = "write" => op[c] # "stop_session"
       /\ \A c \in Calls : pc[c] = "publish" /\ Announces(c) =>
              \A d \in target[c] : ~Halted(d)
       /\ \A d \in Deps : Halted(d) => Told(d)

(* A step that leaves the messages alone and stops nobody.                 *)
LEMMA ToldKept ==
  ASSUME NEW d \in Deps, Halted(d) => Told(d), Halted(d)' => Halted(d),
         UNCHANGED <<channel, op, target, pc, sched>>
  PROVE  Halted(d)' => Told(d)'
BY DEF Told, Publishing, RegistersFrom, Announces

(* One more message.                                                       *)
LEMMA Appended ==
  ASSUME NEW S, NEW q \in Seq(S), NEW m \in S, NEW r, r = Append(q, m)
  PROVE  /\ Len(q) \in Nat /\ Len(r) = Len(q) + 1 /\ r[Len(r)] = m
         /\ \A i \in 1 .. Len(q) : i \in 1 .. Len(r) /\ r[i] = q[i]
         /\ \A i \in 1 .. Len(r) : i \in 1 .. Len(q) \/ i = Len(r)
OBVIOUS

LEMMA ToldStep == Inv /\ JobsAndReg /\ CronOK /\ ToldInv /\ [Next]_vars => ToldInv'
<1> SUFFICES ASSUME Inv, JobsAndReg, CronOK, ToldInv, [Next]_vars, OneByOne'
             PROVE  /\ runner' \in {"up", "stuck"}
                    /\ \A c \in Calls : pc'[c] = "write" => op'[c] # "stop_session"
                    /\ \A c \in Calls : pc'[c] = "publish" /\ Announces(c)' =>
                           \A d \in target'[c] : ~Halted(d)'
                    /\ \A d \in Deps : Halted(d)' => Told(d)'
  BY DEF ToldInv
<1> DEFINE Up    == runner' \in {"up", "stuck"}
           Write == \A c \in Calls : pc'[c] = "write" => op'[c] # "stop_session"
           Start == \A c \in Calls : pc'[c] = "publish" /\ Announces(c)' =>
                       \A d \in target'[c] : ~Halted(d)'
           Stop  == \A d \in Deps : Halted(d)' => Told(d)'
<1>u. OneByOne
  <2>1. crashes' = crashes \/ crashes' = crashes + 1
    BY DEF Next, Api, CreateDeployment, PromoteDeployment, ChangeDeployment, StopAll,
           StopSession, Request, Answer, InsertRow, WriteStatus, Publish, Register,
           RegisterRead, RegisterWrite, Load, LoadNext, LoadRaises, Subscribe, Listen, Backtest,
           TakeJob, StartBacktest, EndBacktest, Hang, StartTick, EndTick, RunnerStart,
           RunnerCrash, vars, past
  <2>. QED BY <2>1 DEF OneByOne, NothingLost, Inv, Past
<1>e. "redis" \notin Env /\ "session" \notin Env /\ \A b, c \in Calls : b = c
  BY <1>u DEF OneByOne, NothingLost
<1>i. /\ runner \in {"up", "stuck"}
      /\ \A c \in Calls : pc[c] = "write" => op[c] # "stop_session"
      /\ \A c \in Calls : pc[c] = "publish" /\ Announces(c) => \A d \in target[c] : ~Halted(d)
      /\ \A d \in Deps : Halted(d) => Told(d)
  BY <1>u DEF ToldInv
<1>t. /\ Rows /\ Requests /\ reg \in Progress
      /\ channel \in Seq([register : BOOLEAN, dep : Created]) /\ Created \subseteq Deps
  BY DEF Inv, RunnerOK, Messages, Created
<1>s. ASSUME UNCHANGED <<channel, op, target, pc, runner, sched>>,
             \A d \in Deps : Halted(d)' => Halted(d)
      PROVE  Up /\ Write /\ Start /\ Stop
  <2>1. \A c \in Calls : target[c] \subseteq Deps
    BY <1>t DEF Requests
  <2>2. Start
    BY <1>s, <1>i, <2>1 DEF Announces
  <2>3. Stop
    BY <1>s, <1>i, ToldKept
  <2>. QED BY <1>s, <1>i, <2>2, <2>3
<1>1. ASSUME NEW c \in Calls, Api(c) PROVE Up /\ Write /\ Start /\ Stop
  <2>1. PICK o \in Ops \ {"stop_session"}, S \in SUBSET Created, m \in Modes :
           Request(c, o, S, m)
    BY <1>1, <1>e DEF Api, CreateDeployment, PromoteDeployment, ChangeDeployment, StopAll,
                      StopSession, Modes, NextMode, Ops, Changes, Created
  <2>2. /\ pc[c] = "idle" /\ op'[c] = o /\ pc'[c] = "write"
        /\ UNCHANGED <<status, channel, runner, sched>>
    BY <2>1, <1>t DEF Request, Requests, db, redis, run
  <2>3. \A d \in Deps : ~Publishing(d)
    BY <2>2, <1>e DEF Publishing
  <2>4. Stop
    BY <1>i, <2>2, <2>3 DEF Halted, Told, RegistersFrom
  <2>. QED BY <1>i, <1>e, <2>2, <2>4
<1>2. ASSUME NEW c \in Calls, InsertRow(c) PROVE Up /\ Write /\ Start /\ Stop
  <2>1. PICK d \in Deps \ Created :
           /\ status' = [status EXCEPT ![d] = "pending"]
           /\ IF op[c] = "create"
                THEN /\ target' = [target EXCEPT ![c] = {d}]
                     /\ pc' = [pc EXCEPT ![c] = "publish"]
                     /\ UNCHANGED <<op, newMode>>
                ELSE Finish(c)
    BY <1>2 DEF InsertRow
  <2>2. pc[c] = "write" /\ UNCHANGED <<channel, runner, sched>>
    BY <1>2 DEF InsertRow, redis, run
  <2>3. pc'[c] = "idle" \/ (pc'[c] = "publish" /\ target'[c] = {d})
    BY <2>1, <1>t DEF Finish, Requests
  <2>4. ~Halted(d)' /\ \A e \in Deps \ {d} : status'[e] = status[e]
    BY <2>1, <1>t DEF Halted, Rows
  <2>5. \A e \in Deps : ~Publishing(e)
    BY <2>2, <1>e DEF Publishing
  <2>6. Start
    BY <2>3, <2>4, <1>e
  <2>7. Stop
    BY <1>i, <2>2, <2>4, <2>5 DEF Halted, Told, RegistersFrom
  <2>. QED BY <1>i, <1>e, <2>2, <2>3, <2>6, <2>7
<1>3. ASSUME NEW c \in Calls, WriteStatus(c) PROVE Up /\ Write /\ Start /\ Stop
  <2>1. /\ pc[c] = "write" /\ op[c] \notin {"create", "promote", "stop_session"}
        /\ SetStatus(target[c], NewStatus(op[c]))
        /\ pc' = [pc EXCEPT ![c] = "publish"]
        /\ UNCHANGED <<op, target, channel, runner, sched>>
    BY <1>3, <1>i DEF WriteStatus, redis, run
  <2>2. pc'[c] = "publish"
    BY <2>1, <1>t DEF Requests
  <2>3. Start
    BY <2>1, <1>e, <1>t DEF Announces, Halted, SetStatus, NewStatus, Requests
  <2>4. ASSUME NEW d \in Deps, Halted(d)' PROVE Told(d)'
    <3>1. CASE d \in target[c]
      <4>1. ~Announces(c)'
        BY <2>1, <2>4, <3>1 DEF Announces, Halted, SetStatus, NewStatus
      <4>. QED BY <2>1, <2>2, <3>1, <4>1 DEF Told, Publishing
    <3>2. CASE d \notin target[c]
      <4>1. Halted(d) /\ ~Publishing(d)
        BY <2>1, <2>4, <3>2, <1>e DEF Halted, SetStatus, Publishing
      <4>. QED BY <1>i, <2>1, <4>1 DEF Told, RegistersFrom
    <3>. QED BY <3>1, <3>2
  <2>. QED BY <1>i, <1>e, <2>1, <2>2, <2>3, <2>4
<1>4. ASSUME NEW c \in Calls, Publish(c) PROVE Up /\ Write /\ Start /\ Stop
  <2>1. PICK d \in target[c] :
           /\ Announce(c, d)
           /\ \/ target[c] = {d} /\ Finish(c)
              \/ target' = [target EXCEPT ![c] = @ \ {d}] /\ UNCHANGED <<op, pc>>
    BY <1>4, <1>e DEF Publish
  <2>2. pc[c] = "publish" /\ UNCHANGED <<status, runner, sched>>
    BY <1>4 DEF Publish, db, run
  <2>3. \/ pc'[c] = "idle" /\ target[c] = {d}
        \/ pc'[c] = "publish" /\ op'[c] = op[c] /\ target'[c] = target[c] \ {d}
    BY <2>1, <2>2, <1>t DEF Finish, Requests
  <2>4. Start
    BY <1>i, <1>e, <2>2, <2>3 DEF Announces, Halted
  <2>5. d \in Created
    BY <1>t, <2>1 DEF Requests
  <2>6. ASSUME NEW e \in Deps, Halted(e)' PROVE Told(e)'
    <3>0. Halted(e) /\ Told(e)
      BY <1>i, <2>2, <2>6 DEF Halted
    <3>1. CASE channel' = channel /\ Announces(c)
      <4>1. ~Publishing(e)
        BY <3>1, <1>e DEF Publishing
      <4>. QED BY <2>2, <3>0, <3>1, <4>1 DEF Told, RegistersFrom
    <3>2. ASSUME NEW r \in BOOLEAN, r <=> Announces(c),
                 channel' = Append(channel, [register |-> r, dep |-> d])
          PROVE  Told(e)'
      <4>1. /\ Len(channel) \in Nat /\ Len(channel') = Len(channel) + 1
            /\ \A i \in 1 .. Len(channel) : i \in 1 .. Len(channel') /\ channel'[i] = channel[i]
            /\ \A i \in 1 .. Len(channel') : i \in 1 .. Len(channel) \/ i = Len(channel')
            /\ channel'[Len(channel')] = [register |-> r, dep |-> d]
        <5>1. [register |-> r, dep |-> d] \in [register : BOOLEAN, dep : Created]
          BY <2>5
        <5>. QED BY <3>2, <1>t, <5>1, Appended
      <4>n. PICK n \in Nat : n = Len(channel')
        BY <4>1
      <4>2. CASE e = d
        <5>1. ~r
          BY <1>i, <2>1, <2>2, <3>0, <3>2, <4>2
        <5>2. n \in 1 .. n /\ \A j \in n .. n : j = n
          BY <4>1, <4>n
        <5>3. ~channel'[n].register /\ channel'[n].dep = e
          BY <4>1, <4>2, <4>n, <5>1
        <5>4. ~RegistersFrom(n, e)'
          BY <4>n, <5>2, <5>3 DEF RegistersFrom
        <5>. QED BY <4>n, <5>2, <5>3, <5>4 DEF Told
      <4>3. CASE e # d
        <5>1. ASSUME NEW i \in 1 .. n, ~RegistersFrom(i, e) PROVE ~RegistersFrom(i, e)'
          BY <4>1, <4>3, <4>n, <5>1 DEF RegistersFrom
        <5>2. Publishing(e) => Publishing(e)'
          BY <2>2, <2>3, <4>3, <1>e DEF Publishing, Announces
        <5>3. 1 \in 1 .. n
          BY <4>1, <4>n
        <5>. QED BY <2>2, <3>0, <4>1, <4>n, <5>1, <5>2, <5>3 DEF Told
      <4>. QED BY <4>2, <4>3
    <3>3. \/ channel' = channel /\ Announces(c)
          \/ \E r \in BOOLEAN : /\ r <=> Announces(c)
                                /\ channel' = Append(channel, [register |-> r, dep |-> d])
      <4> DEFINE r == op[c] \in {"create", "resume"}
      <4>1. r \in BOOLEAN /\ (r <=> Announces(c))
        BY DEF Announces
      <4>2. \/ op[c] = "create" /\ channel' = channel
            \/ channel' = Append(channel, [register |-> r, dep |-> d])
        BY <2>1, <1>i, Zenon DEF Announce
      <4>3. op[c] = "create" => Announces(c)
        BY DEF Announces
      <4> HIDE DEF r
      <4>. QED BY <4>1, <4>2, <4>3, Zenon
    <3>. QED BY <3>1, <3>2, <3>3
  <2>. QED BY <1>i, <1>e, <2>2, <2>3, <2>4, <2>6
<1>5. ASSUME Register \/ StartBacktest \/ EndBacktest PROVE Up /\ Write /\ Start /\ Stop
  <2>1. UNCHANGED <<channel, op, target, pc, runner, sched>>
    BY <1>5 DEF Register, RegisterRead, RegisterWrite, StartBacktest, EndBacktest, db, redis, api
  <2>2. \A d \in Deps : Halted(d)' => Halted(d)
    BY <1>5 DEF Register, RegisterRead, RegisterWrite, StartBacktest, EndBacktest, SetStatus,
                Halted, db
  <2>. QED BY <1>s, <2>1, <2>2
<1>6. ASSUME Listen PROVE Up /\ Write /\ Start /\ Stop
  <2> DEFINE m == Head(channel)
  <2>1. /\ channel # << >> /\ channel' = Tail(channel)
        /\ IF m.register THEN Schedule(m.dep) ELSE Unschedule(m.dep) /\ UNCHANGED reg
        /\ UNCHANGED <<status, op, target, pc, runner>>
    BY <1>6 DEF Listen, db, api
  <2>2. /\ Len(channel) \in Nat \ {0} /\ Len(channel') = Len(channel) - 1
        /\ m = channel[1]
        /\ \A i \in 1 .. Len(channel') : i + 1 \in 1 .. Len(channel) /\ channel'[i] = channel[i + 1]
    BY <2>1, <1>t
  <2>3. ASSUME NEW i \in 2 .. Len(channel), NEW d \in Deps, ~RegistersFrom(i, d)
        PROVE  ~RegistersFrom(i - 1, d)'
    <3>1. \A j \in i - 1 .. Len(channel') :
             j + 1 \in i .. Len(channel) /\ channel'[j] = channel[j + 1]
      BY <2>2
    <3>. QED BY <2>3, <3>1 DEF RegistersFrom
  <2>4. ASSUME NEW d \in Deps, ~RegistersFrom(1, d) PROVE ~RegistersFrom(1, d)'
    BY <2>2, <2>4 DEF RegistersFrom
  <2>5. Start
    BY <1>i, <2>1 DEF Announces, Halted
  <2>6. ASSUME NEW d \in Deps, Halted(d)' PROVE Told(d)'
    <3>1. Told(d) /\ (Publishing(d) => Publishing(d)')
      BY <1>i, <2>1, <2>6 DEF Halted, Publishing, Announces
    <3>2. ASSUME NEW i \in 2 .. Len(channel), ~channel[i].register, channel[i].dep = d,
                 ~RegistersFrom(i, d)
          PROVE  Told(d)'
      <4>1. i - 1 \in 1 .. Len(channel') /\ channel'[i - 1] = channel[i]
        BY <2>2
      <4>. QED BY <2>3, <3>2, <4>1 DEF Told
    <3>3. CASE ~m.register /\ m.dep = d /\ ~RegistersFrom(1, d)
      <4>1. d \notin sched'
        BY <2>1, <3>3 DEF Unschedule
      <4>. QED BY <2>4, <3>3, <4>1 DEF Told
    <3>4. CASE d \notin sched /\ ~RegistersFrom(1, d)
      <4>1. ~(m.register /\ m.dep = d)
        BY <2>2, <3>4 DEF RegistersFrom
      <4>2. d \notin sched'
        BY <2>1, <3>4, <4>1 DEF Schedule, Unschedule
      <4>. QED BY <2>4, <3>4, <4>2 DEF Told
    <3>5. \A i \in 1 .. Len(channel) : i = 1 \/ i \in 2 .. Len(channel)
      BY <2>2
    <3>. QED BY <2>2, <3>1, <3>2, <3>3, <3>4, <3>5 DEF Told
  <2>. QED BY <1>i, <2>1, <2>5, <2>6
<1>10. ASSUME Hang PROVE Up /\ Write /\ Start /\ Stop
  <2>1. UNCHANGED <<status, channel, op, target, pc, sched>> /\ runner' = "stuck"
    BY <1>10 DEF Hang, db, redis, api
  <2>2. Stop
    BY <2>1, <1>i, ToldKept DEF Halted
  <2>. QED BY <2>1, <2>2, <1>i, <1>t DEF Announces, Halted, Requests
<1>7. ASSUME Load \/ RunnerStart \/ RunnerCrash PROVE FALSE
  BY <1>7, <1>i, <1>u DEF Load, LoadNext, LoadRaises, Subscribe, RunnerStart, RunnerCrash, OneByOne, Inv, Past
<1>8. ASSUME TakeJob \/ \E d \in Deps : StartTick(d) \/ EndTick(d)
      PROVE  Up /\ Write /\ Start /\ Stop
  BY <1>8, <1>s DEF TakeJob, StartTick, EndTick, Halted, db, redis, api
<1>9. CASE UNCHANGED vars
  BY <1>9, <1>s DEF vars, Halted, db, redis, api, run
<1>. QED
  BY <1>1, <1>2, <1>3, <1>4, <1>5, <1>6, <1>7, <1>8, <1>9, <1>10 DEF Next, Answer, Backtest

(* What StoppedIsUnscheduled rests on: as long as no message is lost, the  *)
(* runner lives and no two requests cross, a paused or stopped deployment  *)
(* that still has a schedule is one the runner has yet to be told of: its  *)
(* unregister message is in the channel or about to be sent, however many  *)
(* messages, ticks and backtests the runner is behind.                     *)
StopIsOnItsWay ==
    OneByOne => \A d \in sched : Halted(d) => ToUnregister(d)

THEOREM StopsAreHeard == Spec => []StopIsOnItsWay
<1>1. Init => JobsAndReg /\ CronOK /\ ToldInv
  BY DEF Init, JobsAndReg, CronOK, Ran, ToldInv, Halted, Told, RegistersFrom, Idle
<1>2. Inv /\ ToldInv => StopIsOnItsWay
  BY DEF Inv, RunnerOK, Created, ToldInv, StopIsOnItsWay, Told, Publishing, ToUnregister
<1>. QED BY InitInv, TypeStep, JobsStep, CronStep, <1>1, <1>2, ToldStep, PTL DEF Spec
=============================================================================
