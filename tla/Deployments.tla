---------------------------- MODULE Deployments ----------------------------
(***************************************************************************)
(* The life of one tenant's deployments: the API (deployments/router.py,   *)
(* deployments/service.py) writes the strategy_deployments rows and tells  *)
(* the strategy runner through Redis; the runner (strategy_runner/main.py, *)
(* scheduler.py, tick_runner.py, backtest_runner.py) keeps a cron schedule *)
(* in memory, runs ticks and backtests, and writes the same rows.          *)
(*                                                                         *)
(* Paper and live deployments are registered over pub/sub, which forgets a *)
(* message nobody is subscribed to; backtests go through a Redis list.     *)
(* The runner reads no message while it handles one.  A row is read in one *)
(* transaction and written in a later one without a lock or a second look  *)
(* at its status, so reading and writing are different actions.            *)
(***************************************************************************)
EXTENDS Integers, Sequences, FiniteSets

CONSTANTS
    Deps,         \* deployment ids
    Calls,        \* API requests in progress at a time
    Limit,        \* MAX_..._DEPLOYMENTS of each mode
    Env,          \* what the environment may do, a subset of Events
    MaxRequests,  \* bound: API requests in a behaviour
    MaxCrashes    \* bound: crashes of the runner in a behaviour

Modes  == {"backtest", "paper", "live"}
Events == {"redis",    \* publish and lpush may raise
           "hang",     \* the user's code in a backtest may never return
           "session"}  \* users stop paper deployments as paper trading sessions

ASSUME DeploymentsAssumption ==
    /\ Limit \in [Modes -> Nat]
    /\ Env \subseteq Events
    /\ MaxRequests \in Nat /\ MaxCrashes \in Nat

Statuses == {"absent", "pending", "running", "paused", "stopped", "completed", "failed"}
Crons    == {"none", "valid", "invalid"}   \* CronTrigger rejects what is invalid
Changes  == {"pause", "resume", "stop"}
Ops      == {"none", "create", "promote", "stop_all", "stop_session"} \cup Changes

VARIABLES
    mode, status, cron,     \* the rows: "absent" = not inserted; cron = what
                            \* the cron_expression is good for
    queue,                  \* Redis list strategy-runner:queue
    channel,                \* messages the subscribed runner has not handled
    op, target, newMode,    \* per request: what it does, to which rows, and
                            \* the mode of the row it will insert
    pc,                     \* per request: "idle", "write" or "publish"
    runner,                 \* "down", "loading" (not yet subscribed), "up" or
                            \* "stuck" (in the code of a user)
    toLoad,                 \* active deployments load_active_deployments has left
    sched,                  \* deployments with a cron schedule in APScheduler
    reg,                    \* register_deployment in progress
    job,                    \* run_backtest_job in progress
    tick,                   \* per deployment: run_tick in progress
    late,                   \* history: batches of orders sent since it stopped running
    calm,                   \* history: requests came one by one, when the runner was
                            \* up with nothing left to hear, and none was in progress
                            \* when it started
    requests, crashes

db    == <<mode, status, cron, late>>
redis == <<queue, channel>>
api   == <<op, target, newMode, pc>>
run   == <<runner, toLoad, sched, reg, job, tick>>
past  == <<calm, requests, crashes>>
vars  == <<db, redis, api, run, past>>

Idle == [step |-> "idle", deps |-> {}]      \* no registration, no job
At(step, d) == [step |-> step, deps |-> {d}]

Created == {d \in Deps : status[d] # "absent"}
Count(m, S) == Cardinality({d \in Created : mode[d] = m /\ status[d] \in S})

Init ==
    /\ mode = [d \in Deps |-> "backtest"]
    /\ status = [d \in Deps |-> "absent"]
    /\ cron = [d \in Deps |-> "none"]
    /\ late = [d \in Deps |-> 0]
    /\ queue = << >> /\ channel = << >>
    /\ op = [c \in Calls |-> "none"]
    /\ target = [c \in Calls |-> {}]
    /\ newMode = [c \in Calls |-> "backtest"]
    /\ pc = [c \in Calls |-> "idle"]
    /\ runner = "up" /\ toLoad = {} /\ sched = {}
    /\ reg = Idle /\ job = Idle
    /\ tick = [d \in Deps |-> "idle"]
    /\ calm = TRUE
    /\ requests = 0 /\ crashes = 0

(* UPDATE strategy_deployments SET status = s for the rows S.              *)
SetStatus(S, s) ==
    /\ status' = [d \in Deps |-> IF d \in S THEN s ELSE status[d]]
    /\ late' = [d \in Deps |-> IF d \in S /\ s = "running" THEN 0 ELSE late[d]]
    /\ UNCHANGED <<mode, cron>>

-----------------------------------------------------------------------------
(* The API.  A request reads and decides, writes, then publishes.          *)

Quiet == /\ channel = << >> /\ reg = Idle /\ runner = "up"
         /\ \A c \in Calls : pc[c] = "idle"

Request(c, o, S, m) ==
    /\ pc[c] = "idle"
    /\ requests < MaxRequests
    /\ requests' = requests + 1
    /\ calm' = (calm /\ Quiet)
    /\ op' = [op EXCEPT ![c] = o]
    /\ target' = [target EXCEPT ![c] = S]
    /\ newMode' = [newMode EXCEPT ![c] = m]
    /\ pc' = [pc EXCEPT ![c] = "write"]
    /\ UNCHANGED <<db, redis, run, crashes>>

Finish(c) ==
    /\ pc' = [pc EXCEPT ![c] = "idle"]
    /\ op' = [op EXCEPT ![c] = "none"]
    /\ target' = [target EXCEPT ![c] = {}]
    /\ newMode' = [newMode EXCEPT ![c] = "backtest"]

(* check_deployment_limits: pending rows only count for backtests.         *)
Active(m) == IF m = "backtest" THEN {"pending", "running"} ELSE {"running", "paused"}
HasRoom(m) == Count(m, Active(m)) < Limit[m]

CreateDeployment(c, m) == HasRoom(m) /\ Request(c, "create", {}, m)

(* validate_promotion; whether a paper deployment has logged enough lines  *)
(* is up to its code.                                                      *)
NextMode(d) == IF mode[d] = "backtest" THEN "paper" ELSE "live"
Promotable(d) == \/ mode[d] = "backtest" /\ status[d] = "completed"
                 \/ mode[d] = "paper" /\ status[d] \in {"running", "paused"}

PromoteDeployment(c, d) ==
    /\ Promotable(d)
    /\ HasRoom(NextMode(d))
    /\ Request(c, "promote", {d}, NextMode(d))

Permitted(o, d) ==
    CASE o = "pause"  -> status[d] = "running"
      [] o = "resume" -> status[d] = "paused"
      [] o = "stop"   -> status[d] \notin {"absent", "stopped", "completed"}

ChangeDeployment(c, o, d) == Permitted(o, d) /\ Request(c, o, {d}, "backtest")

(* stop_all selects before it writes; without a match it returns at once.  *)
StopAll(c) ==
    LET S == {d \in Deps : status[d] \in {"pending", "running", "paused"}}
    IN  S # {} /\ Request(c, "stop_all", S, "backtest")

(* stop_session of paper_trading/router.py, given the id of a deployment,  *)
(* stops it in whatever state it is.                                       *)
StopSession(c, d) ==
    /\ "session" \in Env
    /\ mode[d] = "paper" /\ status[d] # "stopped"
    /\ Request(c, "stop_session", {d}, "backtest")

(* Mutant: the name of the operation is stored.                            *)
OpAsStatus(o) == o

NewStatus(o) == IF o = "pause" THEN "paused" ELSE IF o = "resume" THEN "running" ELSE "stopped"

(* INSERT of the pending row; validate_cron_expression counts fields, and  *)
(* is not asked by a promotion.  Only create_deployment goes on to publish.*)
InsertRow(c) ==
    /\ pc[c] = "write"
    /\ op[c] \in {"create", "promote"}
    /\ \E d \in Deps \ Created, e \in Crons :
          /\ op[c] = "promote" /\ (\E s \in target[c] : cron[s] # "none") => e # "none"
          /\ mode' = [mode EXCEPT ![d] = newMode[c]]
          /\ status' = [status EXCEPT ![d] = "pending"]
          /\ cron' = [cron EXCEPT ![d] = e]
          /\ IF op[c] = "create"
               THEN /\ target' = [target EXCEPT ![c] = {d}]
                    /\ pc' = [pc EXCEPT ![c] = "publish"]
                    /\ UNCHANGED <<op, newMode>>
               ELSE Finish(c)
    /\ UNCHANGED <<late, redis, run, past>>

(* UPDATE of the status.  Only stop_session does not go on to publish.     *)
WriteStatus(c) ==
    /\ pc[c] = "write"
    /\ op[c] \notin {"create", "promote"}
    /\ SetStatus(target[c], NewStatus(op[c]))
    /\ IF op[c] = "stop_session"
         THEN Finish(c)
         ELSE /\ pc' = [pc EXCEPT ![c] = "publish"]
              /\ UNCHANGED <<op, target, newMode>>
    /\ UNCHANGED <<redis, run, past>>

(* Mutant: resume does not tell the runner.                                *)
ResumeNotAnnounced(c, d) ==
    IF op[c] = "create" /\ mode[d] = "backtest"
    THEN queue' = Append(queue, d) /\ UNCHANGED channel
    ELSE /\ channel' = IF runner \in {"up", "stuck"} /\ op[c] # "resume"
                         THEN Append(channel,
                                [register |-> op[c] = "create", dep |-> d])
                         ELSE channel
         /\ UNCHANGED queue

(* What a request sends about row d: LPUSH of a backtest job, else PUBLISH *)
(* of register or unregister, heard by a subscribed runner only.           *)
Announce(c, d) ==
    IF op[c] = "create" /\ mode[d] = "backtest"
    THEN queue' = Append(queue, d) /\ UNCHANGED channel
    ELSE /\ channel' = IF runner \in {"up", "stuck"}
                         THEN Append(channel,
                                [register |-> op[c] \in {"create", "resume"}, dep |-> d])
                         ELSE channel
         /\ UNCHANGED queue

Publish(c) ==
    /\ pc[c] = "publish"
    /\ \/ \E d \in target[c] :
             /\ Announce(c, d)
             /\ IF target[c] = {d}
                  THEN Finish(c)
                  ELSE /\ target' = [target EXCEPT ![c] = @ \ {d}]
                       /\ UNCHANGED <<op, newMode, pc>>
       \/ "redis" \in Env /\ Finish(c) /\ UNCHANGED redis
    /\ UNCHANGED <<db, run, past>>

Api(c) ==
    \/ \E m \in Modes : CreateDeployment(c, m)
    \/ \E d \in Created : PromoteDeployment(c, d) \/ StopSession(c, d)
    \/ \E d \in Created, o \in Changes : ChangeDeployment(c, o, d)
    \/ StopAll(c)

Answer(c) == InsertRow(c) \/ WriteStatus(c) \/ Publish(c)

-----------------------------------------------------------------------------
(* The strategy runner.                                                    *)

(* register_deployment: the schedule is added, then the row is read, and   *)
(* if it was pending it is written in a last step.  An invalid expression  *)
(* ends it at once: logged, or raised and logged by the listener.          *)
Schedule(d) ==
    IF cron[d] = "invalid"
    THEN UNCHANGED <<sched, reg>>
    ELSE sched' = sched \cup {d} /\ reg' = At("read", d)

(* User code that does not return holds the loop, and with it all tasks.   *)
Running == runner \notin {"down", "stuck"}

RegisterRead ==
    /\ Running
    /\ reg.step = "read"
    /\ reg' = IF \E d \in reg.deps : status[d] = "pending"
                THEN [reg EXCEPT !.step = "write"] ELSE Idle
    /\ UNCHANGED <<db, redis, api, runner, toLoad, sched, job, tick, past>>

RegisterWrite ==
    /\ Running
    /\ reg.step = "write"
    /\ SetStatus(reg.deps, "running")
    /\ reg' = Idle
    /\ UNCHANGED <<redis, api, runner, toLoad, sched, job, tick, past>>

(* Mutant: everything that is not over is reloaded.                        *)
PausedToo == {d \in Deps : /\ status[d] \in {"running", "pending", "paused"}
                           /\ mode[d] # "backtest"
                           /\ cron[d] # "none"}

Reloaded == {d \in Deps : /\ status[d] \in {"running", "pending"}
                          /\ mode[d] # "backtest"
                          /\ cron[d] # "none"}

(* main(): load_active_deployments reads the rows ...                      *)
RunnerStart ==
    /\ runner = "down"
    /\ runner' = "loading"
    /\ toLoad' = Reloaded
    /\ calm' = (calm /\ \A c \in Calls : pc[c] = "idle")
    /\ UNCHANGED <<db, redis, api, sched, reg, job, tick, requests, crashes>>

(* ... registers them one by one ...                                       *)
LoadNext ==
    /\ runner = "loading"
    /\ reg = Idle
    /\ \E d \in toLoad :
          /\ Schedule(d)
          /\ toLoad' = toLoad \ {d}
    /\ UNCHANGED <<db, redis, api, runner, job, tick, past>>

(* The process is over: schedules, jobs, ticks and unheard messages are    *)
(* gone.                                                                   *)
Die ==
    /\ runner' = "down"
    /\ toLoad' = {} /\ sched' = {}
    /\ reg' = Idle /\ job' = Idle
    /\ tick' = [d \in Deps |-> "idle"]
    /\ channel' = << >>
    /\ UNCHANGED <<db, queue, api, calm, requests>>

(* ... where nothing catches what CronTrigger raises: main() ends ...      *)
LoadRaises ==
    /\ runner = "loading"
    /\ reg = Idle
    /\ \E d \in toLoad : cron[d] = "invalid"
    /\ Die
    /\ UNCHANGED crashes

(* ... and only then the listener subscribes and jobs are taken.           *)
Subscribe ==
    /\ runner = "loading"
    /\ reg = Idle
    /\ toLoad = {}
    /\ runner' = "up"
    /\ UNCHANGED <<db, redis, api, toLoad, sched, reg, job, tick, past>>

(* unregister_deployment                                                   *)
Unschedule(d) == sched' = sched \ {d}

(* Mutant: unregister messages are ignored.                                *)
IgnoresUnregister ==
    /\ runner = "up"
    /\ reg = Idle
    /\ channel # << >>
    /\ channel' = Tail(channel)
    /\ IF Head(channel).register
         THEN Schedule(Head(channel).dep)
         ELSE UNCHANGED <<sched, reg>>
    /\ UNCHANGED <<db, queue, api, runner, toLoad, job, tick, past>>

(* _listen_deployments: the next message.                                  *)
Listen ==
    /\ runner = "up"
    /\ reg = Idle
    /\ channel # << >>
    /\ channel' = Tail(channel)
    /\ IF Head(channel).register
         THEN Schedule(Head(channel).dep)
         ELSE Unschedule(Head(channel).dep) /\ UNCHANGED reg
    /\ UNCHANGED <<db, queue, api, runner, toLoad, job, tick, past>>

(* _process_queue: BRPOP takes the oldest job.                             *)
TakeJob ==
    /\ runner = "up"
    /\ job = Idle
    /\ queue # << >>
    /\ queue' = Tail(queue)
    /\ job' = At("start", Head(queue))
    /\ UNCHANGED <<db, channel, api, runner, toLoad, sched, reg, tick, past>>

(* run_backtest_job marks the row running whatever its status is ...       *)
StartBacktest ==
    /\ Running
    /\ job.step = "start"
    /\ SetStatus(job.deps, "running")
    /\ job' = [job EXCEPT !.step = "run"]
    /\ UNCHANGED <<redis, api, runner, toLoad, sched, reg, tick, past>>

(* ... and completed or failed at the end, again whatever it is by then.   *)
(* When the commit fails (a result that is no JSON) so does the one that   *)
(* would say so, and the row stays as it is.                               *)
EndBacktest ==
    /\ Running
    /\ job.step = "run"
    /\ \/ \E s \in {"completed", "failed"} : SetStatus(job.deps, s)
       \/ UNCHANGED db
    /\ job' = Idle
    /\ UNCHANGED <<redis, api, runner, toLoad, sched, reg, tick, past>>

(* The strategy runs in the process, on the loop and without a timeout.    *)
Hang ==
    /\ "hang" \in Env
    /\ Running
    /\ job.step = "run"
    /\ runner' = "stuck"
    /\ UNCHANGED <<db, redis, api, toLoad, sched, reg, job, tick, past>>

(* Mutant: a tick does not look at the status of its deployment.           *)
TickUnchecked(d) ==
    /\ Running
    /\ d \in sched
    /\ tick[d] = "idle"
    /\ mode[d] # "backtest"
    /\ tick' = [tick EXCEPT ![d] = "execute"]
    /\ UNCHANGED <<db, redis, api, runner, toLoad, sched, reg, job, past>>

(* run_tick: cron fires, the row is running and has a state row (backtests *)
(* have none).  The scheduler runs one tick of a deployment at a time.     *)
StartTick(d) ==
    /\ Running
    /\ d \in sched
    /\ tick[d] = "idle"
    /\ status[d] = "running"
    /\ mode[d] # "backtest"
    /\ tick' = [tick EXCEPT ![d] = "execute"]
    /\ UNCHANGED <<db, redis, api, runner, toLoad, sched, reg, job, past>>

(* The strategy ran in its subprocess: an error ends the tick, otherwise   *)
(* its orders are dispatched, without another look at the row.             *)
EndTick(d) ==
    /\ Running
    /\ tick[d] = "execute"
    /\ tick' = [tick EXCEPT ![d] = "idle"]
    /\ \/ UNCHANGED late
       \/ late' = [late EXCEPT ![d] = IF status[d] = "running" THEN 0 ELSE @ + 1]
    /\ UNCHANGED <<mode, status, cron, redis, api, runner, toLoad, sched, reg, job, past>>

(* It is killed, restarted, or left by a sys.exit() of a user's backtest.  *)
RunnerCrash ==
    /\ runner # "down"
    /\ crashes < MaxCrashes
    /\ crashes' = crashes + 1
    /\ Die

Register == RegisterRead \/ RegisterWrite
Load     == LoadNext \/ LoadRaises \/ Subscribe
Backtest == TakeJob \/ StartBacktest \/ EndBacktest

Next ==
    \/ \E c \in Calls : Api(c) \/ Answer(c)
    \/ Register \/ Load \/ Listen \/ Backtest
    \/ \E d \in Deps : StartTick(d) \/ EndTick(d)
    \/ RunnerStart \/ RunnerCrash \/ Hang

Spec == Init /\ [][Next]_vars

(* A request in progress goes on, and so does the runner while it is up:   *)
(* what may hold its loops, user code, is a state of its own ("stuck").    *)
(* Nothing makes backtests end, users send requests or cron fire.          *)
FairSpec ==
    /\ Spec
    /\ \A c \in Calls : WF_vars(Answer(c))
    /\ WF_vars(Register) /\ WF_vars(Load) /\ WF_vars(Listen)

-----------------------------------------------------------------------------
(* Properties.                                                             *)

Progress == [step : {"idle", "read", "write", "start", "run"}, deps : SUBSET Created]

(* Every variable stays in its set, and the runner only schedules, loads   *)
(* and queues deployments that have a row.                                 *)
TypeOK ==
    /\ mode \in [Deps -> Modes] /\ status \in [Deps -> Statuses]
    /\ cron \in [Deps -> Crons] /\ late \in [Deps -> Nat]
    /\ queue \in Seq(Created)
    /\ channel \in Seq([register : BOOLEAN, dep : Created])
    /\ op \in [Calls -> Ops] /\ target \in [Calls -> SUBSET Created]
    /\ newMode \in [Calls -> Modes]
    /\ pc \in [Calls -> {"idle", "write", "publish"}]
    /\ runner \in {"down", "loading", "up", "stuck"}
    /\ toLoad \subseteq Created /\ sched \subseteq Created
    /\ reg \in Progress /\ job \in Progress
    /\ tick \in [Deps -> {"idle", "execute"}]
    /\ calm \in BOOLEAN
    /\ requests \in Nat /\ crashes \in Nat

(* After a deployment has stopped running, whatever the scheduler still    *)
(* has on it, at most the one tick that was in progress sends its orders.  *)
LateTickOnce == \A d \in Deps : late[d] <= 1

(* Nobody stops sessions, no publish fails.                                *)
NothingLost == Env \subseteq {"hang"}

(* With requests one at a time and the runner keeping up, the scheduler    *)
(* and the database agree whenever everything is quiet: the deployments    *)
(* with a cron schedule are the paper and live ones that are running.      *)
(* Only for as long as no message was lost and the runner has not died:    *)
(* a failed publish, a restart and a session stopped as one leave them     *)
(* apart, and nothing in the code brings them together again.              *)
ScheduleAgrees ==
    NothingLost /\ crashes = 0 /\ calm /\ Quiet
       => {d \in sched : mode[d] # "backtest"} =
          {d \in Deps : mode[d] # "backtest" /\ status[d] = "running"}

(* The runner may die in the middle of anything, the messages sent to it   *)
(* with it: what it reloads makes up for them.  Once it is up and quiet    *)
(* again, what it schedules is running, and what is running and has a cron *)
(* expression of its own is scheduled, unless a request was in progress or *)
(* came while it started (calm).                                           *)
RestartCatchesUp ==
    NothingLost /\ calm /\ Quiet
       => \A d \in Deps : mode[d] # "backtest" =>
             /\ d \in sched => status[d] = "running"
             /\ status[d] = "running" /\ cron[d] # "none" => d \in sched

(* No message is lost, and no two requests cross.                          *)
OneByOne == NothingLost /\ crashes = 0 /\ \A b, c \in Calls : b = c

(* "Deployment pause/stop -> scheduler removes job": so it does however    *)
(* busy the runner is, for requests that come one by one, unless the code  *)
(* of a user holds it for ever.  Two requests that cross may publish in    *)
(* another order than they wrote, and the schedule stays.                  *)
StoppedIsUnscheduled ==
    \A d \in Deps : (OneByOne /\ status[d] \in {"paused", "stopped"}) ~>
                       \/ d \notin sched
                       \/ status[d] \notin {"paused", "stopped"}
                       \/ runner = "stuck" \/ ~OneByOne

(* "Any stage -> Stopped: Terminal state": a backtest that was stopped     *)
(* stays so.  (What register_deployment may do to the others is in the     *)
(* README.)                                                                *)
StoppedIsTerminal ==
    [][\A d \in Deps : status[d] = "stopped" /\ mode[d] = "backtest"
                          => status'[d] = "stopped"]_vars

(* "Deployment create/resume -> scheduler adds job": a deployment with a   *)
(* row to be run does not stay pending, promoted ones included.            *)
(* The code does not keep this; see "More disagreements" in the README.    *)
PendingIsScheduled ==
    \A d \in Deps : (status[d] = "pending" /\ mode[d] # "backtest")
                       ~> (d \in sched \/ status[d] # "pending")

(* "Service restart -> reads all status=running deployments from DB,       *)
(* re-registers crons": a running deployment is scheduled when the runner  *)
(* is up, with no requests crossing each other.                            *)
(* The code does not keep this; see "More disagreements" in the README.    *)
RestartReschedules ==
    \A d \in Deps :
       (calm /\ runner = "up" /\ status[d] = "running" /\ mode[d] # "backtest")
          ~> (d \in sched \/ status[d] # "running" \/ runner # "up" \/ ~calm)
=============================================================================
