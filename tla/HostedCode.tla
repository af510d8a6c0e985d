------------------------------ MODULE HostedCode ------------------------------
(***************************************************************************)
(* One hosted strategy: its code, the history of its versions, and the     *)
(* deployments that run a version of it (hosted_strategies/router.py,      *)
(* deployments/service.py and router.py, and the loading of code in        *)
(* strategy_runner/tick_runner.py and backtest_runner.py).  No query joins *)
(* two strategies, so one is enough.                                       *)
(*                                                                         *)
(* A request SELECTs, computes, and flushes and commits: these are steps   *)
(* of their own, and another request may commit in between.                *)
(***************************************************************************)
EXTENDS Integers, FiniteSets

CONSTANTS
    Codes, BadCodes,  \* texts, those ast.parse refuses
    Entries,          \* names of entry points
    Fallback,         \* the entry point used when the strategy is missing
    NoCode,
    Clients,          \* requests in progress at a time
    Deployments,      \* bound: the deployments ever created
    MaxRequests, MaxJobs  \* bounds: requests, and ticks and backtests, of a behaviour

ASSUME HostedAssumption ==
    /\ BadCodes \subseteq Codes
    /\ Fallback \notin Entries /\ NoCode \notin Codes
    /\ MaxRequests \in Nat /\ MaxJobs \in Nat

Versions == 1 .. MaxRequests + 1   \* those a request may ask for
Numbers  == Nat \ {0}

VARIABLES
    row,       \* table strategy_codes: the strategy
    versions,  \* table strategy_code_versions: version |-> code
    dep,       \* table strategy_deployments, with the state row of each
    req,       \* per client: the request and the row it loaded
    job,       \* per deployment: the tick or backtest that loads its code
    saved,     \* history: <<version, code>> of the saves answered with success
    pinned,    \* history: per deployment, what was current when it was made
    ran,       \* history: what ticks and backtests ran
    requests, jobs

history == <<saved, pinned, ran>>
vars    == <<row, versions, dep, req, job, history, requests, jobs>>

(* The strategy does not exist yet, exists, or is deleted.                 *)
Absent == [is |-> "absent"]
Gone   == [is |-> "gone"]
Row(c, v, e) == [is |-> "row", code |-> c, version |-> v, entry |-> e]
Rows   == {Absent, Gone} \cup
          [is : {"row"}, code : Codes, version : Numbers, entry : Entries]

Exists == row.is = "row"

(* A deployment, and what was current when it was made.                    *)
Modes     == {"backtest", "paper", "live"}
Deployed(m, s, v) == [is |-> "row", mode |-> m, status |-> s, version |-> v]
DepRows   == {Absent, Gone} \cup [is : {"row"}, mode : Modes, version : Numbers,
                                  status : {"pending", "running", "completed"}]
Unpinned  == [code |-> NoCode, entry |-> Fallback]
Pins      == [code : Codes \cup {NoCode}, entry : Entries \cup {Fallback}]

(* A request in progress.  In an update NoCode and Fallback stand for a     *)
(* field that is not sent, in a deployment version 0 for null.             *)
NoRequest == [op |-> "none"]
Requests  ==
    {NoRequest}
    \cup [op : {"update"}, loaded : Rows, code : Codes \cup {NoCode},
          entry : Entries \cup {Fallback}]
    \cup [op : {"upload", "restored"}, loaded : Rows, code : Codes]
    \cup [op : {"restore"}, loaded : Rows, version : Versions]
    \cup [op : {"delete"}]
    \cup [op : {"deploy"}, version : {0} \cup Versions, mode : Modes]
    \cup [op : {"resolved"}, version : Numbers, mode : Modes]
    \cup [op : {"promote"}, of : Deployments, version : Numbers, mode : Modes]

NoJob == [at |-> "idle", code |-> NoCode, entry |-> Fallback]
Jobs  == [at : {"idle", "version", "entry", "state", "run", "finish"},
          code : Codes \cup {NoCode}, entry : Entries \cup {Fallback}]

Init ==
    /\ row = Absent
    /\ versions = << >>
    /\ dep = [d \in Deployments |-> Absent]
    /\ req = [c \in Clients |-> NoRequest]
    /\ job = [d \in Deployments |-> NoJob]
    /\ saved = {} /\ ran = {}
    /\ pinned = [d \in Deployments |-> Unpinned]
    /\ requests = 0 /\ jobs = 0

-----------------------------------------------------------------------------
(* Requests: the SELECT of the strategy, 404 if there is none.             *)

Ask(c, r)   == req' = [req EXCEPT ![c] = r]
Answered(c) == Ask(c, NoRequest)

Begin(c, r) ==
    /\ req[c] = NoRequest /\ requests < MaxRequests
    /\ Ask(c, r)
    /\ requests' = requests + 1
    /\ UNCHANGED <<row, versions, dep, job, history, jobs>>

BeginUpdate(c) ==
    /\ Exists
    /\ \E k \in Codes \cup {NoCode}, e \in Entries \cup {Fallback} :
           /\ k # NoCode \/ e # Fallback
           /\ Begin(c, [op |-> "update", loaded |-> row, code |-> k, entry |-> e])

BeginUpload(c) ==
    Exists /\ \E k \in Codes : Begin(c, [op |-> "upload", loaded |-> row, code |-> k])

BeginRestore(c) ==
    Exists /\ \E v \in Versions : Begin(c, [op |-> "restore", loaded |-> row, version |-> v])

BeginDelete(c) == Exists /\ Begin(c, [op |-> "delete"])

BeginDeploy(c) ==
    /\ Exists
    /\ \E v \in {0} \cup Versions, m \in Modes :
           Begin(c, [op |-> "deploy", version |-> v, mode |-> m])

(* validate_promotion: a completed backtest becomes a paper deployment, a  *)
(* running paper deployment a live one.                                    *)
Promotes(d) ==
    CASE dep[d].mode = "backtest" /\ dep[d].status = "completed" -> "paper"
      [] dep[d].mode = "paper" /\ dep[d].status = "running"      -> "live"
      [] OTHER                                                   -> "refused"

(* Mutant: validate_promotion does not refuse.                             *)
PromoteAny(c) ==
    \E d \in Deployments :
        /\ dep[d].is = "row"
        /\ Begin(c, [op |-> "promote", of |-> d, version |-> dep[d].version,
                     mode |-> Promotes(d)])

BeginPromote(c) ==
    \E d \in Deployments :
        /\ dep[d].is = "row"
        /\ Promotes(d) # "refused"
        /\ Begin(c, [op |-> "promote", of |-> d, version |-> dep[d].version,
                     mode |-> Promotes(d)])

-----------------------------------------------------------------------------
(* Requests: their transactions.                                           *)

(* _create_version of the version after the loaded one.                    *)
NextVersion(c) == req[c].loaded.version + 1

(* Mutant: no unique constraint, the second of two saves replaces the first. *)
NeverConflicts(c) == ~Exists

(* The row is gone (StaleDataError), or the history has the version        *)
(* already (the unique constraint): the transaction is rolled back.        *)
Conflicts(c) == ~Exists \/ NextVersion(c) \in DOMAIN versions

Refuse(c) == Answered(c) /\ UNCHANGED <<row, versions, dep, job, history, requests, jobs>>

(* The loaded row with its new code and its version is flushed, the copy   *)
(* is inserted, both commit.                                               *)
Save(c, k, e) ==
    /\ row' = Row(k, NextVersion(c), e)
    /\ versions' = [v \in DOMAIN versions \cup {NextVersion(c)} |->
                       IF v = NextVersion(c) THEN k ELSE versions[v]]
    /\ saved' = saved \cup {<<NextVersion(c), k>>}

NewEntry(c) == IF req[c].entry = Fallback THEN row.entry ELSE req[c].entry

(* create_strategy: strategy and first version in one transaction.         *)
Create(c) ==
    /\ row = Absent /\ req[c] = NoRequest
    /\ \E k \in Codes, e \in Entries :
           /\ row' = Row(k, 1, e)
           /\ versions' = [v \in {1} |-> k]
           /\ saved' = {<<1, k>>}
    /\ UNCHANGED <<dep, req, job, pinned, ran, requests, jobs>>

(* update_strategy: only a code that differs from the loaded one makes a   *)
(* version.  The columns that do not differ are not written.               *)
Update(c) ==
    /\ req[c].op = "update"
    /\ Answered(c)
    /\ IF req[c].code \in {NoCode, req[c].loaded.code}
       THEN /\ row' = IF Exists THEN [row EXCEPT !.entry = NewEntry(c)] ELSE row
            /\ UNCHANGED <<versions, saved>>
       ELSE IF Conflicts(c) THEN UNCHANGED <<row, versions, saved>>
            ELSE Save(c, req[c].code, NewEntry(c))
    /\ UNCHANGED <<dep, job, pinned, ran, requests, jobs>>

(* upload_strategy_file, after the file is read, and the end of            *)
(* restore_version.                                                        *)
Upload(c) ==
    /\ req[c].op \in {"upload", "restored"}
    /\ ~Conflicts(c)
    /\ req[c].op = "upload" => req[c].code \notin BadCodes
    /\ Answered(c)
    /\ Save(c, req[c].code, row.entry)
    /\ UNCHANGED <<dep, job, pinned, ran, requests, jobs>>

RefuseUpload(c) ==
    /\ req[c].op \in {"upload", "restored"}
    /\ Conflicts(c) \/ (req[c].op = "upload" /\ req[c].code \in BadCodes)
    /\ Refuse(c)

(* restore_version: the SELECT of the old version, 404 if there is none.   *)
ReadOld(c) ==
    /\ req[c].op = "restore"
    /\ IF req[c].version \in DOMAIN versions
       THEN Ask(c, [op |-> "restored", loaded |-> req[c].loaded,
                    code |-> versions[req[c].version]])
       ELSE Answered(c)
    /\ UNCHANGED <<row, versions, dep, job, history, requests, jobs>>

(* delete_strategy: the database deletes versions, deployments and their   *)
(* state with the row.                                                     *)
Delete(c) ==
    /\ req[c].op = "delete"
    /\ Answered(c)
    /\ row' = Gone
    /\ versions' = << >>
    /\ dep' = [d \in Deployments |-> IF dep[d].is = "row" THEN Gone ELSE dep[d]]
    /\ UNCHANGED <<job, history, requests, jobs>>

-----------------------------------------------------------------------------
(* Deployments.                                                            *)

(* The version asked for, or the latest one.                               *)
resolve_code_version(v) ==
    IF v = 0 THEN {w \in DOMAIN versions : \A x \in DOMAIN versions : x <= w}
    ELSE {v} \cap DOMAIN versions

Resolve(c) ==
    /\ req[c].op = "deploy"
    /\ LET found == resolve_code_version(req[c].version)
       IN  \/ /\ found = {} /\ Answered(c)
           \/ \E v \in found :
                 Ask(c, [op |-> "resolved", version |-> v, mode |-> req[c].mode])
    /\ UNCHANGED <<row, versions, dep, job, history, requests, jobs>>

(* The INSERTs of deployment and state; the foreign keys refuse them when  *)
(* the strategy is gone.                                                   *)
Insert(c) ==
    /\ req[c].op = "resolved"
    /\ Exists
    /\ \E d \in Deployments :
           /\ dep[d] = Absent
           /\ dep' = [dep EXCEPT ![d] = Deployed(req[c].mode, "pending", req[c].version)]
           /\ pinned' = [pinned EXCEPT ![d] = [code  |-> versions[req[c].version],
                                               entry |-> row.entry]]
    /\ Answered(c)
    /\ UNCHANGED <<row, versions, job, saved, ran, requests, jobs>>

(* promote_deployment: it is to run what its parent runs.                  *)
Promote(c) ==
    /\ req[c].op = "promote"
    /\ Exists
    /\ \E d \in Deployments :
           /\ dep[d] = Absent
           /\ dep' = [dep EXCEPT ![d] = Deployed(req[c].mode, "pending", req[c].version)]
           /\ pinned' = [pinned EXCEPT ![d] = pinned[req[c].of]]
    /\ Answered(c)
    /\ UNCHANGED <<row, versions, job, saved, ran, requests, jobs>>

RefuseInsert(c) == req[c].op \in {"resolved", "promote"} /\ ~Exists /\ Refuse(c)

-----------------------------------------------------------------------------
(* Ticks and backtests of a deployment; one at a time, each SELECT a step. *)

JobAt(d, step)  == job' = [job EXCEPT ![d].at = step]
EndJob(d)       == job' = [job EXCEPT ![d] = NoJob]
SetStatus(d, s) == dep' = [dep EXCEPT ![d].status = s]

(* The scheduler's registration makes a deployment running.                *)
Start(d) ==
    /\ dep[d].is = "row" /\ dep[d].mode # "backtest" /\ dep[d].status = "pending"
    /\ SetStatus(d, "running")
    /\ UNCHANGED <<row, versions, req, job, history, requests, jobs>>

(* run_tick and run_backtest_deployment load the deployment.               *)
LoadDeployment(d) ==
    /\ job[d] = NoJob /\ jobs < MaxJobs
    /\ dep[d].is = "row"
    /\ dep[d].status = IF dep[d].mode = "backtest" THEN "pending" ELSE "running"
    /\ JobAt(d, "version")
    /\ jobs' = jobs + 1
    /\ UNCHANGED <<row, versions, dep, req, history, requests>>

(* Mutant: the code is read from the strategy, as the entry point is.      *)
LoadCurrent(d) ==
    /\ job[d].at = "version"
    /\ IF Exists THEN job' = [job EXCEPT ![d].at = "entry", ![d].code = row.code]
                 ELSE EndJob(d)
    /\ UNCHANGED <<row, versions, dep, req, history, requests, jobs>>

(* The code of the pinned version, code_version_not_found if it is gone.   *)
LoadVersion(d) ==
    /\ job[d].at = "version"
    /\ IF dep[d].is = "row"
       THEN job' = [job EXCEPT ![d].at = "entry", ![d].code = versions[dep[d].version]]
       ELSE EndJob(d)
    /\ UNCHANGED <<row, versions, dep, req, history, requests, jobs>>

(* The entry point of the strategy as it is now, or the fallback.          *)
LoadEntry(d) ==
    /\ job[d].at = "entry"
    /\ job' = [job EXCEPT ![d].at = "state",
                          ![d].entry = IF Exists THEN row.entry ELSE Fallback]
    /\ UNCHANGED <<row, versions, dep, req, history, requests, jobs>>

(* Mutant: a missing state is taken for an empty one.                      *)
LoadAnyState(d) ==
    /\ job[d].at = "state"
    /\ JobAt(d, "run")
    /\ UNCHANGED <<row, versions, dep, req, history, requests, jobs>>

(* A tick loads the state, a backtest commits its status: both end when    *)
(* the deployment is gone.                                                 *)
LoadState(d) ==
    /\ job[d].at = "state"
    /\ IF dep[d].is # "row" THEN EndJob(d) /\ dep' = dep
       ELSE /\ JobAt(d, "run")
            /\ IF dep[d].mode = "backtest" THEN SetStatus(d, "running") ELSE dep' = dep
    /\ UNCHANGED <<row, versions, req, history, requests, jobs>>

(* The subprocess runs the code.                                           *)
Run(d) ==
    /\ job[d].at = "run"
    /\ ran' = ran \cup {[of |-> d, code |-> job[d].code, entry |-> job[d].entry]}
    /\ JobAt(d, "finish")
    /\ UNCHANGED <<row, versions, dep, req, saved, pinned, requests, jobs>>

(* The commit of the results; it fails when the deployment is gone.        *)
Finish(d) ==
    /\ job[d].at = "finish"
    /\ EndJob(d)
    /\ IF dep[d].is = "row" /\ dep[d].mode = "backtest"
       THEN SetStatus(d, "completed") ELSE dep' = dep
    /\ UNCHANGED <<row, versions, req, history, requests, jobs>>

-----------------------------------------------------------------------------

Next ==
    \/ \E c \in Clients :
          \/ Create(c) \/ BeginUpdate(c) \/ BeginUpload(c) \/ BeginRestore(c)
          \/ BeginDelete(c) \/ BeginDeploy(c) \/ BeginPromote(c)
          \/ Update(c) \/ Upload(c) \/ RefuseUpload(c) \/ ReadOld(c) \/ Delete(c)
          \/ Resolve(c) \/ Insert(c) \/ Promote(c) \/ RefuseInsert(c)
    \/ \E d \in Deployments :
          \/ Start(d) \/ LoadDeployment(d) \/ LoadVersion(d) \/ LoadEntry(d)
          \/ LoadState(d) \/ Run(d) \/ Finish(d)

Spec == Init /\ [][Next]_vars

-----------------------------------------------------------------------------
(* Types; a promotion has a mode, and what runs is code.                   *)
TypeOK ==
    /\ row \in Rows
    /\ DOMAIN versions \subseteq Numbers
    /\ \A v \in DOMAIN versions : versions[v] \in Codes
    /\ dep \in [Deployments -> DepRows]
    /\ req \in [Clients -> Requests]
    /\ job \in [Deployments -> Jobs]
    /\ saved \subseteq Numbers \X Codes
    /\ pinned \in [Deployments -> Pins]
    /\ \A r \in ran : r.of \in Deployments /\ r.code \in Codes

(* The history has no gap, its newest version is the current code, and a   *)
(* save that was answered with success is found under its version until    *)
(* the strategy is deleted, whatever is saved at the same time             *)
(* (_create_version and the unique constraint).                            *)
HistoryIsComplete ==
    Exists => /\ DOMAIN versions = 1 .. row.version
              /\ versions[row.version] = row.code
              /\ \A s \in saved : s[1] \in DOMAIN versions /\ versions[s[1]] = s[2]

(* What a tick or a backtest runs is the code that was pinned when its     *)
(* deployment was made or, after a promotion, when the first of its        *)
(* parents was (create_deployment, promote_deployment, run_tick).          *)
RunsPinnedCode == \A r \in ran : r.code = pinned[r.of].code

(* The entry point put in place of a missing strategy is never run: the    *)
(* state of the deployment is gone with the strategy (tick_runner.py,      *)
(* backtest_runner.py).                                                    *)
FallbackNeverRuns == \A r \in ran : r.entry # Fallback

(* The history as the table and the row tell it together, and what each     *)
(* deployment was made to run.                                             *)
History == IF Exists THEN [v \in 1 .. row.version |->
                              IF v = row.version THEN row.code ELSE versions[v]]
                     ELSE << >>
Pin     == [d \in Deployments |-> IF dep[d] = Absent THEN {} ELSE {pinned[d].code}]

Atomic == INSTANCE VersionedCode WITH stage <- row.is, history <- History, pin <- Pin

(* However the SELECTs and commits of requests and jobs interleave, and    *)
(* whatever row an update was computed from, the requests behave as if     *)
(* each saved, pinned or deleted in one step, and every job runs what its  *)
(* deployment pinned, with an entry point of the strategy.                 *)
Implements == Atomic!Spec

(* "Editing code creates a new version but doesn't affect running          *)
(* deployments" (design of the deployments): what runs has the entry point *)
(* the strategy had when the deployment was made (tick_runner.py).         *)
(* The code does not keep this; see "More disagreements" in the README.    *)
CodeLocked == \A r \in ran : r.entry = pinned[r.of].entry
=============================================================================
