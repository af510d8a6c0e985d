-------------------------- MODULE HostedCodeProofs --------------------------
(***************************************************************************)
(* Theorems about HostedCode, for any number of requests, deployments and  *)
(* jobs and any interleaving of their steps.                               *)
(***************************************************************************)
EXTENDS HostedCode, SequenceTheorems, TLAPS

USE HostedAssumption

-----------------------------------------------------------------------------
(* What the records of each kind hold.                                     *)
LEMMA RequestShape ==
  ASSUME NEW r \in Requests
  PROVE  /\ r.op \in {"update", "upload", "restore", "restored"} => r.loaded \in Rows
         /\ r.op \in {"upload", "restored"} => r.code \in Codes
         /\ r.op = "update" => r.code \in Codes \cup {NoCode} /\ r.entry \in Entries \cup {Fallback}
         /\ r.op = "restore" => r.version \in Versions
         /\ r.op = "deploy" => r.mode \in Modes
         /\ r.op \in {"resolved", "promote"} => r.version \in Numbers /\ r.mode \in Modes
         /\ r.op = "promote" => r.of \in Deployments
BY DEF Requests, NoRequest

LEMMA RowShape ==
  ASSUME row \in Rows, Exists
  PROVE  row.version \in Numbers /\ row.code \in Codes /\ row.entry \in Entries
BY DEF Rows, Exists, Absent, Gone

LEMMA LoadedShape ==
  ASSUME NEW r \in Rows, r.is = "row"
  PROVE  r.version \in Numbers /\ r.code \in Codes
BY DEF Rows, Absent, Gone

LEMMA DepShape ==
  ASSUME NEW d \in DepRows, d.is = "row"
  PROVE  d.version \in Numbers /\ d.mode \in Modes
BY DEF DepRows, Absent, Gone

-----------------------------------------------------------------------------
(* The invariant, in the parts that change together.                       *)

(* A request in progress: it loaded a row, and the strategy has not gone   *)
(* back since; the version it resolved or takes over is still in the       *)
(* history, and is what its parent runs.                                   *)
Loading == {"update", "upload", "restore", "restored"}
Valid(r) ==
    /\ row = Absent => r = NoRequest
    /\ r.op \in Loading => /\ r.loaded.is = "row"
                           /\ Exists => r.loaded.version <= row.version
    /\ r.op = "resolved" /\ Exists => r.version \in DOMAIN versions
    /\ r.op = "promote" =>
          /\ dep[r.of] # Absent
          /\ Exists => /\ r.version \in DOMAIN versions
                       /\ versions[r.version] = pinned[r.of].code

RequestsOK == \A c \in Clients : Valid(req[c])

(* A deployment lives no longer than its strategy, and pins a version.     *)
PinsOK ==
    \A d \in Deployments :
        /\ row = Absent => dep[d] = Absent
        /\ dep[d].is = "row" =>
              /\ Exists /\ dep[d].version \in DOMAIN versions
              /\ versions[dep[d].version] = pinned[d].code

(* A job has read the pinned code; with the fallback as its entry point it *)
(* will find its deployment gone.                                          *)
JobsOK ==
    \A d \in Deployments :
        /\ job[d].at # "idle" => dep[d] # Absent
        /\ job[d].at \in {"entry", "state", "run", "finish"} => job[d].code = pinned[d].code
        /\ job[d].at = "state" /\ job[d].entry = Fallback => dep[d].is # "row"
        /\ job[d].at \in {"run", "finish"} => job[d].entry # Fallback

RanOK == \A r \in ran : /\ dep[r.of] # Absent
                        /\ r.code = pinned[r.of].code /\ r.entry # Fallback

Types ==
    /\ row \in Rows
    /\ DOMAIN versions \subseteq Numbers
    /\ \A v \in DOMAIN versions : versions[v] \in Codes
    /\ saved \subseteq Numbers \X Codes
DepTypes == dep \in [Deployments -> DepRows] /\ pinned \in [Deployments -> Pins]
ReqTypes == req \in [Clients -> Requests]
JobTypes ==
    /\ job \in [Deployments -> Jobs]
    /\ \A r \in ran : r.of \in Deployments /\ r.code \in Codes
    /\ \A d \in Deployments : job[d].at \in {"entry", "state", "run", "finish"} => job[d].code \in Codes

TypeInv == Types /\ DepTypes /\ ReqTypes /\ JobTypes
Inv == TypeInv /\ HistoryIsComplete /\ RequestsOK /\ PinsOK /\ JobsOK /\ RanOK

-----------------------------------------------------------------------------
LEMMA InitInv == Init => Inv
<1> SUFFICES ASSUME Init PROVE Inv
  OBVIOUS
<1> USE DEF Init
<1>1. Types
  BY DEF Types, Rows, Absent
<1>2. DepTypes
  BY DEF DepTypes, DepRows, Pins, Unpinned, Absent
<1>3. ReqTypes
  BY DEF ReqTypes, Requests
<1>4. JobTypes
  BY DEF JobTypes, Jobs, NoJob
<1>5. HistoryIsComplete /\ RequestsOK /\ PinsOK
  BY DEF HistoryIsComplete, RequestsOK, Valid, PinsOK, Exists, Absent, NoRequest, Loading
<1>6. JobsOK /\ RanOK
  BY DEF JobsOK, RanOK, NoJob
<1>. QED BY <1>1, <1>2, <1>3, <1>4, <1>5, <1>6 DEF Inv, TypeInv

(* A step of one request that changes nothing but the request.             *)
LEMMA AskInv ==
  ASSUME Inv, NEW c \in Clients, NEW r \in Requests, Ask(c, r), Valid(r),
         UNCHANGED <<row, versions, dep, job, saved, pinned, ran>>
  PROVE  Inv'
<1>1. ReqTypes' /\ \A b \in Clients : req'[b] \in {req[b], r}
  BY DEF Inv, TypeInv, ReqTypes, Ask
<1>2. RequestsOK'
  <2>1. \A b \in Clients : Valid(req'[b])
    BY <1>1 DEF Inv, RequestsOK
  <2>. QED BY <2>1 DEF RequestsOK, Valid, Exists
<1>3. Types' /\ DepTypes' /\ JobTypes'
  BY DEF Inv, TypeInv, Types, DepTypes, JobTypes
<1>4. HistoryIsComplete' /\ PinsOK'
  BY DEF Inv, HistoryIsComplete, PinsOK, Exists
<1>5. JobsOK' /\ RanOK'
  BY DEF Inv, JobsOK, RanOK
<1>. QED BY <1>1, <1>2, <1>3, <1>4, <1>5 DEF Inv, TypeInv

LEMMA NoRequestValid == NoRequest \in Requests /\ Valid(NoRequest)
BY DEF Requests, NoRequest, Valid, Loading

(* The steps of the requests that start one, look a version up, or refuse. *)
LEMMA BeginInv ==
  ASSUME Inv, NEW c \in Clients,
         \/ BeginUpdate(c) \/ BeginUpload(c) \/ BeginRestore(c)
         \/ BeginDelete(c) \/ BeginDeploy(c) \/ BeginPromote(c)
  PROVE  Inv'
<1> USE DEF Inv, TypeInv, Types, Exists
<1>b. \A r : Begin(c, r) => Ask(c, r) /\ UNCHANGED <<row, versions, dep, job, saved, pinned, ran>>
  BY DEF Begin, history
<1>l. ASSUME Exists, NEW r \in Requests, r.op \in Loading, r.loaded = row PROVE Valid(r)
  <2>1. row # Absent /\ row.version \in Nat
    BY <1>l, RowShape DEF Absent, Numbers
  <2>. QED BY <1>l, <2>1 DEF Valid, Loading
<1>1. CASE BeginUpdate(c)
  <2>1. PICK k \in Codes \cup {NoCode}, e \in Entries \cup {Fallback} :
           Begin(c, [op |-> "update", loaded |-> row, code |-> k, entry |-> e])
    BY <1>1 DEF BeginUpdate
  <2> DEFINE r == [op |-> "update", loaded |-> row, code |-> k, entry |-> e]
  <2>2. r \in Requests /\ r.op \in Loading /\ r.loaded = row /\ Exists
    BY <1>1 DEF Requests, Loading, BeginUpdate
  <2>. QED BY <2>1, <2>2, <1>b, <1>l, AskInv
<1>2. CASE BeginUpload(c)
  <2>1. PICK k \in Codes : Begin(c, [op |-> "upload", loaded |-> row, code |-> k])
    BY <1>2 DEF BeginUpload
  <2> DEFINE r == [op |-> "upload", loaded |-> row, code |-> k]
  <2>2. r \in Requests /\ r.op \in Loading /\ r.loaded = row /\ Exists
    BY <1>2 DEF Requests, Loading, BeginUpload
  <2>. QED BY <2>1, <2>2, <1>b, <1>l, AskInv
<1>3. CASE BeginRestore(c)
  <2>1. PICK v \in Versions : Begin(c, [op |-> "restore", loaded |-> row, version |-> v])
    BY <1>3 DEF BeginRestore
  <2> DEFINE r == [op |-> "restore", loaded |-> row, version |-> v]
  <2>2. r \in Requests /\ r.op \in Loading /\ r.loaded = row /\ Exists
    BY <1>3 DEF Requests, Loading, BeginRestore
  <2>. QED BY <2>1, <2>2, <1>b, <1>l, AskInv
<1>4. CASE BeginDelete(c)
  <2> DEFINE r == [op |-> "delete"]
  <2>1. r \in Requests /\ Valid(r)
    BY <1>4 DEF Requests, BeginDelete, Valid, Loading, Absent
  <2>. QED BY <1>4, <2>1, <1>b, AskInv DEF BeginDelete
<1>5. CASE BeginDeploy(c)
  <2>1. PICK v \in {0} \cup Versions, m \in Modes :
           Begin(c, [op |-> "deploy", version |-> v, mode |-> m])
    BY <1>5 DEF BeginDeploy
  <2> DEFINE r == [op |-> "deploy", version |-> v, mode |-> m]
  <2>2. r \in Requests /\ Valid(r)
    BY <1>5 DEF Requests, BeginDeploy, Valid, Loading, Absent
  <2>. QED BY <2>1, <2>2, <1>b, AskInv
<1>6. CASE BeginPromote(c)
  <2>1. PICK d \in Deployments :
          /\ dep[d].is = "row" /\ Promotes(d) # "refused"
          /\ Begin(c, [op |-> "promote", of |-> d, version |-> dep[d].version,
                       mode |-> Promotes(d)])
    BY <1>6 DEF BeginPromote
  <2> DEFINE r == [op |-> "promote", of |-> d, version |-> dep[d].version, mode |-> Promotes(d)]
  <2>2. Promotes(d) \in Modes /\ dep[d].version \in Numbers
    BY <2>1, DepShape DEF Promotes, Modes, DepTypes
  <2>3. r \in Requests
    BY <2>2 DEF Requests
  <2>4. Valid(r)
    BY <2>1 DEF Valid, Loading, PinsOK, Absent
  <2>. QED BY <2>1, <2>3, <2>4, <1>b, AskInv
<1>. QED BY <1>1, <1>2, <1>3, <1>4, <1>5, <1>6

LEMMA LookUpInv ==
  ASSUME Inv, NEW c \in Clients,
         ReadOld(c) \/ Resolve(c) \/ RefuseUpload(c) \/ RefuseInsert(c)
  PROVE  Inv'
<1> USE DEF Inv, TypeInv, Types, Exists
<1>r. req[c] \in Requests /\ Valid(req[c])
  BY DEF ReqTypes, RequestsOK
<1>n. ASSUME Answered(c), UNCHANGED <<row, versions, dep, job, saved, pinned, ran>> PROVE Inv'
  BY <1>n, NoRequestValid, AskInv DEF Answered
<1>1. CASE RefuseUpload(c) \/ RefuseInsert(c)
  BY <1>1, <1>n DEF RefuseUpload, RefuseInsert, Refuse, history
<1>2. CASE ReadOld(c)
  <2> DEFINE r == [op |-> "restored", loaded |-> req[c].loaded,
                   code |-> versions[req[c].version]]
  <2>1. CASE req[c].version \in DOMAIN versions
    <3>1. r \in Requests /\ Valid(r)
      BY <1>2, <2>1, <1>r, RequestShape DEF ReadOld, Requests, Valid, Loading, Absent, NoRequest
    <3>2. Ask(c, r) /\ UNCHANGED <<row, versions, dep, job, saved, pinned, ran>>
      BY <1>2, <2>1 DEF ReadOld, history
    <3>. QED BY <3>1, <3>2, AskInv
  <2>2. CASE req[c].version \notin DOMAIN versions
    BY <1>2, <2>2, <1>n DEF ReadOld, history
  <2>. QED BY <2>1, <2>2
<1>3. CASE Resolve(c)
  <2>0. UNCHANGED <<row, versions, dep, job, saved, pinned, ran>>
    BY <1>3 DEF Resolve, history
  <2>1. CASE Answered(c)
    BY <2>0, <2>1, <1>n
  <2>2. ASSUME NEW v \in resolve_code_version(req[c].version),
               Ask(c, [op |-> "resolved", version |-> v, mode |-> req[c].mode])
        PROVE  Inv'
    <3> DEFINE r == [op |-> "resolved", version |-> v, mode |-> req[c].mode]
    <3>1. v \in DOMAIN versions
      BY DEF resolve_code_version
    <3>2. r \in Requests /\ Valid(r)
      BY <1>3, <3>1, <1>r, RequestShape DEF Resolve, Requests, Valid, Loading, Absent, NoRequest
    <3>. QED BY <2>0, <2>2, <3>2, AskInv
  <2>. QED BY <1>3, <2>1, <2>2 DEF Resolve
<1>. QED BY <1>1, <1>2, <1>3

-----------------------------------------------------------------------------
(* The transactions of the requests.                                       *)

(* A save that does not conflict is of the version after the newest.       *)
LEMMA NextIsNext ==
  ASSUME Inv, NEW c \in Clients, req[c].op \in Loading, ~Conflicts(c)
  PROVE  /\ Exists /\ row.version \in Numbers
         /\ NextVersion(c) = row.version + 1 /\ NextVersion(c) \in Numbers
         /\ NextVersion(c) \notin DOMAIN versions
<1>1. /\ Exists /\ NextVersion(c) = req[c].loaded.version + 1
      /\ NextVersion(c) \notin DOMAIN versions
  BY DEF Conflicts, NextVersion
<1>2. row.version \in Numbers /\ DOMAIN versions = 1 .. row.version
  BY <1>1, RowShape DEF Inv, TypeInv, Types, HistoryIsComplete
<1>3. req[c].loaded.version \in Numbers /\ req[c].loaded.version <= row.version
  BY <1>1, RequestShape, LoadedShape DEF Inv, TypeInv, ReqTypes, RequestsOK, Valid, Loading
<1>. QED BY <1>1, <1>2, <1>3 DEF Numbers

LEMMA SaveInv ==
  ASSUME Inv, NEW c \in Clients, req[c].op \in Loading, ~Conflicts(c),
         NEW k \in Codes, NEW e \in Entries, Answered(c), Save(c, k, e),
         UNCHANGED <<dep, job, pinned, ran>>
  PROVE  Inv'
<1> DEFINE n == NextVersion(c)
<1>1. /\ Exists /\ row.version \in Numbers /\ n = row.version + 1 /\ n \in Numbers
      /\ n \notin DOMAIN versions
  BY NextIsNext
<1> HIDE DEF n
<1>2. /\ row' = Row(k, n, e)
      /\ versions' = [v \in DOMAIN versions \cup {n} |-> IF v = n THEN k ELSE versions[v]]
      /\ saved' = saved \cup {<<n, k>>}
  BY DEF Save, n
<1>3. Exists' /\ row'.version = n /\ row'.code = k
  BY <1>2 DEF Exists, Row
<1>4. /\ DOMAIN versions' = DOMAIN versions \cup {n} /\ versions'[n] = k
      /\ \A v \in DOMAIN versions : versions'[v] = versions[v]
  BY <1>1, <1>2
<1>5. Types'
  <2>1. row' \in Rows
    BY <1>1, <1>2 DEF Row, Rows
  <2>2. saved' \subseteq Numbers \X Codes
    BY <1>1, <1>2 DEF Inv, TypeInv, Types
  <2>3. DOMAIN versions' \subseteq Numbers /\ \A v \in DOMAIN versions' : versions'[v] \in Codes
    BY <1>1, <1>4 DEF Inv, TypeInv, Types
  <2>. QED BY <2>1, <2>2, <2>3 DEF Types
<1>6. DepTypes' /\ JobTypes'
  BY DEF Inv, TypeInv, DepTypes, JobTypes
<1>7. ReqTypes' /\ \A b \in Clients : req'[b] \in {req[b], NoRequest}
  BY NoRequestValid DEF Inv, TypeInv, ReqTypes, Answered, Ask
<1>8. HistoryIsComplete'
  <2>1. DOMAIN versions' = 1 .. n
    <3>1. DOMAIN versions = 1 .. row.version
      BY <1>1 DEF Inv, HistoryIsComplete
    <3>2. (1 .. row.version) \cup {n} = 1 .. n
      BY <1>1 DEF Numbers
    <3>. QED BY <1>4, <3>1, <3>2
  <2>2. \A s \in saved : s[1] \in DOMAIN versions /\ versions[s[1]] = s[2]
    BY <1>1 DEF Inv, HistoryIsComplete
  <2>3. ASSUME NEW s \in saved' PROVE s[1] \in DOMAIN versions' /\ versions'[s[1]] = s[2]
    <3>1. CASE s \in saved
      BY <3>1, <2>2, <1>4
    <3>2. CASE s = <<n, k>>
      BY <3>2, <1>4
    <3>. QED BY <3>1, <3>2, <1>2
  <2>. QED BY <2>1, <2>3, <1>3, <1>4 DEF HistoryIsComplete
<1>9. RequestsOK'
  <2>1. ASSUME NEW b \in Clients, req'[b] = req[b] PROVE Valid(req[b])'
    <3>1. Valid(req[b])
      BY DEF Inv, RequestsOK
    <3>2. row # Absent /\ row' # Absent
      BY <1>1, <1>3 DEF Exists, Absent
    <3>3. ASSUME req[b].op \in Loading PROVE req[b].loaded.version <= row'.version
      <4>1. req[b].loaded.is = "row" /\ req[b].loaded.version <= row.version
        BY <3>1, <3>3, <1>1 DEF Valid
      <4>2. req[b].loaded.version \in Numbers
        BY <4>1, <3>3, RequestShape, LoadedShape DEF Inv, TypeInv, ReqTypes, Loading
      <4>. QED BY <4>1, <4>2, <1>1, <1>3 DEF Numbers
    <3>. QED BY <2>1, <3>1, <3>2, <3>3, <1>1, <1>4 DEF Valid
  <2>2. Valid(NoRequest)'
    BY <1>3 DEF Valid, NoRequest, Loading
  <2>3. ASSUME NEW b \in Clients PROVE Valid(req[b])'
    BY <2>1, <2>2, <1>7
  <2>. QED BY <2>3 DEF RequestsOK
<1>10. PinsOK'
  <2>1. row' # Absent
    BY <1>3 DEF Exists, Absent
  <2>. QED BY <2>1, <1>3, <1>4 DEF Inv, PinsOK
<1>11. JobsOK' /\ RanOK'
  BY DEF Inv, JobsOK, RanOK
<1>. QED BY <1>5, <1>6, <1>7, <1>8, <1>9, <1>10, <1>11 DEF Inv, TypeInv

LEMMA CreateInv ==
  ASSUME Inv, NEW c \in Clients, Create(c)
  PROVE  Inv'
<1>1. PICK k \in Codes, e \in Entries :
         row' = Row(k, 1, e) /\ versions' = [v \in {1} |-> k] /\ saved' = {<<1, k>>}
  BY DEF Create
<1>2. row = Absent /\ UNCHANGED <<dep, req, job, pinned, ran>>
  BY DEF Create
<1>3. Types'
  BY <1>1 DEF Types, Row, Rows, Numbers
<1>4. DepTypes' /\ ReqTypes' /\ JobTypes'
  BY <1>2 DEF Inv, TypeInv, DepTypes, ReqTypes, JobTypes
<1>5. HistoryIsComplete'
  BY <1>1 DEF HistoryIsComplete, Row
<1>6. RequestsOK'
  <2>1. \A b \in Clients : req'[b] = NoRequest
    BY <1>2 DEF Inv, RequestsOK, Valid
  <2>. QED BY <2>1, <1>1 DEF RequestsOK, Valid, NoRequest, Loading
<1>7. PinsOK'
  BY <1>1, <1>2 DEF Inv, PinsOK, Absent, Row
<1>8. JobsOK' /\ RanOK'
  BY <1>2 DEF Inv, JobsOK, RanOK
<1>. QED BY <1>3, <1>4, <1>5, <1>6, <1>7, <1>8 DEF Inv, TypeInv

LEMMA DeleteInv ==
  ASSUME Inv, NEW c \in Clients, Delete(c)
  PROVE  Inv'
<1>1. /\ row' = Gone /\ versions' = << >> /\ UNCHANGED <<job, saved, pinned, ran>>
      /\ dep' = [d \in Deployments |-> IF dep[d].is = "row" THEN Gone ELSE dep[d]]
  BY DEF Delete, history
<1>2. \A d \in Deployments : dep'[d].is # "row" /\ (dep[d] # Absent => dep'[d] # Absent)
  BY <1>1 DEF Gone, Absent
<1>3. ReqTypes' /\ \A b \in Clients : req'[b] \in {req[b], NoRequest}
  BY NoRequestValid DEF Inv, TypeInv, ReqTypes, Answered, Ask, Delete
<1>4. Types'
  <2>1. DOMAIN versions' = {}
    BY <1>1
  <2>. QED BY <1>1, <2>1 DEF Inv, TypeInv, Types, Rows
<1>5. DepTypes' /\ JobTypes'
  BY <1>1 DEF Inv, TypeInv, DepTypes, JobTypes, DepRows
<1>6. ~Exists' /\ row' # Absent
  BY <1>1 DEF Exists, Gone, Absent
<1>7. RequestsOK'
  <2>1. ASSUME NEW b \in Clients, req'[b] = req[b] PROVE Valid(req[b])'
    <3>1. Valid(req[b])
      BY DEF Inv, RequestsOK
    <3>2. req[b].op = "promote" => req[b].of \in Deployments
      BY RequestShape DEF Inv, TypeInv, ReqTypes
    <3>. QED BY <2>1, <3>1, <3>2, <1>2, <1>6 DEF Valid
  <2>2. Valid(NoRequest)'
    BY <1>6 DEF Valid, NoRequest, Loading
  <2>3. ASSUME NEW b \in Clients PROVE Valid(req[b])'
    BY <2>1, <2>2, <1>3
  <2>. QED BY <2>3 DEF RequestsOK
<1>8. HistoryIsComplete' /\ PinsOK'
  BY <1>2, <1>6 DEF HistoryIsComplete, PinsOK
<1>9. JobsOK'
  BY <1>1, <1>2 DEF Inv, JobsOK
<1>10. RanOK'
  BY <1>1, <1>2 DEF Inv, TypeInv, JobTypes, RanOK
<1>. QED BY <1>3, <1>4, <1>5, <1>7, <1>8, <1>9, <1>10 DEF Inv, TypeInv

LEMMA UpdateInv ==
  ASSUME Inv, NEW c \in Clients, Update(c) \/ Upload(c)
  PROVE  Inv'
<1> USE DEF Inv, TypeInv, Types
<1>r. req[c] \in Requests /\ Valid(req[c])
  BY DEF ReqTypes, RequestsOK
<1>u. Answered(c) /\ UNCHANGED <<dep, job, pinned, ran>>
  BY DEF Update, Upload
<1>n. Exists /\ req[c].op = "update" => NewEntry(c) \in Entries
  BY <1>r, RequestShape, RowShape DEF NewEntry
<1>1. CASE Upload(c)
  <2>1. Exists /\ req[c].op \in Loading /\ ~Conflicts(c)
    BY <1>1 DEF Upload, Conflicts, Loading
  <2>2. req[c].code \in Codes /\ row.entry \in Entries
    BY <1>1, <1>r, <2>1, RequestShape, RowShape DEF Upload
  <2>3. Save(c, req[c].code, row.entry)
    BY <1>1 DEF Upload
  <2>. QED BY <1>u, <2>1, <2>2, <2>3, SaveInv
<1>2. CASE Update(c)
  <2>1. CASE UNCHANGED <<row, versions, saved>>
    BY <2>1, <1>u, NoRequestValid, AskInv DEF Answered
  <2>2. ASSUME ~Conflicts(c), Save(c, req[c].code, NewEntry(c)),
               req[c].code \notin {NoCode, req[c].loaded.code}
        PROVE  Inv'
    <3>1. Exists /\ req[c].op \in Loading
      BY <1>2, <2>2 DEF Update, Conflicts, Loading
    <3>2. req[c].code \in Codes /\ NewEntry(c) \in Entries
      BY <1>2, <1>n, <1>r, <2>2, <3>1, RequestShape DEF Update
    <3>. QED BY <1>u, <2>2, <3>1, <3>2, SaveInv
  <2>3. ASSUME Exists, row' = [row EXCEPT !.entry = NewEntry(c)], UNCHANGED <<versions, saved>>
        PROVE  Inv'
    <3>1. NewEntry(c) \in Entries
      BY <1>2, <1>n, <2>3 DEF Update
    <3>2. row' \in Rows /\ Exists' /\ row'.version = row.version /\ row'.code = row.code
      BY <2>3, <3>1 DEF Rows, Exists, Absent, Gone
    <3>3. row # Absent /\ row' # Absent
      BY <2>3, <3>2 DEF Exists, Absent
    <3>4. ReqTypes' /\ \A b \in Clients : req'[b] \in {req[b], NoRequest}
      BY <1>u, NoRequestValid DEF ReqTypes, Answered, Ask
    <3>5. Types' /\ DepTypes' /\ JobTypes'
      BY <2>3, <3>2, <1>u DEF DepTypes, JobTypes
    <3>6. HistoryIsComplete' /\ PinsOK'
      BY <2>3, <3>2, <3>3, <1>u DEF HistoryIsComplete, PinsOK
    <3>7. RequestsOK'
      <4>1. ASSUME NEW b \in Clients, req'[b] = req[b] PROVE Valid(req[b])'
        <5>1. Valid(req[b])
          BY DEF RequestsOK
        <5>. QED BY <4>1, <5>1, <2>3, <3>2, <3>3, <1>u DEF Valid
      <4>2. Valid(NoRequest)'
        BY <3>3 DEF Valid, NoRequest, Loading
      <4>3. ASSUME NEW b \in Clients PROVE Valid(req[b])'
        BY <4>1, <4>2, <3>4
      <4>. QED BY <4>3 DEF RequestsOK
    <3>8. JobsOK' /\ RanOK'
      BY <1>u DEF JobsOK, RanOK
    <3>. QED BY <3>4, <3>5, <3>6, <3>7, <3>8
  <2>. QED BY <1>2, <2>1, <2>2, <2>3 DEF Update
<1>. QED BY <1>1, <1>2

(* A new deployment pins a version of the history.                         *)
LEMMA DeployInv ==
  ASSUME Inv, NEW c \in Clients, Insert(c) \/ Promote(c)
  PROVE  Inv'
<1> USE DEF Inv, TypeInv
<1>r. req[c] \in Requests /\ Valid(req[c])
  BY DEF ReqTypes, RequestsOK
<1>1. PICK d \in Deployments, p \in Pins :
         /\ dep[d] = Absent
         /\ dep' = [dep EXCEPT ![d] = Deployed(req[c].mode, "pending", req[c].version)]
         /\ pinned' = [pinned EXCEPT ![d] = p]
         /\ p.code = versions[req[c].version]
  <2>1. CASE Insert(c)
    <3> DEFINE p == [code |-> versions[req[c].version], entry |-> row.entry]
    <3>1. p \in Pins
      BY <2>1, <1>r, RowShape DEF Insert, Valid, Types, Pins
    <3>. QED BY <2>1, <3>1 DEF Insert
  <2>2. CASE Promote(c)
    <3>1. req[c].of \in Deployments
      BY <2>2, <1>r, RequestShape DEF Promote
    <3>2. pinned[req[c].of] \in Pins
      BY <3>1 DEF DepTypes
    <3>3. pinned[req[c].of].code = versions[req[c].version]
      BY <2>2, <1>r DEF Promote, Valid
    <3>. QED BY <2>2, <3>2, <3>3 DEF Promote
  <2>. QED BY <2>1, <2>2
<1>2. /\ Exists /\ req[c].op \in {"resolved", "promote"} /\ Answered(c)
      /\ UNCHANGED <<row, versions, job, saved, ran>>
  BY DEF Insert, Promote
<1>3. /\ req[c].version \in DOMAIN versions
      /\ req[c].version \in Numbers /\ req[c].mode \in Modes
  BY <1>r, <1>2, RequestShape DEF Valid
<1> DEFINE new == Deployed(req[c].mode, "pending", req[c].version)
<1>4. new \in DepRows /\ new # Absent /\ new.version = req[c].version
  BY <1>3 DEF DepRows, Deployed, Absent
<1> HIDE DEF new
<1>5. /\ dep'[d] = new /\ pinned'[d] = p
      /\ \A b \in Deployments \ {d} : dep'[b] = dep[b] /\ pinned'[b] = pinned[b]
      /\ dep' \in [Deployments -> DepRows] /\ pinned' \in [Deployments -> Pins]
  BY <1>1, <1>4 DEF DepTypes, new
<1>6. Types' /\ DepTypes' /\ JobTypes'
  BY <1>2, <1>5 DEF Types, DepTypes, JobTypes
<1>7. ReqTypes' /\ \A b \in Clients : req'[b] \in {req[b], NoRequest}
  BY <1>2, NoRequestValid DEF ReqTypes, Answered, Ask
<1>8. HistoryIsComplete'
  BY <1>2 DEF HistoryIsComplete, Exists
<1>9. RequestsOK'
  <2>1. ASSUME NEW b \in Clients, req'[b] = req[b] PROVE Valid(req[b])'
    <3>1. Valid(req[b])
      BY DEF RequestsOK
    <3>2. req[b].op = "promote" => req[b].of \in Deployments \ {d}
      BY <1>1, <3>1, RequestShape DEF ReqTypes, Valid
    <3>. QED BY <2>1, <3>1, <3>2, <1>2, <1>5 DEF Valid, Exists
  <2>2. Valid(NoRequest)'
    BY DEF Valid, NoRequest, Loading
  <2>3. ASSUME NEW b \in Clients PROVE Valid(req[b])'
    BY <2>1, <2>2, <1>7
  <2>. QED BY <2>3 DEF RequestsOK
<1>10. PinsOK'
  <2>1. row # Absent
    BY <1>2 DEF Exists, Absent
  <2>2. ASSUME NEW b \in Deployments, dep'[b].is = "row"
        PROVE  dep'[b].version \in DOMAIN versions /\ versions[dep'[b].version] = pinned'[b].code
    <3>1. CASE b = d
      BY <3>1, <1>1, <1>3, <1>4, <1>5
    <3>2. CASE b # d
      BY <2>2, <3>2, <1>5 DEF PinsOK
    <3>. QED BY <3>1, <3>2
  <2>. QED BY <2>1, <2>2, <1>2 DEF PinsOK, Exists
<1>11. JobsOK'
  <2>1. job[d].at \notin {"entry", "state", "run", "finish"} /\ job[d].at = "idle"
    <3>1. job[d].at = "idle"
      BY <1>1 DEF JobsOK
    <3>. QED BY <3>1
  <2>2. ASSUME NEW b \in Deployments \ {d}
        PROVE  dep'[b] = dep[b] /\ pinned'[b] = pinned[b] /\ job'[b] = job[b]
    BY <1>2, <1>5
  <2>. QED BY <2>1, <2>2, <1>2 DEF JobsOK
<1>12. RanOK'
  BY <1>1, <1>2, <1>5 DEF RanOK, JobTypes
<1>. QED BY <1>6, <1>7, <1>8, <1>9, <1>10, <1>11, <1>12

-----------------------------------------------------------------------------
(* The steps of ticks and backtests.                                       *)

(* The status of a deployment matters to none of the parts.                *)
LEMMA StatusKeeps ==
  ASSUME Inv, NEW d \in Deployments, dep[d].is = "row",
         NEW s \in {"pending", "running", "completed"}, SetStatus(d, s)
  PROVE  /\ dep' \in [Deployments -> DepRows]
         /\ \A b \in Deployments :
               /\ dep'[b].is = dep[b].is /\ (dep'[b] = Absent <=> dep[b] = Absent)
               /\ dep[b].is = "row" => dep'[b].version = dep[b].version
<1>1. dep \in [Deployments -> DepRows]
  BY DEF Inv, TypeInv, DepTypes
<1>2. dep' = [dep EXCEPT ![d].status = s]
  BY DEF SetStatus
<1>3. \A b \in Deployments \ {d} : dep'[b] = dep[b]
  BY <1>1, <1>2
<1>4. /\ dep'[d] \in DepRows /\ dep'[d].is = "row"
      /\ dep'[d].version = dep[d].version
  BY <1>1, <1>2 DEF DepRows, Absent, Gone
<1>5. dep[d] # Absent /\ dep'[d] # Absent
  BY <1>4 DEF Absent
<1>6. dep' \in [Deployments -> DepRows]
  BY <1>1, <1>2, <1>3, <1>4
<1>. QED BY <1>3, <1>4, <1>5, <1>6

(* A step of one job, which may set the status of its deployment.          *)
LEMMA JobInv ==
  ASSUME Inv, NEW d \in Deployments, NEW j \in Jobs,
         job' = [job EXCEPT ![d] = j],
         dep' = dep \/ \E s \in {"pending", "running", "completed"} :
                           dep[d].is = "row" /\ SetStatus(d, s),
         UNCHANGED <<row, versions, req, saved, pinned>>,
         ran' = ran \/ ran' = ran \cup {[of |-> d, code |-> j.code, entry |-> j.entry]},
         ran' # ran => j.at = "finish",
         j.at # "idle" => dep[d] # Absent,
         j.at \in {"entry", "state", "run", "finish"} =>
             j.code \in Codes /\ j.code = pinned[d].code,
         j.at = "state" /\ j.entry = Fallback => dep[d].is # "row",
         j.at \in {"run", "finish"} => j.entry # Fallback
  PROVE  Inv'
<1> USE DEF Inv, TypeInv
<1>1. /\ dep' \in [Deployments -> DepRows]
      /\ \A b \in Deployments :
            /\ dep'[b].is = dep[b].is /\ (dep'[b] = Absent <=> dep[b] = Absent)
            /\ dep[b].is = "row" => dep'[b].version = dep[b].version
  BY StatusKeeps DEF DepTypes
<1>2. job' \in [Deployments -> Jobs] /\ job'[d] = j
      /\ \A b \in Deployments \ {d} : job'[b] = job[b]
  BY DEF JobTypes
<1>3. Types' /\ DepTypes' /\ ReqTypes' /\ HistoryIsComplete'
  BY <1>1 DEF Types, DepTypes, ReqTypes, HistoryIsComplete, Exists
<1>4. JobTypes'
  <2>1. \A r \in ran' : r.of \in Deployments /\ r.code \in Codes
    BY DEF JobTypes
  <2>2. \A b \in Deployments : job'[b].at \in {"entry", "state", "run", "finish"} => job'[b].code \in Codes
    BY <1>2 DEF JobTypes
  <2>. QED BY <1>2, <2>1, <2>2 DEF JobTypes
<1>5. RequestsOK'
  <2>1. ASSUME NEW b \in Clients PROVE Valid(req[b])'
    <3>1. Valid(req[b])
      BY DEF RequestsOK
    <3>2. req[b].op = "promote" => req[b].of \in Deployments
      BY RequestShape DEF ReqTypes
    <3>. QED BY <3>1, <3>2, <1>1 DEF Valid, Exists
  <2>. QED BY <2>1 DEF RequestsOK
<1>6. PinsOK'
  BY <1>1 DEF PinsOK, Exists
<1>7. JobsOK'
  <2>1. ASSUME NEW b \in Deployments, b # d
        PROVE  /\ job'[b] = job[b] /\ pinned'[b] = pinned[b]
               /\ dep'[b].is = dep[b].is /\ (dep'[b] = Absent <=> dep[b] = Absent)
    BY <2>1, <1>1, <1>2
  <2>2. /\ job'[d] = j /\ pinned'[d] = pinned[d]
        /\ dep'[d].is = dep[d].is /\ (dep'[d] = Absent <=> dep[d] = Absent)
    BY <1>1, <1>2
  <2>. QED BY <2>1, <2>2 DEF JobsOK
<1>8. RanOK'
  <2>1. ASSUME NEW r \in ran
        PROVE  dep'[r.of] # Absent /\ r.code = pinned[r.of].code /\ r.entry # Fallback
    BY <1>1 DEF RanOK, JobTypes
  <2>2. ASSUME ran' # ran
        PROVE  dep'[d] # Absent /\ j.code = pinned[d].code /\ j.entry # Fallback
    BY <2>2, <1>1
  <2>. QED BY <2>1, <2>2 DEF RanOK
<1>. QED BY <1>3, <1>4, <1>5, <1>6, <1>7, <1>8

LEMMA JobStep ==
  ASSUME Inv, NEW d \in Deployments,
         \/ Start(d) \/ LoadDeployment(d) \/ LoadVersion(d) \/ LoadEntry(d)
         \/ LoadState(d) \/ Run(d) \/ Finish(d)
  PROVE  Inv'
<1> USE DEF Inv, TypeInv
<1> DEFINE Statuses == {"pending", "running", "completed"}
<1>j. job \in [Deployments -> Jobs] /\ job[d] \in Jobs
  BY DEF JobTypes
<1>k. /\ job[d].at # "idle" => dep[d] # Absent
      /\ job[d].at \in {"entry", "state", "run", "finish"} =>
            job[d].code \in Codes /\ job[d].code = pinned[d].code
      /\ job[d].at = "state" /\ job[d].entry = Fallback => dep[d].is # "row"
      /\ job[d].at \in {"run", "finish"} => job[d].entry # Fallback
  BY DEF JobsOK, JobTypes
<1>n. NoJob \in Jobs /\ NoJob.at = "idle"
  BY DEF NoJob, Jobs
<1>e. ASSUME EndJob(d), UNCHANGED <<row, versions, req, saved, pinned, ran>>,
             dep' = dep \/ \E s \in Statuses : dep[d].is = "row" /\ SetStatus(d, s)
      PROVE  Inv'
  BY <1>e, <1>n, JobInv DEF EndJob
<1>1. CASE Start(d)
  <2>1. job' = [job EXCEPT ![d] = job[d]]
    BY <1>1, <1>j DEF Start
  <2>. QED BY <1>1, <1>j, <1>k, <2>1, JobInv DEF Start, history
<1>2. CASE LoadDeployment(d)
  <2> DEFINE j == [job[d] EXCEPT !.at = "version"]
  <2>1. j \in Jobs /\ j.at = "version" /\ job' = [job EXCEPT ![d] = j]
    BY <1>2, <1>j DEF LoadDeployment, JobAt, Jobs
  <2>2. dep[d] # Absent
    BY <1>2 DEF LoadDeployment, Absent
  <2>. QED BY <1>2, <2>1, <2>2, JobInv DEF LoadDeployment, history
<1>3. CASE LoadVersion(d)
  <2> DEFINE j == [job[d] EXCEPT !.at = "entry", !.code = versions[dep[d].version]]
  <2>1. CASE dep[d].is = "row"
    <3>1. versions[dep[d].version] \in Codes /\ versions[dep[d].version] = pinned[d].code
      BY <2>1 DEF PinsOK, Types
    <3>2. /\ j \in Jobs /\ j.at = "entry" /\ j.code = versions[dep[d].version]
          /\ job' = [job EXCEPT ![d] = j]
      BY <1>3, <2>1, <1>j, <3>1 DEF LoadVersion, Jobs
    <3>. QED BY <1>3, <1>k, <3>1, <3>2, JobInv DEF LoadVersion, history
  <2>2. CASE dep[d].is # "row"
    BY <1>3, <2>2, <1>e DEF LoadVersion, history
  <2>. QED BY <2>1, <2>2
<1>4. CASE LoadEntry(d)
  <2> DEFINE en == IF Exists THEN row.entry ELSE Fallback
             j  == [job[d] EXCEPT !.at = "state", !.entry = en]
  <2>1. en \in Entries \cup {Fallback}
    BY RowShape DEF Types
  <2>2. en = Fallback => dep[d].is # "row"
    BY RowShape DEF Types, PinsOK
  <2> HIDE DEF en
  <2>3. /\ j \in Jobs /\ j.at = "state" /\ j.code = job[d].code /\ j.entry = en
        /\ job' = [job EXCEPT ![d] = j]
    BY <1>4, <1>j, <2>1 DEF LoadEntry, Jobs, en
  <2>4. dep[d] # Absent /\ job[d].code \in Codes /\ job[d].code = pinned[d].code
    BY <1>4, <1>k DEF LoadEntry
  <2>5. UNCHANGED <<row, versions, dep, req, saved, pinned, ran>>
    BY <1>4 DEF LoadEntry, history
  <2> HIDE DEF j
  <2>. QED BY <2>2, <2>3, <2>4, <2>5, JobInv
<1>5. CASE LoadState(d)
  <2> DEFINE j == [job[d] EXCEPT !.at = "run"]
  <2>1. CASE dep[d].is = "row"
    <3>1. /\ j \in Jobs /\ j.at = "run" /\ j.code = job[d].code /\ j.entry = job[d].entry
          /\ job' = [job EXCEPT ![d] = j]
      BY <1>5, <2>1, <1>j DEF LoadState, JobAt, Jobs
    <3>. QED BY <1>5, <1>k, <2>1, <3>1, JobInv DEF LoadState, history
  <2>2. CASE dep[d].is # "row"
    BY <1>5, <2>2, <1>e DEF LoadState, history
  <2>. QED BY <2>1, <2>2
<1>6. CASE Run(d)
  <2> DEFINE j == [job[d] EXCEPT !.at = "finish"]
  <2>1. /\ j \in Jobs /\ j.at = "finish" /\ j.code = job[d].code /\ j.entry = job[d].entry
        /\ job' = [job EXCEPT ![d] = j]
    BY <1>6, <1>j DEF Run, JobAt, Jobs
  <2>2. ran' = ran \cup {[of |-> d, code |-> j.code, entry |-> j.entry]}
    BY <1>6, <2>1 DEF Run
  <2>. QED BY <1>6, <1>k, <2>1, <2>2, JobInv DEF Run
<1>7. CASE Finish(d)
  BY <1>7, <1>e DEF Finish, history
<1>. QED BY <1>1, <1>2, <1>3, <1>4, <1>5, <1>6, <1>7

-----------------------------------------------------------------------------
LEMMA Step == Inv /\ [Next]_vars => Inv'
<1> SUFFICES ASSUME Inv, [Next]_vars PROVE Inv'
  OBVIOUS
<1>1. ASSUME NEW c \in Clients, BeginUpdate(c) \/ BeginUpload(c) \/ BeginRestore(c)
                                 \/ BeginDelete(c) \/ BeginDeploy(c) \/ BeginPromote(c)
      PROVE Inv'
  BY <1>1, BeginInv
<1>2. ASSUME NEW c \in Clients, ReadOld(c) \/ Resolve(c) \/ RefuseUpload(c) \/ RefuseInsert(c)
      PROVE Inv'
  BY <1>2, LookUpInv
<1>3. ASSUME NEW c \in Clients, Create(c) \/ Delete(c) \/ Update(c) \/ Upload(c)
                                 \/ Insert(c) \/ Promote(c)
      PROVE Inv'
  BY <1>3, CreateInv, DeleteInv, UpdateInv, DeployInv
<1>4. ASSUME NEW d \in Deployments, Start(d) \/ LoadDeployment(d) \/ LoadVersion(d)
                                     \/ LoadEntry(d) \/ LoadState(d) \/ Run(d) \/ Finish(d)
      PROVE Inv'
  BY <1>4, JobStep
<1>5. ASSUME UNCHANGED vars PROVE Inv'
  <2> USE <1>5 DEF vars, history
  <2>1. TypeInv'
    BY DEF Inv, TypeInv, Types, DepTypes, ReqTypes, JobTypes
  <2>2. HistoryIsComplete' /\ PinsOK' /\ RequestsOK'
    BY DEF Inv, HistoryIsComplete, PinsOK, RequestsOK, Valid, Exists
  <2>3. JobsOK' /\ RanOK'
    BY DEF Inv, JobsOK, RanOK
  <2>. QED BY <2>1, <2>2, <2>3 DEF Inv
<1>. QED BY <1>1, <1>2, <1>3, <1>4, <1>5 DEF Next

LEMMA Invariance == Spec => []Inv
BY InitInv, Step, PTL DEF Spec

(* However requests and jobs interleave, every row, request and job is of  *)
(* its type; what runs is always code, and a promotion has a mode.         *)
THEOREM TypeCorrect == Spec => []TypeOK
<1>1. Inv => TypeOK
  BY DEF Inv, TypeInv, Types, DepTypes, ReqTypes, JobTypes, TypeOK
<1>. QED BY <1>1, Invariance, PTL

(* However saves interleave, the history has no gap, ends with the current *)
(* code, and holds every save that was answered with success.              *)
THEOREM HistoryComplete == Spec => []HistoryIsComplete
<1>1. Inv => HistoryIsComplete
  BY DEF Inv
<1>. QED BY <1>1, Invariance, PTL

(* However edits, deployments and promotions interleave with a tick or a   *)
(* backtest, it runs the code its deployment pinned.                       *)
THEOREM PinnedCodeRuns == Spec => []RunsPinnedCode
<1>1. Inv => RunsPinnedCode
  BY DEF Inv, RanOK, RunsPinnedCode
<1>. QED BY <1>1, Invariance, PTL

(* Wherever the deletion of a strategy falls in the loading of its code,   *)
(* the fallback entry point is never run.                                  *)
THEOREM NoFallback == Spec => []FallbackNeverRuns
<1>1. Inv => FallbackNeverRuns
  BY DEF Inv, RanOK, FallbackNeverRuns
<1>. QED BY <1>1, Invariance, PTL

-----------------------------------------------------------------------------
(* The steps of VersionedCode that the steps of HostedCode map to.         *)

(* The history is the table of the versions, and the row agrees with it.   *)
LEMMA HistoryIsTable ==
  ASSUME Inv, Exists
  PROVE  /\ History \in Seq(Codes) /\ Len(History) = row.version /\ row.version \in Nat
         /\ DOMAIN History = DOMAIN versions
         /\ \A v \in DOMAIN versions : History[v] = versions[v]
<1>1. /\ row.version \in Nat /\ row.code \in Codes
      /\ DOMAIN versions = 1 .. row.version /\ versions[row.version] = row.code
      /\ \A v \in DOMAIN versions : versions[v] \in Codes
  BY RowShape DEF Inv, TypeInv, Types, HistoryIsComplete, Numbers
<1>2. History = [v \in 1 .. row.version |-> IF v = row.version THEN row.code ELSE versions[v]]
  BY DEF History
<1>3. \A v \in 1 .. row.version : History[v] = versions[v]
  BY <1>1, <1>2
<1>4. History \in [1 .. row.version -> Codes]
  BY <1>1, <1>2, <1>3
<1>5. History \in Seq(Codes) /\ Len(History) = row.version
  BY <1>1, <1>4, SeqDef
<1>. QED BY <1>1, <1>2, <1>3, <1>5

LEMMA SamePicture ==
  ASSUME UNCHANGED <<row, versions, ran>>,
         \A d \in Deployments : /\ dep'[d] = Absent <=> dep[d] = Absent
                                /\ pinned'[d] = pinned[d]
  PROVE  UNCHANGED Atomic!vars
BY DEF Atomic!vars, History, Pin, Exists

(* A save appends to the history.                                          *)
LEMMA SaveIsAppend ==
  ASSUME Inv, Inv', NEW c \in Clients, req[c].op \in Loading, ~Conflicts(c),
         NEW k \in Codes, NEW e \in Entries, Save(c, k, e), UNCHANGED <<dep, pinned, ran>>
  PROVE  Atomic!Save(k)
<1> DEFINE n == row.version
<1>1. /\ Exists /\ NextVersion(c) = n + 1 /\ n + 1 \notin DOMAIN versions
  BY NextIsNext
<1>2. /\ row' = Row(k, n + 1, e)
      /\ versions' = [v \in DOMAIN versions \cup {n + 1} |-> IF v = n + 1 THEN k ELSE versions[v]]
  BY <1>1 DEF Save
<1>3. Exists' /\ row'.version = n + 1 /\ row'.is = "row" /\ row.is = "row"
  BY <1>1, <1>2 DEF Exists, Row
<1>4. /\ History \in Seq(Codes) /\ Len(History) = n /\ n \in Nat
      /\ DOMAIN History = DOMAIN versions
      /\ \A v \in DOMAIN versions : History[v] = versions[v]
  BY <1>1, HistoryIsTable
<1>5. DOMAIN versions = 1 .. n /\ \A v \in 1 .. n : versions[v] \in Codes
  BY <1>4, <1>1 DEF Inv, TypeInv, Types, HistoryIsComplete
<1>6. /\ History' \in Seq(Codes) /\ Len(History') = n + 1
      /\ \A v \in 1 .. n + 1 : History'[v] = Append(History, k)[v]
  <2>1. History' = [v \in 1 .. n + 1 |-> IF v = n + 1 THEN k ELSE versions'[v]]
    BY <1>2, <1>3 DEF History, Row
  <2>2. History' = [v \in 1 .. n + 1 |-> IF v = n + 1 THEN k ELSE versions[v]]
    BY <2>1, <1>2, <1>5, <1>4
  <2>3. History' \in [1 .. n + 1 -> Codes]
    BY <2>2, <1>4, <1>5
  <2>4. History' \in Seq(Codes) /\ Len(History') = n + 1
    BY <2>3, <1>4, SeqDef
  <2>5. \A v \in 1 .. n + 1 : History'[v] = IF v = n + 1 THEN k ELSE versions[v]
    BY <2>2
  <2>6. \A v \in 1 .. n + 1 : Append(History, k)[v] = IF v = n + 1 THEN k ELSE versions[v]
    BY <1>4, <1>5
  <2>. QED BY <2>4, <2>5, <2>6
<1>7. Append(History, k) \in Seq(Codes) /\ Len(Append(History, k)) = n + 1
  BY <1>4
<1>8. History' = Append(History, k)
  BY <1>6, <1>7, SeqEqual
<1>9. UNCHANGED <<Pin, ran>>
  BY DEF Pin
<1>. QED BY <1>3, <1>8, <1>9 DEF Atomic!Save

(* A new deployment pins a version of the history, or what its parent did. *)
LEMMA InsertIsPin ==
  ASSUME Inv, NEW d \in Deployments, NEW p \in Pins, Exists, dep[d] = Absent,
         NEW new, new # Absent, dep' = [dep EXCEPT ![d] = new],
         pinned' = [pinned EXCEPT ![d] = p], UNCHANGED <<row, versions, ran>>
  PROVE  Atomic!Pin(d, p.code)
<1>1. /\ dep'[d] = new /\ pinned'[d] = p
      /\ \A b \in Deployments \ {d} : dep'[b] = dep[b] /\ pinned'[b] = pinned[b]
  BY DEF Inv, TypeInv, DepTypes
<1>2. Pin' = [Pin EXCEPT ![d] = {p.code}]
  BY <1>1 DEF Pin
<1>3. Pin[d] = {} /\ row.is = "row"
  BY DEF Pin, Exists
<1>4. UNCHANGED <<row.is, History, ran>>
  BY DEF History, Exists
<1>. QED BY <1>2, <1>3, <1>4 DEF Atomic!Pin

LEMMA RequestIsAtomic ==
  ASSUME Inv, Inv', NEW c \in Clients,
         \/ Create(c) \/ Update(c) \/ Upload(c) \/ Delete(c) \/ Insert(c) \/ Promote(c)
  PROVE  [Atomic!Next]_(Atomic!vars)
<1>r. req[c] \in Requests /\ Valid(req[c])
  BY DEF Inv, TypeInv, ReqTypes, RequestsOK
<1>t. row \in Rows
  BY DEF Inv, TypeInv, Types
<1>s. ASSUME NEW k \in Codes, NEW e \in Entries, req[c].op \in Loading, ~Conflicts(c),
             Save(c, k, e), UNCHANGED <<dep, pinned, ran>>
      PROVE  Atomic!Next
  BY <1>s, SaveIsAppend, Zenon DEF Atomic!Next
<1>1. CASE Create(c)
  <2>1. PICK k \in Codes, e \in Entries : row' = Row(k, 1, e) /\ versions' = [v \in {1} |-> k]
    BY <1>1 DEF Create
  <2>2. /\ row = Absent /\ ~Exists /\ Exists'
        /\ row'.is = "row" /\ row'.version = 1 /\ row'.code = k
    BY <1>1, <2>1 DEF Create, Exists, Absent, Row
  <2>3. History = << >> /\ History' = <<k>>
    <3>1. History' = [v \in 1 .. 1 |-> k]
      BY <2>1, <2>2 DEF History
    <3>2. [v \in 1 .. 1 |-> k] = <<k>>
      OBVIOUS
    <3>. QED BY <2>2, <3>1, <3>2 DEF History
  <2>4. UNCHANGED <<Pin, ran>>
    BY <1>1 DEF Create, Pin
  <2>5. Atomic!Create(k)
    BY <2>2, <2>3, <2>4 DEF Atomic!Create, Absent
  <2>. QED BY <2>5, Zenon DEF Atomic!Next
<1>2. CASE Update(c)
  <2>u. UNCHANGED <<dep, pinned, ran>> /\ req[c].op = "update" /\ req[c].op \in Loading
    BY <1>2 DEF Update, Loading
  <2>1. CASE req[c].code \notin {NoCode, req[c].loaded.code} /\ ~Conflicts(c)
    <3>1. Save(c, req[c].code, NewEntry(c)) /\ Exists
      BY <1>2, <2>1 DEF Update, Conflicts
    <3>2. req[c].code \in Codes /\ NewEntry(c) \in Entries
      BY <2>1, <2>u, <3>1, <1>r, <1>t, RequestShape, RowShape DEF NewEntry
    <3>. QED BY <2>u, <2>1, <3>1, <3>2, <1>s
  <2>2. CASE req[c].code \notin {NoCode, req[c].loaded.code} /\ Conflicts(c)
    BY <1>2, <2>2, <2>u, SamePicture DEF Update
  <2>3. CASE req[c].code \in {NoCode, req[c].loaded.code}
    <3>1. row' = (IF Exists THEN [row EXCEPT !.entry = NewEntry(c)] ELSE row)
          /\ versions' = versions
      BY <1>2, <2>3 DEF Update
    <3>2. row'.is = row.is /\ (Exists => row'.version = row.version /\ row'.code = row.code)
      BY <3>1, <1>t DEF Rows, Exists, Absent, Gone
    <3>3. UNCHANGED <<row.is, History, Pin, ran>>
      BY <3>1, <3>2, <2>u DEF History, Exists, Pin
    <3>. QED BY <3>3 DEF Atomic!vars
  <2>. QED BY <2>1, <2>2, <2>3
<1>3. CASE Upload(c)
  <2>1. req[c].op \in Loading /\ ~Conflicts(c) /\ Exists /\ req[c].code \in Codes
    BY <1>3, <1>r, RequestShape DEF Upload, Loading, Conflicts
  <2>2. row.entry \in Entries
    BY <2>1, <1>t, RowShape
  <2>. QED BY <1>3, <2>1, <2>2, <1>s DEF Upload
<1>4. CASE Delete(c)
  <2>1. row' = Gone /\ UNCHANGED <<pinned, ran>> /\ row # Absent
    BY <1>4, <1>r DEF Delete, history, Valid, NoRequest
  <2>2. Pin' = Pin
    <3>1. \A d \in Deployments : dep'[d] = Absent <=> dep[d] = Absent
      BY <1>4 DEF Delete, Gone, Absent
    <3>. QED BY <2>1, <3>1 DEF Pin
  <2>3. History' = << >> /\ row'.is = "gone"
    BY <2>1 DEF History, Exists, Gone
  <2>4. CASE Exists
    <3>1. Atomic!Delete
      BY <2>1, <2>2, <2>3, <2>4 DEF Atomic!Delete, Exists
    <3>. QED BY <3>1 DEF Atomic!Next
  <2>5. CASE ~Exists
    <3>1. row = Gone
      BY <2>1, <2>5, <1>t DEF Rows, Exists
    <3>2. UNCHANGED <<row.is, History, Pin, ran>>
      BY <2>1, <2>2, <3>1 DEF History, Exists, Gone
    <3>. QED BY <3>2 DEF Atomic!vars
  <2>. QED BY <2>4, <2>5
<1>5. CASE Insert(c)
  <2> DEFINE p == [code |-> versions[req[c].version], entry |-> row.entry]
  <2>1. req[c].version \in DOMAIN versions /\ Exists
    BY <1>5, <1>r DEF Insert, Valid
  <2>2. p \in Pins /\ p.code = History[req[c].version] /\ req[c].version \in DOMAIN History
    BY <2>1, <1>t, RowShape, HistoryIsTable DEF Pins, Inv, TypeInv, Types
  <2>3. PICK d \in Deployments :
           /\ dep[d] = Absent
           /\ dep' = [dep EXCEPT ![d] = Deployed(req[c].mode, "pending", req[c].version)]
           /\ pinned' = [pinned EXCEPT ![d] = p]
    BY <1>5 DEF Insert
  <2>4. Deployed(req[c].mode, "pending", req[c].version) # Absent
    BY DEF Deployed, Absent
  <2>5. UNCHANGED <<row, versions, ran>>
    BY <1>5 DEF Insert
  <2>6. Atomic!Pin(d, History[req[c].version])
    BY <2>1, <2>2, <2>3, <2>4, <2>5, InsertIsPin
  <2>7. Atomic!Deploy(d)
    BY <2>2, <2>6 DEF Atomic!Deploy
  <2>. QED BY <2>7, Zenon DEF Atomic!Next
<1>6. CASE Promote(c)
  <2> DEFINE q == req[c].of
  <2>1. q \in Deployments /\ dep[q] # Absent /\ Exists
    BY <1>6, <1>r, RequestShape DEF Promote, Valid
  <2>2. pinned[q] \in Pins /\ pinned[q].code \in Pin[q]
    BY <2>1 DEF Inv, TypeInv, DepTypes, Pin
  <2>3. PICK d \in Deployments :
           /\ dep[d] = Absent
           /\ dep' = [dep EXCEPT ![d] = Deployed(req[c].mode, "pending", req[c].version)]
           /\ pinned' = [pinned EXCEPT ![d] = pinned[q]]
    BY <1>6 DEF Promote
  <2>4. Deployed(req[c].mode, "pending", req[c].version) # Absent
    BY DEF Deployed, Absent
  <2>5. UNCHANGED <<row, versions, ran>>
    BY <1>6 DEF Promote
  <2>6. Atomic!Pin(d, pinned[q].code)
    BY <2>1, <2>2, <2>3, <2>4, <2>5, InsertIsPin
  <2>7. Atomic!Promote(d, q)
    BY <2>2, <2>6 DEF Atomic!Promote
  <2>. QED BY <2>1, <2>7, Zenon DEF Atomic!Next
<1>. QED BY <1>1, <1>2, <1>3, <1>4, <1>5, <1>6

LEMMA JobIsAtomic ==
  ASSUME Inv, NEW d \in Deployments,
         \/ Start(d) \/ LoadDeployment(d) \/ LoadVersion(d) \/ LoadEntry(d)
         \/ LoadState(d) \/ Run(d) \/ Finish(d)
  PROVE  [Atomic!Next]_(Atomic!vars)
<1>s. ASSUME UNCHANGED <<row, versions, pinned, ran>>,
             dep' = dep \/ \E s \in {"pending", "running", "completed"} :
                               dep[d].is = "row" /\ SetStatus(d, s)
      PROVE  UNCHANGED Atomic!vars
  <2>1. \A b \in Deployments : dep'[b] = Absent <=> dep[b] = Absent
    BY <1>s, StatusKeeps
  <2>. QED BY <1>s, <2>1, SamePicture
<1>1. CASE Start(d) \/ LoadState(d) \/ Finish(d)
  BY <1>1, <1>s DEF Start, LoadState, Finish, history
<1>2. CASE LoadDeployment(d) \/ LoadVersion(d) \/ LoadEntry(d)
  BY <1>2, <1>s DEF LoadDeployment, LoadVersion, LoadEntry, history
<1>3. CASE Run(d)
  <2> DEFINE k == job[d].code
             e == job[d].entry
  <2>1. dep[d] # Absent /\ k = pinned[d].code /\ e # Fallback
    BY <1>3 DEF Run, Inv, JobsOK
  <2>2. e \in Entries
    BY <2>1 DEF Inv, TypeInv, JobTypes, Jobs
  <2>3. k \in Pin[d]
    BY <2>1 DEF Pin
  <2>4. ran' = ran \cup {[of |-> d, code |-> k, entry |-> e]}
    BY <1>3 DEF Run
  <2>5. UNCHANGED <<row.is, History, Pin>>
    BY <1>3 DEF Run, History, Exists, Pin
  <2>6. Atomic!Run(d)
    BY <2>2, <2>3, <2>4, <2>5 DEF Atomic!Run
  <2>. QED BY <2>6, Zenon DEF Atomic!Next
<1>. QED BY <1>1, <1>2, <1>3

LEMMA StepIsAtomic == Inv /\ Inv' /\ [Next]_vars => [Atomic!Next]_(Atomic!vars)
<1> SUFFICES ASSUME Inv, Inv', [Next]_vars PROVE [Atomic!Next]_(Atomic!vars)
  OBVIOUS
<1>1. ASSUME NEW c \in Clients, BeginUpdate(c) \/ BeginUpload(c) \/ BeginRestore(c)
                                 \/ BeginDelete(c) \/ BeginDeploy(c) \/ BeginPromote(c)
      PROVE  UNCHANGED <<row, versions, dep, pinned, ran>>
  BY <1>1 DEF BeginUpdate, BeginUpload, BeginRestore, BeginDelete, BeginDeploy, BeginPromote,
              Begin, history
<1>2. ASSUME NEW c \in Clients, ReadOld(c) \/ Resolve(c) \/ RefuseUpload(c) \/ RefuseInsert(c)
      PROVE  UNCHANGED <<row, versions, dep, pinned, ran>>
  BY <1>2 DEF ReadOld, Resolve, RefuseUpload, RefuseInsert, Refuse, history
<1>3. CASE UNCHANGED <<row, versions, dep, pinned, ran>>
  BY <1>3, SamePicture
<1>4. UNCHANGED vars => UNCHANGED <<row, versions, dep, pinned, ran>>
  BY DEF vars, history
<1>. QED BY <1>1, <1>2, <1>3, <1>4, RequestIsAtomic, JobIsAtomic DEF Next

(* Requests that load a row, compute, and commit later, and jobs that load *)
(* what they run in four SELECTs, do what VersionedCode does in one step:  *)
(* no save is lost or written over, and no pin moves.                      *)
THEOREM CodeIsVersioned == Spec => Implements
<1>1. Init => Atomic!Init
  <2>1. Init => row.is = "absent" /\ ~Exists
    BY DEF Init, Absent, Exists
  <2>. QED BY <2>1 DEF Init, Atomic!Init, History, Pin
<1>. QED BY <1>1, StepIsAtomic, Invariance, PTL DEF Spec, Implements, Atomic!Spec
=============================================================================
