---------------------------- MODULE VersionedCode ----------------------------
(***************************************************************************)
(* What hosted strategies promise: a save adds a version in one step, a    *)
(* deployment pins one for good, and runs that.  It knows of no requests,  *)
(* no rows that were loaded earlier and no conflicts.                      *)
(***************************************************************************)
EXTENDS Sequences

CONSTANTS Codes, Entries, Deployments

VARIABLES
    stage,    \* the strategy is absent, a row, or gone
    history,  \* its codes, in the order they were saved
    pin,      \* per deployment: {} or the code it is to run
    ran       \* what was run

vars == <<stage, history, pin, ran>>

Init ==
    /\ stage = "absent" /\ history = << >>
    /\ pin = [d \in Deployments |-> {}]
    /\ ran = {}

Create(k) ==
    /\ stage = "absent"
    /\ stage' = "row" /\ history' = <<k>>
    /\ UNCHANGED <<pin, ran>>

Save(k) ==
    /\ stage = "row"
    /\ history' = Append(history, k)
    /\ UNCHANGED <<stage, pin, ran>>

(* With all its versions; what was pinned may still be running.            *)
Delete ==
    /\ stage = "row"
    /\ stage' = "gone" /\ history' = << >>
    /\ UNCHANGED <<pin, ran>>

Pin(d, k) ==
    /\ stage = "row"
    /\ pin[d] = {}
    /\ pin' = [pin EXCEPT ![d] = {k}]
    /\ UNCHANGED <<stage, history, ran>>

Deploy(d)     == \E v \in DOMAIN history : Pin(d, history[v])
Promote(d, p) == \E k \in pin[p] : Pin(d, k)

Run(d) ==
    /\ \E k \in pin[d], e \in Entries :
           ran' = ran \cup {[of |-> d, code |-> k, entry |-> e]}
    /\ UNCHANGED <<stage, history, pin>>

Next ==
    \/ \E k \in Codes : Create(k) \/ Save(k)
    \/ Delete
    \/ \E d \in Deployments : Deploy(d) \/ Run(d)
    \/ \E d, p \in Deployments : Promote(d, p)

Spec == Init /\ [][Next]_vars
=============================================================================
