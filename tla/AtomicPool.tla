----------------------------- MODULE AtomicPool -----------------------------
(***************************************************************************)
(* What the pool of brokers promises: to take a broker is one step, in     *)
(* which the connection's broker is found or the next one is made.  It     *)
(* knows of no lock, no credentials, no failure and no await.              *)
(***************************************************************************)
EXTENDS Naturals

CONSTANTS Tasks, Conns

VARIABLES
    open,     \* the pool has not been closed
    pooled,   \* per connection: the number of its broker, 0 for none
    issued,   \* per connection: the brokers made so far
    held      \* per task: {} or {<<connection, broker>>}

vars == <<open, pooled, issued, held>>

Init ==
    /\ open = TRUE
    /\ pooled = [c \in Conns |-> 0]
    /\ issued = [c \in Conns |-> 0]
    /\ held = [t \in Tasks |-> {}]

Hold(t, c, n) ==
    /\ open
    /\ held[t] = {}
    /\ held' = [held EXCEPT ![t] = {<<c, n>>}]
    /\ UNCHANGED open

Find(t, c) ==
    /\ pooled[c] # 0
    /\ Hold(t, c, pooled[c])
    /\ UNCHANGED <<pooled, issued>>

Make(t, c) ==
    /\ pooled[c] = 0
    /\ issued' = [issued EXCEPT ![c] = @ + 1]
    /\ pooled' = [pooled EXCEPT ![c] = issued[c] + 1]
    /\ Hold(t, c, issued[c] + 1)

Return(t) ==
    /\ held[t] # {}
    /\ held' = [held EXCEPT ![t] = {}]
    /\ UNCHANGED <<open, pooled, issued>>

(* The task's broker failed.  Whichever is pooled by now goes.             *)
Discard(t) ==
    /\ \E b \in held[t] : pooled' = [pooled EXCEPT ![b[1]] = 0]
    /\ held' = [held EXCEPT ![t] = {}]
    /\ UNCHANGED <<open, issued>>

(* Nobody holds a broker any more, and nobody will.                        *)
Close ==
    /\ \A t \in Tasks : held[t] = {}
    /\ pooled' = [c \in Conns |-> 0]
    /\ open' = FALSE
    /\ UNCHANGED <<issued, held>>

Next ==
    \/ \E t \in Tasks : Return(t) \/ Discard(t)
    \/ \E t \in Tasks, c \in Conns : Find(t, c) \/ Make(t, c)
    \/ Close

Spec == Init /\ [][Next]_vars
=============================================================================
