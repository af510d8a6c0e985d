-------------------------- MODULE BoundedStaleness --------------------------
(***************************************************************************)
(* What the cache of the active strategies promises: a webhook acts on a   *)
(* list that is the current one, or was at most Bound ticks ago.  It says  *)
(* nothing of a cache, a database, or the steps in which they are read.    *)
(***************************************************************************)
EXTENDS Naturals

CONSTANTS
    Readers,
    Lists,       \* the values the list may take
    NoList,      \* what a reader has that is not acting on a list
    Bound        \* a number of ticks

VARIABLES
    current,    \* the list
    past,       \* the lists replaced at most Bound ticks ago, with the ticks
    seen        \* per reader: the list it acts on

vars == <<current, past, seen>>

Init ==
    /\ current \in Lists
    /\ past = {}
    /\ seen = [r \in Readers |-> NoList]

Replace ==
    /\ current' \in Lists
    /\ past' = past \cup {<<current, 0>>}
    /\ UNCHANGED seen

(* What is known of the past when a tick has gone by.                      *)
Aged(p) == {<<e[1], e[2] + 1>> : e \in {x \in p : x[2] < Bound}}

Tick ==
    /\ past' = Aged(past)
    /\ UNCHANGED <<current, seen>>

Recent == {current} \cup {e[1] : e \in past}

Serve(r) ==
    /\ \E l \in Recent : seen' = [seen EXCEPT ![r] = l]
    /\ UNCHANGED <<current, past>>

Finish(r) ==
    /\ seen' = [seen EXCEPT ![r] = NoList]
    /\ UNCHANGED <<current, past>>

Next ==
    \/ Replace \/ Tick
    \/ \E r \in Readers : Serve(r) \/ Finish(r)

Spec == Init /\ [][Next]_vars
=============================================================================
