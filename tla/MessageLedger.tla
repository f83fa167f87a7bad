---------------------------- MODULE MessageLedger ----------------------------
(***************************************************************************)
(* What a program that sends messages through an asynchronous client owes  *)
(* them: a message is made, handed over to the client, and released by its *)
(* confirmation, exactly once; the books are closed only when nothing is   *)
(* left with the client.  A message that is not handed over is kept.       *)
(***************************************************************************)
EXTENDS Naturals, FiniteSets

CONSTANT Messages

VARIABLES
    state,      \* what became of each message
    confirmed,  \* how many confirmations have been counted
    closed      \* no message is made, handed over or released any more

vars == <<state, confirmed, closed>>

States == {"unused", "held", "handed", "released"}

Init ==
    /\ state = [m \in Messages |-> "unused"]
    /\ confirmed = 0
    /\ closed = FALSE

Make(m) ==
    /\ ~closed
    /\ state[m] = "unused"
    /\ state' = [state EXCEPT ![m] = "held"]
    /\ UNCHANGED <<confirmed, closed>>

HandOver(m) ==
    /\ ~closed
    /\ state[m] = "held"
    /\ state' = [state EXCEPT ![m] = "handed"]
    /\ UNCHANGED <<confirmed, closed>>

\* The client may confirm several messages at once, in any order.
Release(S) ==
    /\ ~closed
    /\ \A m \in S : state[m] = "handed"
    /\ state' = [m \in Messages |-> IF m \in S THEN "released" ELSE state[m]]
    /\ confirmed' = confirmed + Cardinality(S)

Next ==
    \/ \E m \in Messages : Make(m) \/ HandOver(m)
    \/ \E S \in SUBSET Messages : Release(S) /\ UNCHANGED closed
    \/ /\ closed' = TRUE
       /\ \E S \in SUBSET Messages : Release(S)
       /\ \A m \in Messages : state'[m] # "handed"

Spec == Init /\ [][Next]_vars
=============================================================================
