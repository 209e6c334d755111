---------------------------- MODULE QueryBudget -----------------------------
(***************************************************************************)
(* What the resolver layer promises about a run, with no counter, channel, *)
(* goroutine or retry in it: every call pays one unit of the query budget  *)
(* before it does anything else, no more than Width paid calls are on the  *)
(* network at once, and a unit once paid is never given back, not even to  *)
(* a call that is abandoned before it starts.                              *)
(***************************************************************************)
EXTENDS Integers, FiniteSets

CONSTANTS Calls,    \* the callers that may have a call under way
          Limit,    \* units in the budget
          Width     \* calls allowed on the network at once

VARIABLES left,     \* units not yet paid
          paid,     \* calls that paid and wait for the network
          active    \* calls on the network

vars == <<left, paid, active>>

Init == left = Limit /\ paid = {} /\ active = {}

Charge(c) ==
    /\ c \notin paid \cup active
    /\ left > 0
    /\ left' = left - 1
    /\ paid' = paid \cup {c}
    /\ UNCHANGED active

Start(c) ==
    /\ c \in paid
    /\ Cardinality(active) < Width
    /\ paid' = paid \ {c}
    /\ active' = active \cup {c}
    /\ UNCHANGED left

Abandon(c) ==
    /\ c \in paid
    /\ paid' = paid \ {c}
    /\ UNCHANGED <<left, active>>

Finish(c) ==
    /\ c \in active
    /\ active' = active \ {c}
    /\ UNCHANGED <<left, paid>>

Next == \E c \in Calls : Charge(c) \/ Start(c) \/ Abandon(c) \/ Finish(c)

Spec == Init /\ [][Next]_vars
=============================================================================
