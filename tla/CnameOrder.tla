----------------------------- MODULE CnameOrder -----------------------------
(***************************************************************************)
(* Two runs of cname.Check on the same records, to compare what they       *)
(* report.  Nothing connects the two but the records: they differ only in  *)
(* the order in which Go walks the maps.                                   *)
(***************************************************************************)
EXTENDS Integers

CONSTANTS Names, Apex, Below, MaxChain   \* see CnameCheck

VARIABLES g, others,                             \* the records
          pc1, todo1, visited1, roots1, found1,  \* the first run
          pc2, todo2, visited2, roots2, found2   \* the second run

first  == <<pc1, todo1, visited1, roots1, found1>>
second == <<pc2, todo2, visited2, roots2, found2>>

A == INSTANCE CnameCheck WITH
         pc <- pc1, todo <- todo1, visited <- visited1, roots <- roots1, found <- found1
B == INSTANCE CnameCheck WITH
         pc <- pc2, todo <- todo2, visited <- visited2, roots <- roots2, found <- found2

Init == A!Init /\ B!Init

\* The runs do not interact, so one may as well come after the other.
Next ==
    \/ A!Next /\ UNCHANGED second
    \/ pc1 = "done" /\ B!Next /\ UNCHANGED first

Spec == Init /\ [][Next]_<<g, others, first, second>>

\* docs/architecture.md: "Deterministic output - findings carry stable IDs,
\* severities, and evidence for golden testing".  Two runs of Check on the
\* same records report the same.
SameReport == pc1 = "done" /\ pc2 = "done" => found1 = found2
=============================================================================
