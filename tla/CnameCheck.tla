----------------------------- MODULE CnameCheck -----------------------------
(***************************************************************************)
(* cname.Check of internal/cname and buildResolveTarget of internal/audit, *)
(* which tells it what resolves.                                           *)
(*                                                                         *)
(* Both loops of Check range over a Go map, whose order is random: every   *)
(* iteration is an action, and which name comes next is free.  Findings    *)
(* may be repeated, and a report sorts them, so they form a bag.           *)
(***************************************************************************)
EXTENDS Integers, Sequences, FiniteSets, Bags, Functions, SequencesExt

CONSTANTS Names,     \* owner names and targets, normalised
          Apex,      \* the audited zone
          Below,     \* the names that end in "." and the zone
          MaxChain   \* the parameter maxChain

ASSUME NamesAssumption == /\ IsFiniteSet(Names)
                          /\ Apex \in Names /\ Below \subseteq Names \ {Apex}
ASSUME MaxChainAssumption == MaxChain \in Int

VARIABLES g,         \* the Graph
          others,    \* names for which records other than a CNAME came in
          pc, todo,  \* the loop, and the names it has still to visit
          visited,   \* the visited map of Check
          roots,     \* the map that loopRoots builds
          found      \* the findings

vars == <<g, others, pc, todo, visited, roots, found>>

Finding(id, subject, evidence) == [id |-> id, subject |-> subject, evidence |-> evidence]

\* What Build can return: at most one target for every name.
Graphs == UNION {[S -> Names] : S \in SUBSET Names}

Init ==
    /\ g \in Graphs
    /\ others \in SUBSET Names
    /\ pc = "chains"
    /\ todo = DOMAIN g
    /\ visited = {}
    /\ roots = <<>>
    /\ found = EmptyBag

-----------------------------------------------------------------------------

\* Check replaces a limit that is not positive; walk and loopRoots have a
\* limit of their own.
maxChain  == IF MaxChain <= 0 THEN 8 ELSE MaxChain
SafetyCap == 100

\* The names that walk has seen before the last one of the chain.
SeenBefore(start, chain) == {start} \cup {chain[i] : i \in 1..(Len(chain) - 1)}

\* The name that the loop of walk is at, and where it ends: at a name that was
\* seen, at one without a CNAME, and at the cap.
Cur(start, chain) == IF chain = <<>> THEN start ELSE Last(chain)
Ends(start, cap, chain) ==
    \/ chain # <<>> /\ Cur(start, chain) \in SeenBefore(start, chain)
    \/ Cur(start, chain) \notin DOMAIN g
    \/ Len(chain) > cap

\* The loop of walk with a given cap.  Every round starts from a new name of
\* the graph.
WalkUpTo(start, cap) ==
    LET round[n \in 0..Cardinality(DOMAIN g)] ==
            IF n = 0 THEN <<>>
            ELSE IF Ends(start, cap, round[n - 1]) THEN round[n - 1]
            ELSE Append(round[n - 1], g[Cur(start, round[n - 1])])
    IN  round[Cardinality(DOMAIN g)]

\* Mutants: the chain begins with its own start; the limit on the length of
\* a chain stops the walk.
WalkWithStart(start) == <<start>> \o WalkUpTo(start, SafetyCap)
WalkCapped(start) == WalkUpTo(start, maxChain - 1)

\* walk: the targets met from start on.
Walk(start) == WalkUpTo(start, SafetyCap)

\* loopRoots follows the same links as walk.  It looks for a repeated name
\* after it looked at its cap.
Loops(start) ==
    LET chain == Walk(start)
    IN  Len(chain) \in 1..SafetyCap /\ Last(chain) \in SeenBefore(start, chain)

\* buildResolveTarget: the owner of any record gathered, a CNAME included,
\* and everything below the zone as soon as the zone owns one.
Owners == DOMAIN g \cup others
ResolveTarget(name) == name \in Owners \/ (name \in Below /\ Apex \in Owners)

\* Mutant: the target of the first link is looked up.
ChainFindingsFirst(start, chain) ==
        SetToBag({f \in {Finding("ChainLong", start, chain)} : Len(chain) > maxChain})
    (+) SetToBag({f \in {Finding("Dangling", chain[1], <<>>)} : ~ResolveTarget(chain[1])})

\* The findings about one chain.  (A chain is never empty: start is in g.)
ChainFindings(start, chain) ==
        SetToBag({f \in {Finding("ChainLong", start, chain)} : Len(chain) > maxChain})
    (+) SetToBag({f \in {Finding("Dangling", Last(chain), <<>>)} :
                     ~ResolveTarget(Last(chain))})

\* One iteration of the first loop of Check.
Visit(start) ==
    /\ pc = "chains"
    /\ start \in todo
    /\ todo' = todo \ {start}
    /\ IF start \in visited THEN UNCHANGED <<visited, found>>
       ELSE LET chain == Walk(start)
            IN  /\ visited' = visited \cup Range(chain)
                /\ found' = found (+) ChainFindings(start, chain)
    /\ UNCHANGED <<g, others, pc, roots>>

\* The call of loopRoots.
LoopRoots ==
    /\ pc = "chains"
    /\ todo = {}
    /\ pc' = "loops"
    /\ todo' = DOMAIN g
    /\ UNCHANGED <<g, others, visited, roots, found>>

\* Mutant: a loop is filed under the name from which it was found.
FindLoopByStart(start) ==
    /\ pc = "loops"
    /\ start \in todo
    /\ todo' = todo \ {start}
    /\ roots' = IF Loops(start)
                  THEN LET path == <<start>> \o Walk(start)
                       IN  [n \in DOMAIN roots \cup {start} |->
                               IF n = start THEN path ELSE roots[n]]
                  ELSE roots
    /\ UNCHANGED <<g, others, pc, visited, found>>

\* One iteration of loopRoots.  A loop is filed under the repeated name, and
\* the path that was found last replaces an earlier one.
FindLoop(start) ==
    /\ pc = "loops"
    /\ start \in todo
    /\ todo' = todo \ {start}
    /\ roots' = IF Loops(start)
                  THEN LET path == <<start>> \o Walk(start)
                       IN  [n \in DOMAIN roots \cup {Last(path)} |->
                               IF n = Last(path) THEN path ELSE roots[n]]
                  ELSE roots
    /\ UNCHANGED <<g, others, pc, visited, found>>

\* The last loop of Check.
ReportLoops ==
    /\ pc = "loops"
    /\ todo = {}
    /\ found' = found (+) SetToBag({Finding("Loop", r, roots[r]) : r \in DOMAIN roots})
    /\ pc' = "done"
    /\ UNCHANGED <<g, others, todo, visited, roots>>

Next ==
    \/ \E start \in Names : Visit(start) \/ FindLoop(start)
    \/ LoopRoots
    \/ ReportLoops

Spec == Init /\ [][Next]_vars

-----------------------------------------------------------------------------
(* Properties *)

\* Types; a name is marked as visited only as the target of another.
TypeOK ==
    /\ g \in Graphs /\ others \subseteq Names
    /\ pc \in {"chains", "loops", "done"}
    /\ todo \subseteq DOMAIN g
    /\ visited \subseteq Range(g)
    /\ DOMAIN roots \subseteq Names
    /\ IsABag(found)

Subjects(id) == {f.subject : f \in {f \in BagToSet(found) : f.id = id}}

\* The reference: the names behind a name, itself included if it is on a loop,
\* are those of the least set of names that holds its target and, with a name,
\* the target of that name.
Closed(S) == \A x \in S \cap DOMAIN g : g[x] \in S
Behind(n) == {m \in Names : \A S \in SUBSET Names :
                 Closed(S) /\ (n \in DOMAIN g => g[n] \in S) => m \in S}

\* Exactly the names on a loop are reported as such, in whichever order the
\* maps are walked: a name that only leads into a loop is not.
LoopsExact == pc = "done" => Subjects("Loop") = {n \in Names : n \in Behind(n)}

\* Skipping visited names loses no dangling target and invents none: the
\* ends of chains that do not resolve are reported, in whichever order.
DanglingExact ==
    pc = "done" =>
        Subjects("Dangling") =
            {m \in UNION {Behind(n) : n \in DOMAIN g} :
                m \notin DOMAIN g /\ ~ResolveTarget(m)}

\* Every chain that is too long is reported for the name it starts from or
\* for one that leads there, and every report is of a chain with more links
\* than allowed.
LongChainsCovered ==
    LET links(n) == Cardinality({m \in {n} \cup Behind(n) : m \in DOMAIN g})
        long     == {n \in DOMAIN g : links(n) > maxChain}
    IN  pc = "done" =>
          /\ Subjects("ChainLong") \subseteq long
          /\ \A n \in long : \E m \in Subjects("ChainLong") : m = n \/ n \in Behind(m)
=============================================================================
