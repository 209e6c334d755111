---------------------------- MODULE CnameProofs -----------------------------
(***************************************************************************)
(* Proofs about CnameCheck for every finite set of names and every graph   *)
(* with no more names than the safety cap of walk: what walk computes, and *)
(* what the findings say in whichever order the maps are walked.           *)
(***************************************************************************)
EXTENDS CnameCheck, FiniteSetTheorems, SequenceTheorems, WellFoundedInduction, TLAPS

-----------------------------------------------------------------------------
(* Induction *)

Less == {p \in Nat \X Nat : p[1] < p[2]}

\* A set that holds 0 and, with a number, the next one holds all of them.
LEMMA Induction ==
    ASSUME NEW S, 0 \in S, \A n \in Nat : n \in S => n + 1 \in S
    PROVE  Nat \subseteq S
  <1>1. IsWellFoundedOn(Less, Nat)
    BY NatLessThanWellFounded DEF OpToRel, Less
  <1> SUFFICES ASSUME Nat \ S # {} PROVE FALSE
    OBVIOUS
  <1>2. PICK n \in Nat \ S : \A m \in Nat \ S : ~(<<m, n>> \in Less)
    BY <1>1, WFMin
  <1>3. n # 0 /\ n - 1 \in Nat /\ n - 1 < n /\ (n - 1) + 1 = n
    OBVIOUS
  <1>4. n - 1 \in S
    BY <1>2, <1>3 DEF Less
  <1> QED
    BY <1>3, <1>4

-----------------------------------------------------------------------------
(* walk *)

\* The names that a chain runs through, from its start on.
At(start, chain, i) == IF i = 0 THEN start ELSE chain[i]

\* The chain follows the links, and only its last name may be a repeated one.
Path(start, chain) ==
    /\ chain \in Seq(Names)
    /\ \A i \in 0..(Len(chain) - 1) :
          At(start, chain, i) \in DOMAIN g /\ chain[i + 1] = g[At(start, chain, i)]
    /\ \A i, j \in 0..(Len(chain) - 1) :
          At(start, chain, i) = At(start, chain, j) => i = j

\* The chains after the rounds up to n.
Rounds(f, start, cap, n) ==
    f = [i \in 0..n |->
           IF i = 0 THEN <<>>
           ELSE IF Ends(start, cap, f[i - 1]) THEN f[i - 1]
           ELSE Append(f[i - 1], g[Cur(start, f[i - 1])])]

\* They are well defined.
LEMMA RoundsExist ==
    ASSUME NEW start, NEW cap, NEW n \in Nat
    PROVE  \E f : Rounds(f, start, cap, n)
  <1> DEFINE S == {k \in Nat : \E f : Rounds(f, start, cap, k)}
  <1>1. 0 \in S
    <2>1. 0..0 = {0}
      OBVIOUS
    <2>2. Rounds([i \in {0} |-> <<>>], start, cap, 0)
      BY <2>1 DEF Rounds
    <2> QED
      BY <2>2
  <1>2. ASSUME NEW k \in Nat, k \in S PROVE k + 1 \in S
    <2>1. PICK f : Rounds(f, start, cap, k)
      BY <1>2
    <2> DEFINE last == IF Ends(start, cap, f[k]) THEN f[k]
                       ELSE Append(f[k], g[Cur(start, f[k])])
               h == [i \in 0..(k + 1) |-> IF i = k + 1 THEN last ELSE f[i]]
    <2>2. \A i \in 0..k : h[i] = f[i]
      OBVIOUS
    <2>3. h[k + 1] = last
      OBVIOUS
    <2>4. ASSUME NEW i \in 0..(k + 1)
          PROVE  h[i] = IF i = 0 THEN <<>>
                        ELSE IF Ends(start, cap, h[i - 1]) THEN h[i - 1]
                        ELSE Append(h[i - 1], g[Cur(start, h[i - 1])])
      <3> HIDE DEF h
      <3>1. CASE i = 0
        BY <2>1, <2>2, <3>1 DEF Rounds
      <3>2. CASE i \in 1..k
        <4>1. i - 1 \in 0..k /\ i \in 0..k /\ i # 0
          BY <3>2
        <4>2. f[i] = IF Ends(start, cap, f[i - 1]) THEN f[i - 1]
                     ELSE Append(f[i - 1], g[Cur(start, f[i - 1])])
          BY <2>1, <4>1 DEF Rounds
        <4> QED
          BY <2>2, <4>1, <4>2
      <3>3. CASE i = k + 1
        <4>1. i - 1 = k /\ k \in 0..k /\ i # 0
          BY <3>3
        <4> QED
          BY <2>2, <2>3, <3>3, <4>1
      <3> QED
        BY <3>1, <3>2, <3>3
    <2>5. Rounds(h, start, cap, k + 1)
      <3>1. h = [i \in 0..(k + 1) |-> h[i]]
        OBVIOUS
      <3> HIDE DEF h
      <3> QED
        BY <2>4, <3>1 DEF Rounds
    <2> QED
      BY <2>5
  <1> HIDE DEF S
  <1>3. Nat \subseteq S
    BY <1>1, <1>2, Induction
  <1> QED
    BY <1>3 DEF S

\* A round adds a link to a path.
LEMMA PathGrows ==
    ASSUME g \in Graphs, NEW start \in DOMAIN g, NEW cap, NEW chain, Path(start, chain),
           ~Ends(start, cap, chain)
    PROVE  /\ Path(start, Append(chain, g[Cur(start, chain)]))
           /\ Len(Append(chain, g[Cur(start, chain)])) = Len(chain) + 1
  <1> DEFINE c    == Cur(start, chain)
             more == Append(chain, g[c])
             n    == Len(chain)
  <1>1. n \in Nat /\ chain \in Seq(Names) /\ (chain = <<>> <=> n = 0)
    BY EmptySeq, LenProperties DEF Path
  <1>2. c = At(start, chain, n)
    BY <1>1 DEF Cur, Last, At
  <1>3. c \in DOMAIN g /\ g[c] \in Names
    BY DEF Ends, Graphs
  <1>4. \A i \in 0..(n - 1) : At(start, chain, i) # c
    <2> SUFFICES ASSUME NEW i \in 0..(n - 1), At(start, chain, i) = c PROVE FALSE
      OBVIOUS
    <2>1. chain # <<>>
      BY <1>1
    <2>2. c \notin SeenBefore(start, chain)
      BY <2>1 DEF Ends
    <2>3. At(start, chain, i) \in SeenBefore(start, chain)
      BY <1>1 DEF At, SeenBefore
    <2> QED
      BY <2>2, <2>3
  <1> HIDE DEF c
  <1>5. /\ more \in Seq(Names) /\ Len(more) = n + 1
        /\ \A i \in 1..n : more[i] = chain[i]
        /\ more[n + 1] = g[c]
    BY <1>1, <1>3, AppendProperties
  <1> HIDE DEF more
  <1>6. \A i \in 0..n : At(start, more, i) = At(start, chain, i)
    BY <1>1, <1>5 DEF At
  <1>7. ASSUME NEW i \in 0..n
        PROVE  At(start, more, i) \in DOMAIN g /\ more[i + 1] = g[At(start, more, i)]
    <2>1. CASE i = n
      BY <1>1, <1>2, <1>3, <1>5, <1>6, <2>1
    <2>2. CASE i \in 0..(n - 1)
      <3>1. i + 1 \in 1..n /\ i \in 0..n
        BY <1>1, <2>2
      <3> QED
        BY <1>5, <1>6, <2>2, <3>1 DEF Path
    <2> QED
      BY <1>1, <2>1, <2>2
  <1>8. ASSUME NEW i \in 0..n, NEW j \in 0..n, At(start, more, i) = At(start, more, j)
        PROVE  i = j
    <2>1. At(start, chain, i) = At(start, chain, j)
      BY <1>6, <1>8
    <2>2. CASE i = n \/ j = n
      BY <1>1, <1>2, <1>4, <2>1, <2>2
    <2>3. CASE i \in 0..(n - 1) /\ j \in 0..(n - 1)
      BY <2>1, <2>3 DEF Path
    <2> QED
      BY <1>1, <2>2, <2>3
  <1>9. Len(more) - 1 = n
    BY <1>1, <1>5
  <1>10. Path(start, more)
    BY <1>5, <1>7, <1>8, <1>9 DEF Path
  <1> QED
    BY <1>5, <1>10 DEF more, c

\* A path is no longer than the graph has names, and one that uses them all
\* cannot go on.
LEMMA PathBound ==
    ASSUME g \in Graphs, NEW start \in DOMAIN g, NEW cap, NEW chain, Path(start, chain)
    PROVE  /\ Cardinality(DOMAIN g) \in Nat /\ Len(chain) <= Cardinality(DOMAIN g)
           /\ Len(chain) = Cardinality(DOMAIN g) => Ends(start, cap, chain)
  <1> DEFINE n == Len(chain)
             h == [i \in 0..(n - 1) |-> At(start, chain, i)]
  <1>1. IsFiniteSet(DOMAIN g)
    BY NamesAssumption, FS_Subset DEF Graphs
  <1>2. Cardinality(DOMAIN g) \in Nat
    BY <1>1, FS_CardinalityType
  <1>3. n \in Nat /\ chain \in Seq(Names) /\ (chain = <<>> <=> n = 0)
    BY EmptySeq, LenProperties DEF Path
  <1>4. h \in Injection(0..(n - 1), DOMAIN g)
    BY DEF Path, Injection, IsInjective
  <1>5. Cardinality(0..(n - 1)) = n
    <2>1. n - 1 \in Int
      BY <1>3
    <2>2. Cardinality(0..(n - 1)) = IF 0 > n - 1 THEN 0 ELSE (n - 1) - 0 + 1
      BY <2>1, FS_Interval
    <2> QED
      BY <1>3, <2>2
  <1>6. /\ n <= Cardinality(DOMAIN g)
        /\ n = Cardinality(DOMAIN g) => h \in Surjection(0..(n - 1), DOMAIN g)
    BY <1>1, <1>4, <1>5, FS_Injection
  <1>7. ASSUME n = Cardinality(DOMAIN g), Cur(start, chain) \in DOMAIN g
        PROVE  chain # <<>> /\ Cur(start, chain) \in SeenBefore(start, chain)
    <2>1. PICK i \in 0..(n - 1) : At(start, chain, i) = Cur(start, chain)
      BY <1>6, <1>7 DEF Surjection
    <2>2. chain # <<>>
      BY <1>3, <2>1
    <2>3. At(start, chain, i) \in SeenBefore(start, chain)
      BY <1>3 DEF At, SeenBefore
    <2> QED
      BY <2>1, <2>2, <2>3
  <1> QED
    BY <1>2, <1>6, <1>7 DEF Ends

\* What walk returns: a path that cannot go on, or was cut at the cap.
LEMMA WalkIsPath ==
    ASSUME g \in Graphs, NEW start \in DOMAIN g
    PROVE  /\ Path(start, Walk(start)) /\ Walk(start) # <<>>
           /\ Ends(start, SafetyCap, Walk(start))
  <1> DEFINE C == Cardinality(DOMAIN g)
             f == CHOOSE f : Rounds(f, start, SafetyCap, C)
             good(chain, n) == /\ Path(start, chain)
                               /\ Ends(start, SafetyCap, chain) \/ Len(chain) = n
  <1>1. Path(start, <<>>) /\ Len(<<>>) = 0
    BY DEF Path
  <1>2. C \in Nat
    BY <1>1, PathBound
  <1>3. Rounds(f, start, SafetyCap, C)
    BY <1>2, RoundsExist
  <1>4. Walk(start) = f[C]
    BY DEF Walk, WalkUpTo, Rounds
  <1> HIDE DEF C, f
  <1> DEFINE S == {n \in Nat : n <= C => good(f[n], n)}
  <1>5. 0 \in S
    <2>1. f[0] = <<>>
      BY <1>2, <1>3 DEF Rounds
    <2> QED
      BY <1>1, <2>1
  <1>6. ASSUME NEW n \in Nat, n \in S PROVE n + 1 \in S
    <2> SUFFICES ASSUME n + 1 <= C PROVE good(f[n + 1], n + 1)
      BY <1>2
    <2>1. good(f[n], n)
      BY <1>2, <1>6
    <2>2. f[n + 1] = IF Ends(start, SafetyCap, f[n]) THEN f[n]
                     ELSE Append(f[n], g[Cur(start, f[n])])
      <3>1. n + 1 \in 0..C /\ n + 1 # 0 /\ (n + 1) - 1 = n
        BY <1>2
      <3> QED
        BY <1>3, <3>1 DEF Rounds
    <2>3. CASE Ends(start, SafetyCap, f[n])
      BY <2>1, <2>2, <2>3
    <2>4. CASE ~Ends(start, SafetyCap, f[n])
      BY <2>1, <2>2, <2>4, PathGrows
    <2> QED
      BY <2>3, <2>4
  <1> HIDE DEF S
  <1>7. Nat \subseteq S
    BY <1>5, <1>6, Induction
  <1>8. good(f[C], C)
    BY <1>2, <1>7 DEF S
  <1>9. Path(start, Walk(start)) /\ Ends(start, SafetyCap, Walk(start))
    BY <1>4, <1>8, PathBound DEF C
  <1>10. ~Ends(start, SafetyCap, <<>>)
    BY DEF Ends, Cur, SafetyCap
  <1> QED
    BY <1>9, <1>10

\* The same in terms of positions, for a graph within the cap: the last name
\* is the only one that has no CNAME or was seen before.
LEMMA WalkFacts ==
    ASSUME g \in Graphs, Cardinality(DOMAIN g) <= SafetyCap,
           NEW start \in DOMAIN g, NEW w, w = Walk(start)
    PROVE  /\ w \in Seq(Names) /\ Len(w) \in Nat /\ Len(w) >= 1 /\ Len(w) <= SafetyCap
           /\ w[1] = g[start]
           /\ \A i \in 1..(Len(w) - 1) : w[i] \in DOMAIN g /\ w[i + 1] = g[w[i]] /\ w[i] # start
           /\ \A i, j \in 1..(Len(w) - 1) : w[i] = w[j] => i = j
           /\ SeenBefore(start, w) = {start} \cup {w[i] : i \in 1..(Len(w) - 1)}
           /\ w[Len(w)] \in SeenBefore(start, w) \/ w[Len(w)] \notin DOMAIN g
           /\ Last(w) = w[Len(w)]
  <1>1. Path(start, w) /\ w # <<>> /\ Ends(start, SafetyCap, w)
    BY WalkIsPath
  <1>2. w \in Seq(Names) /\ Len(w) \in Nat /\ Len(w) >= 1
    BY <1>1, EmptySeq, LenProperties DEF Path
  <1>3. Len(w) <= SafetyCap
    BY <1>1, <1>2, PathBound DEF SafetyCap
  <1>4. 0 \in 0..(Len(w) - 1) /\ At(start, w, 0) = start
    BY <1>2 DEF At
  <1>5. w[1] = g[start]
    BY <1>1, <1>4 DEF Path
  <1>6. ASSUME NEW i \in 1..(Len(w) - 1)
        PROVE  w[i] \in DOMAIN g /\ w[i + 1] = g[w[i]] /\ w[i] # start
    <2>1. i \in 0..(Len(w) - 1) /\ i # 0 /\ At(start, w, i) = w[i]
      BY <1>2 DEF At
    <2> QED
      BY <1>1, <1>4, <2>1 DEF Path
  <1>7. ASSUME NEW i \in 1..(Len(w) - 1), NEW j \in 1..(Len(w) - 1), w[i] = w[j]
        PROVE  i = j
    <2>1. /\ i \in 0..(Len(w) - 1) /\ At(start, w, i) = w[i]
          /\ j \in 0..(Len(w) - 1) /\ At(start, w, j) = w[j]
      BY <1>2 DEF At
    <2> QED
      BY <1>1, <1>7, <2>1 DEF Path
  <1>8. Cur(start, w) = w[Len(w)] /\ Last(w) = w[Len(w)]
    BY <1>1 DEF Cur, Last
  <1>9. w[Len(w)] \in SeenBefore(start, w) \/ w[Len(w)] \notin DOMAIN g
    <2>1. ~(Len(w) > SafetyCap)
      BY <1>2, <1>3 DEF SafetyCap
    <2> QED
      BY <1>1, <1>8, <2>1 DEF Ends
  <1> QED
    BY <1>2, <1>3, <1>5, <1>6, <1>7, <1>8, <1>9 DEF SeenBefore

-----------------------------------------------------------------------------
(* walk against the reference *)

\* The names behind a name are closed under the links.
LEMMA BehindClosed ==
    ASSUME g \in Graphs, NEW n \in DOMAIN g
    PROVE  /\ g[n] \in Behind(n) /\ Behind(n) \subseteq Names
           /\ \A m \in Behind(n) \cap DOMAIN g : g[m] \in Behind(n) /\ Behind(m) \subseteq Behind(n)
  <1>1. \A m \in DOMAIN g : g[m] \in Names
    BY DEF Graphs
  <1>2. g[n] \in Behind(n) /\ Behind(n) \subseteq Names
    BY <1>1 DEF Behind
  <1>3. ASSUME NEW m \in Behind(n) \cap DOMAIN g PROVE g[m] \in Behind(n)
    BY <1>1, <1>3 DEF Behind, Closed
  <1>4. ASSUME NEW m \in Behind(n) \cap DOMAIN g PROVE Behind(m) \subseteq Behind(n)
    <2>1. Closed(Behind(n)) /\ Behind(n) \in SUBSET Names /\ g[m] \in Behind(n)
      BY <1>2, <1>3 DEF Closed
    <2> QED
      BY <2>1 DEF Behind
  <1> QED
    BY <1>2, <1>3, <1>4

\* walk finds the names behind its start, no more and no less.
LEMMA WalkIsBehind ==
    ASSUME g \in Graphs, Cardinality(DOMAIN g) <= SafetyCap, NEW start \in DOMAIN g
    PROVE  Range(Walk(start)) = Behind(start)
  <1> DEFINE w == Walk(start)
  <1>0. /\ w \in Seq(Names) /\ Len(w) \in Nat /\ Len(w) >= 1
        /\ w[1] = g[start]
        /\ \A i \in 1..(Len(w) - 1) : w[i] \in DOMAIN g /\ w[i + 1] = g[w[i]]
        /\ SeenBefore(start, w) = {start} \cup {w[i] : i \in 1..(Len(w) - 1)}
        /\ w[Len(w)] \in SeenBefore(start, w) \/ w[Len(w)] \notin DOMAIN g
    BY WalkFacts
  <1> HIDE DEF w
  <1>1. Range(w) = {w[i] : i \in 1..Len(w)} /\ Range(w) \subseteq Names
    BY <1>0 DEF Range
  <1>2. Closed(Range(w)) /\ g[start] \in Range(w)
    <2>1. g[start] \in Range(w)
      BY <1>0, <1>1
    <2>2. \A i \in 1..(Len(w) - 1) : g[w[i]] \in Range(w)
      <3> TAKE i \in 1..(Len(w) - 1)
      <3>1. i + 1 \in 1..Len(w) /\ g[w[i]] = w[i + 1]
        BY <1>0
      <3> QED
        BY <1>1, <3>1
    <2>3. w[Len(w)] \in DOMAIN g => g[w[Len(w)]] \in Range(w)
      BY <1>0, <2>1, <2>2
    <2>4. ASSUME NEW i \in 1..Len(w), w[i] \in DOMAIN g PROVE g[w[i]] \in Range(w)
      <3>1. i = Len(w) \/ i \in 1..(Len(w) - 1)
        BY <1>0
      <3> QED
        BY <2>2, <2>3, <2>4, <3>1
    <2> QED
      BY <1>1, <2>1, <2>4 DEF Closed
  <1>3. Behind(start) \subseteq Range(w)
    BY <1>1, <1>2 DEF Behind
  <1>4. Range(w) \subseteq Behind(start)
    <2> DEFINE S == {n \in Nat : n + 1 <= Len(w) => w[n + 1] \in Behind(start)}
    <2>1. 0 \in S
      BY <1>0, BehindClosed
    <2>2. ASSUME NEW n \in Nat, n \in S PROVE n + 1 \in S
      <3> SUFFICES ASSUME (n + 1) + 1 <= Len(w) PROVE w[(n + 1) + 1] \in Behind(start)
        OBVIOUS
      <3>1. n + 1 \in 1..(Len(w) - 1) /\ n + 1 <= Len(w)
        BY <1>0
      <3>2. w[n + 1] \in Behind(start)
        BY <2>2, <3>1
      <3> QED
        BY <1>0, <3>1, <3>2, BehindClosed
    <2> HIDE DEF S
    <2>3. Nat \subseteq S
      BY <2>1, <2>2, Induction
    <2>4. ASSUME NEW i \in 1..Len(w) PROVE w[i] \in Behind(start)
      <3>1. i - 1 \in Nat /\ (i - 1) + 1 = i /\ i <= Len(w)
        BY <1>0
      <3> QED
        BY <2>3, <3>1 DEF S
    <2> QED
      BY <1>1, <2>4
  <1> QED
    BY <1>3, <1>4 DEF w

\* A name is found to be the root of a loop exactly if it is on one.
LEMMA LoopsAreCycles ==
    ASSUME g \in Graphs, Cardinality(DOMAIN g) <= SafetyCap
    PROVE  {Last(Walk(s)) : s \in {t \in DOMAIN g : Loops(t)}} = {n \in Names : n \in Behind(n)}
  <1>1. ASSUME NEW s \in DOMAIN g, Loops(s)
        PROVE  Last(Walk(s)) \in Names /\ Last(Walk(s)) \in Behind(Last(Walk(s)))
    <2> DEFINE w == Walk(s)
               x == w[Len(w)]
    <2>1. /\ w \in Seq(Names) /\ Len(w) \in Nat /\ Len(w) >= 1
          /\ w[1] = g[s]
          /\ \A i \in 1..(Len(w) - 1) : w[i] \in DOMAIN g /\ w[i + 1] = g[w[i]]
          /\ SeenBefore(s, w) = {s} \cup {w[i] : i \in 1..(Len(w) - 1)}
          /\ Last(w) = x
      BY WalkFacts
    <2>2. x \in SeenBefore(s, w)
      BY <1>1, <2>1 DEF Loops
    <2> HIDE DEF w
    <2>3. PICK k \in 0..(Len(w) - 1) : x = At(s, w, k) /\ w[k + 1] = g[x] /\ x \in DOMAIN g
      <3>1. CASE x = s
        BY <2>1, <3>1 DEF At
      <3>2. CASE x \in {w[i] : i \in 1..(Len(w) - 1)}
        <4>1. PICK i \in 1..(Len(w) - 1) : x = w[i]
          BY <3>2
        <4>2. i \in 0..(Len(w) - 1) /\ i # 0
          BY <2>1
        <4> QED
          BY <2>1, <4>1, <4>2 DEF At
      <3> QED
        BY <2>1, <2>2, <3>1, <3>2
    <2> DEFINE S == {n \in Nat : k + 1 + n <= Len(w) => w[k + 1 + n] \in Behind(x)}
    <2> HIDE DEF x
    <2>4. 0 \in S
      <3>1. k + 1 + 0 = k + 1
        BY <2>1
      <3> QED
        BY <2>3, <3>1, BehindClosed
    <2>5. ASSUME NEW n \in Nat, n \in S PROVE n + 1 \in S
      <3> SUFFICES ASSUME k + 1 + (n + 1) <= Len(w) PROVE w[k + 1 + (n + 1)] \in Behind(x)
        OBVIOUS
      <3>1. /\ k + 1 + n \in 1..(Len(w) - 1) /\ k + 1 + n <= Len(w)
            /\ (k + 1 + n) + 1 = k + 1 + (n + 1)
        BY <2>1
      <3>2. w[k + 1 + n] \in Behind(x)
        BY <2>5, <3>1
      <3>3. w[k + 1 + (n + 1)] = g[w[k + 1 + n]] /\ w[k + 1 + n] \in DOMAIN g
        BY <2>1, <3>1
      <3> QED
        BY <2>3, <3>2, <3>3, BehindClosed
    <2> HIDE DEF S
    <2>6. Nat \subseteq S
      BY <2>4, <2>5, Induction
    <2>7. PICK d \in Nat : k + 1 + d = Len(w)
      <3>1. Len(w) - (k + 1) \in Nat /\ k + 1 + (Len(w) - (k + 1)) = Len(w)
        BY <2>1
      <3> QED
        BY <3>1
    <2>8. w[Len(w)] \in Behind(x)
      <3>1. d \in S /\ k + 1 + d <= Len(w)
        BY <2>1, <2>6, <2>7
      <3> QED
        BY <2>7, <3>1 DEF S
    <2>9. x \in Names
      BY <2>8 DEF x, Behind
    <2> QED
      BY <2>1, <2>8, <2>9 DEF w, x
  <1>2. ASSUME NEW n \in Names, n \in Behind(n)
        PROVE  n \in DOMAIN g /\ Loops(n) /\ Last(Walk(n)) = n
    <2>1. n \in DOMAIN g
      <3> SUFFICES ASSUME n \notin DOMAIN g PROVE FALSE
        OBVIOUS
      <3>1. Closed({}) /\ {} \in SUBSET Names
        BY DEF Closed
      <3> QED
        BY <1>2, <3>1 DEF Behind
    <2> DEFINE w == Walk(n)
    <2>2. /\ w \in Seq(Names) /\ Len(w) \in Nat /\ Len(w) >= 1 /\ Len(w) <= SafetyCap
          /\ \A i \in 1..(Len(w) - 1) : w[i] # n
          /\ SeenBefore(n, w) = {n} \cup {w[i] : i \in 1..(Len(w) - 1)}
          /\ Last(w) = w[Len(w)]
      BY <2>1, WalkFacts
    <2>3. n \in Range(w)
      BY <1>2, <2>1, WalkIsBehind
    <2> HIDE DEF w
    <2>4. PICK i \in 1..Len(w) : n = w[i]
      BY <2>2, <2>3 DEF Range
    <2>5. i = Len(w)
      BY <2>2, <2>4
    <2>6. Len(w) \in 1..SafetyCap /\ Last(w) = n /\ Last(w) \in SeenBefore(n, w)
      <3>0. SafetyCap \in Nat
        BY DEF SafetyCap
      <3>1. Len(w) \in 1..SafetyCap
        BY <2>2, <3>0
      <3>2. Last(w) = n
        BY <2>2, <2>4, <2>5
      <3> QED
        BY <2>2, <3>1, <3>2
    <2> QED
      BY <2>1, <2>6 DEF Loops, w
  <1> QED
    BY <1>1, <1>2

\* The links that are followed from a name on.
Links(n) == Cardinality({m \in {n} \cup Behind(n) : m \in DOMAIN g})

\* walk makes that many hops.
LEMMA HopsAreLinks ==
    ASSUME g \in Graphs, Cardinality(DOMAIN g) <= SafetyCap, NEW s \in DOMAIN g
    PROVE  Len(Walk(s)) = Links(s)
  <1> DEFINE w == Walk(s)
             T == {m \in {s} \cup Behind(s) : m \in DOMAIN g}
             h == [i \in 1..Len(w) |-> IF i = 1 THEN s ELSE w[i - 1]]
  <1>1. /\ w \in Seq(Names) /\ Len(w) \in Nat /\ Len(w) >= 1
        /\ \A i \in 1..(Len(w) - 1) : w[i] \in DOMAIN g /\ w[i] # s
        /\ \A i, j \in 1..(Len(w) - 1) : w[i] = w[j] => i = j
        /\ SeenBefore(s, w) = {s} \cup {w[i] : i \in 1..(Len(w) - 1)}
        /\ w[Len(w)] \in SeenBefore(s, w) \/ w[Len(w)] \notin DOMAIN g
    BY WalkFacts
  <1>2. Behind(s) = {w[i] : i \in 1..Len(w)}
    BY <1>1, WalkIsBehind DEF Range
  <1> HIDE DEF w
  <1>3. T = {s} \cup {w[i] : i \in 1..(Len(w) - 1)}
    <2>1. \A i \in 1..Len(w) : i = Len(w) \/ i \in 1..(Len(w) - 1)
      BY <1>1
    <2>2. \A i \in 1..(Len(w) - 1) : i \in 1..Len(w)
      BY <1>1
    <2>3. \A m \in T : m \in {s} \cup {w[i] : i \in 1..(Len(w) - 1)}
      BY <1>1, <1>2, <2>1
    <2>4. \A m \in {s} \cup {w[i] : i \in 1..(Len(w) - 1)} : m \in T
      BY <1>1, <1>2, <2>2
    <2> QED
      BY <2>3, <2>4
  <1> HIDE DEF T
  <1>4. \A i \in 2..Len(w) : i - 1 \in 1..(Len(w) - 1) /\ h[i] = w[i - 1]
    BY <1>1
  <1>5. h[1] = s
    BY <1>1
  <1>6. \A i \in 1..Len(w) : i = 1 \/ i \in 2..Len(w)
    BY <1>1
  <1>7. h \in [1..Len(w) -> T]
    <2>1. \A i \in 1..Len(w) : h[i] \in T
      BY <1>3, <1>4, <1>5, <1>6
    <2> QED
      BY <2>1
  <1> HIDE DEF h
  <1>8. \A i, j \in 1..Len(w) : h[i] = h[j] => i = j
    <2> SUFFICES ASSUME NEW i \in 1..Len(w), NEW j \in 1..Len(w), h[i] = h[j] PROVE i = j
      OBVIOUS
    <2>1. CASE i = 1 /\ j # 1
      BY <1>1, <1>4, <1>5, <1>6, <2>1
    <2>2. CASE i # 1 /\ j = 1
      BY <1>1, <1>4, <1>5, <1>6, <2>2
    <2>3. CASE i # 1 /\ j # 1
      <3>1. i - 1 = j - 1
        BY <1>1, <1>4, <1>6, <2>3
      <3> QED
        BY <1>1, <3>1
    <2> QED
      BY <2>1, <2>2, <2>3
  <1>9. \A m \in T : \E i \in 1..Len(w) : h[i] = m
    <2>1. 1 \in 1..Len(w)
      BY <1>1
    <2>2. ASSUME NEW i \in 1..(Len(w) - 1) PROVE \E j \in 1..Len(w) : h[j] = w[i]
      <3>1. i + 1 \in 2..Len(w) /\ i + 1 \in 1..Len(w) /\ (i + 1) - 1 = i
        BY <1>1
      <3> QED
        BY <1>4, <3>1
    <2> QED
      BY <1>3, <1>5, <2>1, <2>2
  <1>10. ExistsBijection(1..Len(w), T)
    <2>1. h \in Bijection(1..Len(w), T)
      BY <1>7, <1>8, <1>9 DEF Bijection, Injection, Surjection, IsInjective
    <2> QED
      BY <2>1 DEF ExistsBijection
  <1>11. IsFiniteSet(1..Len(w)) /\ Cardinality(1..Len(w)) = Len(w)
    BY <1>1, FS_Interval
  <1>12. Cardinality(T) = Len(w)
    BY <1>10, <1>11, FS_Bijection
  <1> QED
    BY <1>12 DEF Links, T, w

\* What is behind a later name is behind an earlier one.
LEMMA LinksGrow ==
    ASSUME g \in Graphs, NEW s \in DOMAIN g, NEW n \in Behind(s) \cap DOMAIN g
    PROVE  Links(n) \in Nat /\ Links(s) \in Nat /\ Links(n) <= Links(s)
  <1> DEFINE T(m) == {x \in {m} \cup Behind(m) : x \in DOMAIN g}
  <1>1. IsFiniteSet(DOMAIN g)
    BY NamesAssumption, FS_Subset DEF Graphs
  <1>2. T(s) \subseteq DOMAIN g /\ T(n) \subseteq T(s)
    BY BehindClosed
  <1>3. IsFiniteSet(T(s))
    BY <1>1, <1>2, FS_Subset
  <1>4. /\ IsFiniteSet(T(n)) /\ Cardinality(T(n)) <= Cardinality(T(s))
    BY <1>2, <1>3, FS_Subset
  <1>5. Cardinality(T(s)) \in Nat /\ Cardinality(T(n)) \in Nat
    BY <1>3, <1>4, FS_CardinalityType
  <1> QED
    BY <1>4, <1>5 DEF Links

-----------------------------------------------------------------------------
(* The loops of Check *)

\* What was walked: the names in W.  Every name that the first loop has come
\* to was walked, or is behind one that was.
LongFindings(W)     == {Finding("ChainLong", s, Walk(s)) : s \in {t \in W : Len(Walk(t)) > maxChain}}
DanglingFindings(W) == {Finding("Dangling", Last(Walk(s)), <<>>) :
                          s \in {t \in W : ~ResolveTarget(Last(Walk(t)))}}
LoopFindings        == {Finding("Loop", r, roots[r]) : r \in DOMAIN roots}
VisitInv ==
    \E W \in SUBSET DOMAIN g :
        /\ visited = UNION {Range(Walk(s)) : s \in W}
        /\ DOMAIN g \subseteq (W \cup visited) \cup (IF pc = "chains" THEN todo ELSE {})
        /\ DOMAIN found = LongFindings(W) \cup DanglingFindings(W)
                            \cup (IF pc = "done" THEN LoopFindings ELSE {})

\* The roots that loopRoots has found so far.
RootsInv ==
    /\ pc = "chains" => DOMAIN roots = {}
    /\ pc # "chains" => DOMAIN roots = {Last(Walk(s)) : s \in {t \in DOMAIN g \ todo : Loops(t)}}
    /\ pc = "done" => todo = {}

CheckInv == TypeOK /\ VisitInv /\ RootsInv

\* The graph does not change, so neither does what walk makes of it.
LEMMA GraphKept ==
    ASSUME UNCHANGED <<g, others>>
    PROVE  /\ \A s : Walk(s)' = Walk(s)
           /\ \A s : Loops(s)' <=> Loops(s)
           /\ \A s : ResolveTarget(s)' <=> ResolveTarget(s)
  <1>1. ASSUME NEW s PROVE Walk(s)' = Walk(s)
    BY DEF Walk, WalkUpTo, Ends, Cur, SeenBefore
  <1>2. ASSUME NEW s PROVE Loops(s)' <=> Loops(s)
    BY <1>1 DEF Loops, SeenBefore
  <1>3. ASSUME NEW s PROVE ResolveTarget(s)' <=> ResolveTarget(s)
    BY DEF ResolveTarget, Owners
  <1> QED
    BY <1>1, <1>2, <1>3

\* The elements of a sum of bags.
LEMMA BagSum ==
    ASSUME NEW A, NEW B, IsABag(A), IsABag(B)
    PROVE  IsABag(A (+) B) /\ DOMAIN (A (+) B) = DOMAIN A \cup DOMAIN B
  BY DEF IsABag, (+)

\* The bag of a set.
LEMMA BagOfSet ==
    ASSUME NEW S
    PROVE  IsABag(SetToBag(S)) /\ DOMAIN SetToBag(S) = S
  BY DEF IsABag, SetToBag

\* The findings about the chain from one name.
LEMMA FindingsOfOne ==
    ASSUME NEW start
    PROVE  /\ IsABag(ChainFindings(start, Walk(start)))
           /\ DOMAIN ChainFindings(start, Walk(start))
                = LongFindings({start}) \cup DanglingFindings({start})
  <1> DEFINE A == {f \in {Finding("ChainLong", start, Walk(start))} : Len(Walk(start)) > maxChain}
             B == {f \in {Finding("Dangling", Last(Walk(start)), <<>>)} :
                      ~ResolveTarget(Last(Walk(start)))}
  <1>1. A = LongFindings({start})
    BY DEF LongFindings
  <1>2. B = DanglingFindings({start})
    BY DEF DanglingFindings
  <1>3. ChainFindings(start, Walk(start)) = SetToBag(A) (+) SetToBag(B)
    BY DEF ChainFindings
  <1> HIDE DEF A, B
  <1> QED
    BY <1>1, <1>2, <1>3, BagSum, BagOfSet

\* The targets of a chain are targets of links.
LEMMA WalkWithin ==
    ASSUME g \in Graphs, NEW start \in DOMAIN g
    PROVE  /\ Range(Walk(start)) \subseteq Range(g)
           /\ Last(Walk(start)) \in Names
           /\ Last(<<start>> \o Walk(start)) = Last(Walk(start))
  <1> DEFINE w == Walk(start)
  <1>1. Path(start, w) /\ w # <<>>
    BY WalkIsPath
  <1> HIDE DEF w
  <1>2. w \in Seq(Names) /\ Len(w) \in Nat /\ Len(w) >= 1 /\ DOMAIN w = 1..Len(w)
    BY <1>1, EmptySeq, LenProperties DEF Path
  <1>3. ASSUME NEW i \in 1..Len(w) PROVE w[i] \in Range(g)
    <2>1. i - 1 \in 0..(Len(w) - 1) /\ (i - 1) + 1 = i
      BY <1>2
    <2>2. At(start, w, i - 1) \in DOMAIN g /\ w[i] = g[At(start, w, i - 1)]
      BY <1>1, <2>1 DEF Path
    <2> QED
      BY <2>2 DEF Range
  <1>4. Range(w) \subseteq Range(g)
    BY <1>2, <1>3 DEF Range
  <1>5. Last(w) \in Names
    BY <1>2 DEF Last
  <1>6. Last(<<start>> \o w) = Last(w)
    <2>1. <<start>> \in Seq(Names) /\ Len(<<start>>) = 1
      BY DEF Graphs
    <2>2. Len(<<start>> \o w) = 1 + Len(w) /\ (<<start>> \o w)[1 + Len(w)] = w[Len(w)]
      BY <1>2, <2>1
    <2> QED
      BY <2>2 DEF Last
  <1> QED
    BY <1>4, <1>5, <1>6 DEF w

\* Findings, walked names and roots at the beginning.
LEMMA InitCheck == Init => CheckInv
  <1> SUFFICES ASSUME Init PROVE CheckInv
    OBVIOUS
  <1>1. /\ pc = "chains" /\ todo = DOMAIN g /\ visited = {} /\ g \in Graphs /\ others \subseteq Names
        /\ DOMAIN roots = {} /\ IsABag(found) /\ DOMAIN found = {}
    BY BagOfSet DEF Init, EmptyBag
  <1>2. TypeOK
    BY <1>1 DEF TypeOK
  <1>3. VisitInv
    <2>1. LongFindings({}) = {} /\ DanglingFindings({}) = {}
      BY DEF LongFindings, DanglingFindings
    <2>2. visited = UNION {Range(Walk(s)) : s \in {}}
      BY <1>1
    <2> QED
      BY <1>1, <2>1, <2>2 DEF VisitInv
  <1>4. RootsInv
    BY <1>1 DEF RootsInv
  <1> QED
    BY <1>2, <1>3, <1>4 DEF CheckInv

\* One iteration of the first loop.
LEMMA VisitStep ==
    ASSUME CheckInv, NEW start \in Names, Visit(start)
    PROVE  CheckInv'
  <1>0. /\ g \in Graphs /\ start \in DOMAIN g /\ pc = "chains" /\ TypeOK
        /\ UNCHANGED <<g, others, pc, roots>> /\ todo' = todo \ {start}
    BY DEF CheckInv, TypeOK, Visit
  <1>1. PICK W \in SUBSET DOMAIN g :
           /\ visited = UNION {Range(Walk(s)) : s \in W}
           /\ DOMAIN g \subseteq (W \cup visited) \cup todo
           /\ DOMAIN found = LongFindings(W) \cup DanglingFindings(W)
    BY <1>0 DEF CheckInv, VisitInv
  <1>2. /\ \A s : Walk(s)' = Walk(s)
        /\ \A V \in SUBSET DOMAIN g : /\ LongFindings(V)' = LongFindings(V)
                                      /\ DanglingFindings(V)' = DanglingFindings(V)
    BY <1>0, GraphKept DEF LongFindings, DanglingFindings
  <1>3. RootsInv'
    BY <1>0 DEF CheckInv, RootsInv
  <1>4. CASE start \in visited
    <2>1. UNCHANGED <<visited, found>>
      BY <1>4 DEF Visit
    <2>2. TypeOK'
      BY <1>0, <2>1 DEF TypeOK
    <2>3. /\ visited' = UNION {Range(Walk(s)') : s \in W}
          /\ DOMAIN g' \subseteq (W \cup visited') \cup todo'
          /\ DOMAIN found' = LongFindings(W)' \cup DanglingFindings(W)'
      BY <1>0, <1>1, <1>2, <1>4, <2>1
    <2>4. VisitInv'
      BY <1>0, <2>3 DEF VisitInv
    <2> QED
      BY <1>3, <2>2, <2>4 DEF CheckInv
  <1>5. CASE start \notin visited
    <2> DEFINE V == W \cup {start}
    <2>1. /\ visited' = visited \cup Range(Walk(start))
          /\ found' = found (+) ChainFindings(start, Walk(start))
      BY <1>5 DEF Visit
    <2>2. /\ IsABag(found')
          /\ DOMAIN found' = DOMAIN found \cup LongFindings({start}) \cup DanglingFindings({start})
      <3>1. IsABag(found) /\ IsABag(ChainFindings(start, Walk(start)))
        BY <1>0, FindingsOfOne DEF TypeOK
      <3>2. /\ IsABag(found')
            /\ DOMAIN found' = DOMAIN found \cup DOMAIN ChainFindings(start, Walk(start))
        BY <2>1, <3>1, BagSum
      <3> QED
        BY <3>2, FindingsOfOne
    <2>3. TypeOK'
      BY <1>0, <2>1, <2>2, WalkWithin DEF TypeOK
    <2>4. V \in SUBSET DOMAIN g
      BY <1>0
    <2>5. visited' = UNION {Range(Walk(s)) : s \in V}
      BY <1>1, <2>1
    <2>6. DOMAIN g \subseteq (V \cup visited') \cup todo'
      BY <1>0, <1>1, <2>1
    <2>7. /\ LongFindings(V) = LongFindings(W) \cup LongFindings({start})
          /\ DanglingFindings(V) = DanglingFindings(W) \cup DanglingFindings({start})
      BY DEF LongFindings, DanglingFindings
    <2>8. DOMAIN found' = LongFindings(V) \cup DanglingFindings(V)
      BY <1>1, <2>2, <2>7
    <2> HIDE DEF V
    <2>9. VisitInv'
      BY <1>0, <1>2, <2>4, <2>5, <2>6, <2>8 DEF VisitInv
    <2> QED
      BY <1>3, <2>3, <2>9 DEF CheckInv
  <1> QED
    BY <1>4, <1>5

\* The other steps keep the names that were walked.
LEMMA WalkedKept ==
    ASSUME UNCHANGED <<g, others, visited, found>>, VisitInv, pc' # "done",
           pc = "chains" => todo = {}, pc # "done"
    PROVE  VisitInv'
  <1>1. PICK W \in SUBSET DOMAIN g :
           /\ visited = UNION {Range(Walk(s)) : s \in W}
           /\ DOMAIN g \subseteq W \cup visited
           /\ DOMAIN found = LongFindings(W) \cup DanglingFindings(W)
    BY DEF VisitInv
  <1>2. /\ \A s : Walk(s)' = Walk(s)
        /\ LongFindings(W)' = LongFindings(W) /\ DanglingFindings(W)' = DanglingFindings(W)
    BY GraphKept DEF LongFindings, DanglingFindings
  <1> QED
    BY <1>1, <1>2 DEF VisitInv

\* The call of loopRoots, and one iteration of it.
LEMMA LoopSteps ==
    ASSUME CheckInv, LoopRoots \/ \E start \in Names : FindLoop(start)
    PROVE  CheckInv'
  <1>0. TypeOK /\ g \in Graphs /\ VisitInv /\ RootsInv
    BY DEF CheckInv, TypeOK
  <1>1. CASE LoopRoots
    <2>1. /\ pc = "chains" /\ todo = {} /\ pc' = "loops" /\ todo' = DOMAIN g
          /\ UNCHANGED <<g, others, visited, roots, found>>
      BY <1>1 DEF LoopRoots
    <2>2. TypeOK'
      BY <1>0, <2>1 DEF TypeOK
    <2>3. VisitInv'
      BY <1>0, <2>1, WalkedKept
    <2>4. RootsInv'
      BY <1>0, <2>1 DEF RootsInv
    <2> QED
      BY <2>2, <2>3, <2>4 DEF CheckInv
  <1>2. ASSUME NEW start \in Names, FindLoop(start) PROVE CheckInv'
    <2> DEFINE path == <<start>> \o Walk(start)
    <2>1. /\ pc = "loops" /\ pc' = "loops" /\ todo' = todo \ {start} /\ start \in todo
          /\ UNCHANGED <<g, others, visited, found>>
      BY <1>2 DEF FindLoop
    <2>2. start \in DOMAIN g
      BY <1>0, <2>1 DEF TypeOK
    <2>3. Last(path) = Last(Walk(start)) /\ Last(Walk(start)) \in Names
      BY <1>0, <2>2, WalkWithin
    <2> HIDE DEF path
    <2>4. DOMAIN roots' = DOMAIN roots \cup {n \in {Last(Walk(start))} : Loops(start)}
      BY <1>2, <2>3 DEF FindLoop, path
    <2>5. TypeOK'
      BY <1>0, <2>1, <2>3, <2>4 DEF TypeOK
    <2>6. VisitInv'
      BY <1>0, <2>1, WalkedKept
    <2>7. DOMAIN roots' = {Last(Walk(s)) : s \in {t \in DOMAIN g \ (todo \ {start}) : Loops(t)}}
      BY <1>0, <2>1, <2>2, <2>4 DEF RootsInv
    <2>8. RootsInv'
      BY <2>1, <2>7, GraphKept DEF RootsInv
    <2> QED
      BY <2>5, <2>6, <2>8 DEF CheckInv
  <1> QED
    BY <1>1, <1>2

\* The last loop of Check.
LEMMA ReportStep ==
    ASSUME CheckInv, ReportLoops
    PROVE  CheckInv'
  <1>1. /\ pc = "loops" /\ todo = {} /\ pc' = "done"
        /\ found' = found (+) SetToBag(LoopFindings)
        /\ UNCHANGED <<g, others, todo, visited, roots>>
    BY DEF ReportLoops, LoopFindings
  <1>2. PICK W \in SUBSET DOMAIN g :
           /\ visited = UNION {Range(Walk(s)) : s \in W}
           /\ DOMAIN g \subseteq W \cup visited
           /\ DOMAIN found = LongFindings(W) \cup DanglingFindings(W)
    BY <1>1 DEF CheckInv, VisitInv
  <1>3. /\ \A s : Walk(s)' = Walk(s)
        /\ LongFindings(W)' = LongFindings(W) /\ DanglingFindings(W)' = DanglingFindings(W)
        /\ LoopFindings' = LoopFindings
    BY <1>1, GraphKept DEF LongFindings, DanglingFindings, LoopFindings
  <1>4. IsABag(found') /\ DOMAIN found' = DOMAIN found \cup LoopFindings
    <2>1. IsABag(found)
      BY DEF CheckInv, TypeOK
    <2>2. IsABag(SetToBag(LoopFindings)) /\ DOMAIN SetToBag(LoopFindings) = LoopFindings
      BY BagOfSet
    <2> QED
      BY <1>1, <2>1, <2>2, BagSum
  <1>5. TypeOK'
    BY <1>1, <1>4 DEF CheckInv, TypeOK
  <1>6. VisitInv'
    BY <1>1, <1>2, <1>3, <1>4 DEF VisitInv
  <1>7. RootsInv'
    BY <1>1, GraphKept DEF CheckInv, RootsInv
  <1> QED
    BY <1>5, <1>6, <1>7 DEF CheckInv

\* A step that changes nothing.
LEMMA NoStep ==
    ASSUME CheckInv, UNCHANGED vars
    PROVE  CheckInv'
  <1>1. UNCHANGED <<g, others, pc, todo, visited, roots, found>>
    BY DEF vars
  <1>2. TypeOK'
    BY <1>1 DEF CheckInv, TypeOK
  <1>3. VisitInv'
    <2>1. PICK W \in SUBSET DOMAIN g :
             /\ visited = UNION {Range(Walk(s)) : s \in W}
             /\ DOMAIN g \subseteq (W \cup visited) \cup (IF pc = "chains" THEN todo ELSE {})
             /\ DOMAIN found = LongFindings(W) \cup DanglingFindings(W)
                                 \cup (IF pc = "done" THEN LoopFindings ELSE {})
      BY DEF CheckInv, VisitInv
    <2>2. /\ \A s : Walk(s)' = Walk(s)
          /\ LongFindings(W)' = LongFindings(W) /\ DanglingFindings(W)' = DanglingFindings(W)
          /\ LoopFindings' = LoopFindings
      BY <1>1, GraphKept DEF LongFindings, DanglingFindings, LoopFindings
    <2> QED
      BY <1>1, <2>1, <2>2 DEF VisitInv
  <1>4. RootsInv'
    BY <1>1, GraphKept DEF CheckInv, RootsInv
  <1> QED
    BY <1>2, <1>3, <1>4 DEF CheckInv

-----------------------------------------------------------------------------
(* What the invariant says of a finished run *)

\* The subjects of the findings.
LEMMA SubjectsAtEnd ==
    ASSUME CheckInv, pc = "done"
    PROVE  /\ g \in Graphs
           /\ Subjects("Loop") = {Last(Walk(s)) : s \in {t \in DOMAIN g : Loops(t)}}
           /\ \E W \in SUBSET DOMAIN g :
                 /\ DOMAIN g \subseteq W \cup UNION {Range(Walk(s)) : s \in W}
                 /\ Subjects("ChainLong") = {s \in W : Len(Walk(s)) > maxChain}
                 /\ Subjects("Dangling") =
                       {Last(Walk(s)) : s \in {t \in W : ~ResolveTarget(Last(Walk(t)))}}
  <1>0. \A id, subject, evidence : Finding(id, subject, evidence).subject = subject
    BY DEF Finding
  <1>1. PICK W \in SUBSET DOMAIN g :
           /\ visited = UNION {Range(Walk(s)) : s \in W}
           /\ DOMAIN g \subseteq W \cup visited
           /\ DOMAIN found = LongFindings(W) \cup DanglingFindings(W) \cup LoopFindings
    BY DEF CheckInv, VisitInv
  <1>2. /\ \A f \in LongFindings(W) : f.id = "ChainLong"
        /\ \A f \in DanglingFindings(W) : f.id = "Dangling"
        /\ \A f \in LoopFindings : f.id = "Loop"
    BY DEF LongFindings, DanglingFindings, LoopFindings, Finding
  <1>3. /\ {f \in DOMAIN found : f.id = "ChainLong"} = LongFindings(W)
        /\ {f \in DOMAIN found : f.id = "Dangling"} = DanglingFindings(W)
        /\ {f \in DOMAIN found : f.id = "Loop"} = LoopFindings
    BY <1>1, <1>2
  <1>4. Subjects("ChainLong") = {s \in W : Len(Walk(s)) > maxChain}
    <2>1. Subjects("ChainLong") = {f.subject : f \in LongFindings(W)}
      BY <1>3 DEF Subjects, BagToSet
    <2> QED
      BY <1>0, <2>1 DEF LongFindings
  <1>5. Subjects("Dangling") = {Last(Walk(s)) : s \in {t \in W : ~ResolveTarget(Last(Walk(t)))}}
    <2>1. Subjects("Dangling") = {f.subject : f \in DanglingFindings(W)}
      BY <1>3 DEF Subjects, BagToSet
    <2> QED
      BY <1>0, <2>1 DEF DanglingFindings
  <1>6. Subjects("Loop") = DOMAIN roots
    <2>1. Subjects("Loop") = {f.subject : f \in LoopFindings}
      BY <1>3 DEF Subjects, BagToSet
    <2> QED
      BY <1>0, <2>1 DEF LoopFindings
  <1>7. DOMAIN roots = {Last(Walk(s)) : s \in {t \in DOMAIN g : Loops(t)}} /\ g \in Graphs
    BY DEF CheckInv, RootsInv, TypeOK
  <1> QED
    BY <1>1, <1>4, <1>5, <1>6, <1>7

\* No dangling target is lost because a name was skipped, and none invented.
LEMMA DanglingAtEnd ==
    ASSUME CheckInv, Cardinality(DOMAIN g) <= SafetyCap
    PROVE  DanglingExact
  <1> SUFFICES ASSUME pc = "done"
               PROVE  Subjects("Dangling") =
                        {m \in UNION {Behind(n) : n \in DOMAIN g} :
                            m \notin DOMAIN g /\ ~ResolveTarget(m)}
    BY DEF DanglingExact
  <1>1. g \in Graphs
    BY SubjectsAtEnd
  <1>2. PICK W \in SUBSET DOMAIN g :
           /\ DOMAIN g \subseteq W \cup UNION {Range(Walk(s)) : s \in W}
           /\ Subjects("Dangling") =
                 {Last(Walk(s)) : s \in {t \in W : ~ResolveTarget(Last(Walk(t)))}}
    BY SubjectsAtEnd
  <1>3. ASSUME NEW s \in W
        PROVE  /\ Last(Walk(s)) \in Behind(s)
               /\ \A m \in Behind(s) : m \notin DOMAIN g => m = Last(Walk(s))
    <2> DEFINE w == Walk(s)
    <2>1. /\ w \in Seq(Names) /\ Len(w) \in Nat /\ Len(w) >= 1
          /\ \A i \in 1..(Len(w) - 1) : w[i] \in DOMAIN g
          /\ Last(w) = w[Len(w)]
      BY <1>1, WalkFacts
    <2>2. Behind(s) = {w[i] : i \in 1..Len(w)}
      BY <1>1, <2>1, WalkIsBehind DEF Range
    <2> HIDE DEF w
    <2>3. Len(w) \in 1..Len(w) /\ \A i \in 1..Len(w) : i = Len(w) \/ i \in 1..(Len(w) - 1)
      BY <2>1
    <2> QED
      BY <2>1, <2>2, <2>3 DEF w
  <1>4. ASSUME NEW s \in W, ~ResolveTarget(Last(Walk(s)))
        PROVE  /\ Last(Walk(s)) \in UNION {Behind(n) : n \in DOMAIN g}
               /\ Last(Walk(s)) \notin DOMAIN g
    BY <1>3, <1>4 DEF ResolveTarget, Owners
  <1>5. ASSUME NEW n \in DOMAIN g, NEW m \in Behind(n), m \notin DOMAIN g
        PROVE  \E s \in W : m = Last(Walk(s))
    <2>1. CASE n \in W
      BY <1>3, <1>5, <2>1
    <2>2. CASE n \notin W
      <3>1. PICK s \in W : n \in Range(Walk(s))
        BY <1>2, <2>2
      <3>2. n \in Behind(s)
        BY <1>1, <3>1, WalkIsBehind
      <3>3. m \in Behind(s)
        BY <1>1, <3>2, BehindClosed
      <3> QED
        BY <1>3, <1>5, <3>3
    <2> QED
      BY <2>1, <2>2
  <1> QED
    BY <1>2, <1>4, <1>5

\* Nor is a long chain lost for that reason.
LEMMA LongAtEnd ==
    ASSUME CheckInv, Cardinality(DOMAIN g) <= SafetyCap
    PROVE  LongChainsCovered
  <1> DEFINE long == {n \in DOMAIN g : Links(n) > maxChain}
  <1> SUFFICES ASSUME pc = "done"
               PROVE  /\ Subjects("ChainLong") \subseteq long
                      /\ \A n \in long : \E m \in Subjects("ChainLong") : m = n \/ n \in Behind(m)
    BY DEF LongChainsCovered, Links
  <1>1. g \in Graphs /\ maxChain \in Nat
    BY SubjectsAtEnd, MaxChainAssumption DEF maxChain
  <1>2. PICK W \in SUBSET DOMAIN g :
           /\ DOMAIN g \subseteq W \cup UNION {Range(Walk(s)) : s \in W}
           /\ Subjects("ChainLong") = {s \in W : Len(Walk(s)) > maxChain}
    BY SubjectsAtEnd
  <1>3. \A s \in W : Len(Walk(s)) = Links(s)
    BY <1>1, HopsAreLinks
  <1>4. Subjects("ChainLong") \subseteq long
    BY <1>2, <1>3
  <1>5. ASSUME NEW n \in long
        PROVE  \E m \in Subjects("ChainLong") : m = n \/ n \in Behind(m)
    <2>1. CASE n \in W
      BY <1>2, <1>3, <2>1
    <2>2. CASE n \notin W
      <3>1. PICK s \in W : n \in Range(Walk(s))
        BY <1>2, <2>2
      <3>2. n \in Behind(s) /\ n \in DOMAIN g
        BY <1>1, <3>1, WalkIsBehind
      <3>3. Links(n) \in Nat /\ Links(s) \in Nat /\ Links(n) <= Links(s)
        BY <1>1, <3>2, LinksGrow
      <3>4. Len(Walk(s)) > maxChain
        BY <1>1, <1>3, <3>3
      <3> QED
        BY <1>2, <3>2, <3>4
    <2> QED
      BY <2>1, <2>2
  <1> QED
    BY <1>4, <1>5

-----------------------------------------------------------------------------
(* The theorems *)

\* The invariant holds in every run, in whichever order the maps are walked.
LEMMA CheckInvariance == Spec => []CheckInv
  <1>1. CheckInv /\ [Next]_vars => CheckInv'
    BY VisitStep, LoopSteps, ReportStep, NoStep DEF Next
  <1> QED
    BY <1>1, InitCheck, PTL DEF Spec

\* Check marks only targets as visited, files loops under names, and the
\* findings form a bag: for graphs of any size.
THEOREM CnameTypes == Spec => []TypeOK
  <1>1. CheckInv => TypeOK
    BY DEF CheckInv
  <1> QED
    BY <1>1, CheckInvariance, PTL

\* In a graph with no more names than the safety cap of walk, exactly the
\* names on a loop are reported as such, in whichever order the maps are
\* walked.
THEOREM LoopsReported == Spec => [](Cardinality(DOMAIN g) <= SafetyCap => LoopsExact)
  <1>1. CheckInv => (Cardinality(DOMAIN g) <= SafetyCap => LoopsExact)
    BY SubjectsAtEnd, LoopsAreCycles DEF LoopsExact
  <1> QED
    BY <1>1, CheckInvariance, PTL

\* In such a graph exactly the ends of chains that do not resolve are reported
\* as dangling.
THEOREM DanglingReported == Spec => [](Cardinality(DOMAIN g) <= SafetyCap => DanglingExact)
  <1>1. CheckInv => (Cardinality(DOMAIN g) <= SafetyCap => DanglingExact)
    BY DanglingAtEnd
  <1> QED
    BY <1>1, CheckInvariance, PTL

\* In such a graph a chain that is too long is reported for its start or for a
\* name that leads there, and only chains that are too long are.
THEOREM LongChainsReported ==
    Spec => [](Cardinality(DOMAIN g) <= SafetyCap => LongChainsCovered)
  <1>1. CheckInv => (Cardinality(DOMAIN g) <= SafetyCap => LongChainsCovered)
    BY LongAtEnd
  <1> QED
    BY <1>1, CheckInvariance, PTL
=============================================================================
