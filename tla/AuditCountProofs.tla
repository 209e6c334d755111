-------------------------- MODULE AuditCountProofs --------------------------
(***************************************************************************)
(* Proofs about AuditRun for every set of scenes: types, the budget, and   *)
(* the number of calls that a run makes and reports.                       *)
(***************************************************************************)
EXTENDS AuditRunProofs, SequenceTheorems

ApexSet == {"A", "AAAA", "MX", "CNAME", "TXT", "CAA"}
N     == Len(scene.ns)
Ahead == Len(todo)
Scans == IF scene.active THEN N ELSE 0

\* k can be the number of probes that were made, once they are over.
Probes(k) == k \in Int /\ k <= N

\* A loop over the name servers with something left to do.
ServerLoop == todo \in Seq(STRING) /\ 1 <= Ahead /\ Ahead <= N

\* Calls up to the probes, ...
EarlyCount ==
    /\ pc = "ns" => queries = 0
    /\ pc = "any" => queries = 1
    /\ pc = "apex" => todo \in Seq(ApexSet) /\ 1 <= Ahead /\ queries = 8 - Ahead
    /\ pc = "addresses" => todo \in Seq(Hosts \X {"A", "AAAA"}) /\ 1 <= Ahead
                             /\ queries = 8 + 2 * N - Ahead
    /\ pc = "child" => queries = 8 + 2 * N
    /\ pc = "probe" =>
          /\ ServerLoop
          /\ queries = 9 + 2 * N + N - Ahead
\* ... up to the end, ...
LateCount ==
    /\ pc \in {"records", "dnskey"} => Probes(queries - (9 + 2 * N))
    /\ pc = "ds" => Probes(queries - (10 + 2 * N))
    /\ pc = "random" => Probes(queries - (11 + 2 * N))
    /\ pc = "dnssec" => Probes(queries - (12 + 2 * N))
    /\ pc = "axfr" => ServerLoop /\ scene.active /\ Probes(queries - (12 + 3 * N - Ahead))
    /\ pc = "wildcard" => Probes(queries - (12 + 2 * N + Scans))
    /\ pc = "recursion" => ServerLoop /\ scene.active /\ Probes(queries - (13 + 4 * N - Ahead))
    /\ pc = "report" => Probes(queries - (13 + 2 * N + 2 * Scans))
\* ... and at the end.
FinalCount ==
    pc = "done" /\ "GeneralError" \notin Ids =>
        reported = queries /\ Probes(queries - (13 + 2 * N + 2 * Scans))

CountInv == queries \in Nat /\ EarlyCount /\ LateCount /\ FinalCount

-----------------------------------------------------------------------------
(* The count *)

\* A call counts once.
LEMMA CallCount ==
    ASSUME NEW server, NEW ok \in BOOLEAN, Call(server, ok)
    PROVE  queries' = queries + 1
  BY DEF Call

\* The number of probes is settled when they are over.
LEMMA ProbesKept ==
    ASSUME UNCHANGED scene, NEW k, Probes(k)
    PROVE  k \in Int /\ k <= N'
  BY DEF Probes, N

\* One element less to work on.
LEMMA TailCount ==
    ASSUME NEW S, NEW s \in Seq(S), 1 <= Len(s)
    PROVE  /\ Tail(s) \in Seq(S) /\ Len(s) \in Nat
           /\ Len(Tail(s)) = Len(s) - 1
           /\ Tail(s) = <<>> => Len(s) = 1
           /\ Tail(s) # <<>> => 2 <= Len(s)
  <1>1. s # <<>> /\ Len(s) \in Nat
    BY LenProperties, EmptySeq
  <1>2. Tail(s) \in Seq(S) /\ Len(Tail(s)) = Len(s) - 1
    BY <1>1, HeadTailProperties
  <1>3. Tail(s) = <<>> => Len(Tail(s)) = 0
    BY EmptySeq
  <1>4. Tail(s) # <<>> => Len(Tail(s)) \in Nat \ {0}
    BY <1>2, EmptySeq
  <1> QED
    BY <1>1, <1>2, <1>3, <1>4

\* The number of name servers, and of calls that an active scan adds.
LEMMA Servers ==
    ASSUME SceneInv
    PROVE  /\ N \in Nat /\ scene.ns \in Seq(STRING)
           /\ scene.ns # <<>> <=> 1 <= N
           /\ Scans \in Nat
  BY DEF SceneInv, N, Scans

\* Two address queries per name server.
LEMMA AddressCount ==
    ASSUME SceneInv
    PROVE  Len(AddressQueries) = 2 * N
  <1>1. 2 * N \in Nat
    BY Servers
  <1> QED
    BY <1>1 DEF AddressQueries, N

\* The arithmetic of the loops.
LEMMA LoopArithmetic ==
    ASSUME NEW q \in Int, NEW n \in Int, NEW l \in Int
    PROVE  /\ q = 8 + 2 * n - l => q + 1 = 8 + 2 * n - (l - 1)
           /\ q = 9 + 2 * n + n - l => q + 1 = 9 + 2 * n + n - (l - 1)
           /\ q = 9 + 2 * n + n - l => (q + 1) - (9 + 2 * n) = n - l + 1
  OBVIOUS

\* The arithmetic of the transfers and the recursion probes.
LEMMA ScanArithmetic ==
    ASSUME NEW q \in Int, NEW n \in Int, NEW l \in Int
    PROVE  /\ q - (12 + 3 * n - n) = q - (12 + 2 * n)
           /\ q - (12 + 2 * n + 0) = q - (12 + 2 * n)
           /\ (q + 1) - (12 + 3 * n - (l - 1)) = q - (12 + 3 * n - l)
           /\ l = 1 => (q + 1) - (12 + 2 * n + n) = q - (12 + 3 * n - l)
           /\ (q + 1) - (13 + 4 * n - n) = q - (12 + 2 * n + n)
           /\ (q + 1) - (13 + 2 * n + 2 * 0) = q - (12 + 2 * n + 0)
           /\ (q + 1) - (13 + 4 * n - (l - 1)) = q - (13 + 4 * n - l)
           /\ l = 1 => (q + 1) - (13 + 2 * n + 2 * n) = q - (13 + 4 * n - l)
  OBVIOUS

\* A run that has not begun has made no call.
LEMMA InitCount == Init => CountInv
  BY DEF Init, CountInv, EarlyCount, LateCount, FinalCount

\* Every step adds to the count what its place in the pipeline calls for.
LEMMA StepCount ==
    ASSUME IInv, CountInv, [Next]_vars
    PROVE  CountInv'
  <1> USE DEF Goto, Ask
  <1>0. SceneInv /\ queries \in Nat
    BY DEF IInv, CountInv
  <1>1. ASSUME NEW ok \in BOOLEAN, QueryNS(ok) PROVE CountInv'
    <2>1. /\ pc = "ns" /\ queries' = queries + 1
          /\ pc' # "any" => pc' = "done" /\ found' = {F("GeneralError", "zone")}
      BY <1>1, CallCount DEF QueryNS
    <2>2. pc' = "done" => "GeneralError" \in Ids'
      BY <2>1 DEF Ids, F
    <2> QED
      BY <1>0, <2>1, <2>2 DEF CountInv, EarlyCount, LateCount, FinalCount
  <1>2. ASSUME NEW ok \in BOOLEAN, QueryANY(ok) PROVE CountInv'
    <2>1. pc = "any" /\ queries' = queries + 1 /\ pc' = "apex" /\ todo' = ApexTypes
      BY <1>2, CallCount DEF QueryANY
    <2>2. ApexTypes \in Seq(ApexSet)
      BY DEF ApexTypes, ApexSet
    <2>3. Len(ApexTypes) = 6
      BY DEF ApexTypes
    <2> QED
      BY <1>0, <2>1, <2>2, <2>3 DEF CountInv, EarlyCount, LateCount, FinalCount, Ahead
  <1>3. ASSUME NEW ok \in BOOLEAN, QueryApex(ok) PROVE CountInv'
    <2>1. /\ pc = "apex" /\ queries' = queries + 1 /\ UNCHANGED scene
          /\ \/ pc' = "apex" /\ Tail(todo) # <<>> /\ todo' = Tail(todo)
             \/ pc' = "addresses" /\ Tail(todo) = <<>> /\ scene.ns # <<>> /\ todo' = AddressQueries
             \/ pc' = "child" /\ Tail(todo) = <<>> /\ scene.ns = <<>>
      BY <1>3, CallCount DEF QueryApex
    <2>2. todo \in Seq(ApexSet) /\ 1 <= Len(todo) /\ queries = 8 - Len(todo)
      BY <2>1 DEF CountInv, EarlyCount, Ahead
    <2>3. /\ Tail(todo) \in Seq(ApexSet) /\ Len(todo) \in Nat
          /\ Len(Tail(todo)) = Len(todo) - 1
          /\ Tail(todo) = <<>> => Len(todo) = 1
          /\ Tail(todo) # <<>> => 2 <= Len(todo)
      BY <2>2, TailCount
    <2>4. N' = N /\ Hosts' = Hosts
      BY <2>1 DEF N, Hosts
    <2>5. CASE pc' = "apex"
      <3>1. /\ todo' \in Seq(ApexSet) /\ 1 <= Len(todo') /\ queries' = 8 - Len(todo')
            /\ queries' \in Nat
        BY <1>0, <2>1, <2>2, <2>3, <2>5
      <3> QED
        BY <2>5, <3>1 DEF CountInv, EarlyCount, LateCount, FinalCount, Ahead
    <2>6. CASE pc' = "addresses"
      <3>1. /\ AddressQueries \in Seq(Hosts \X {"A", "AAAA"}) /\ Len(AddressQueries) = 2 * N
            /\ todo' = AddressQueries /\ queries' = 8 /\ 1 <= N /\ N \in Nat
        BY <1>0, <2>1, <2>2, <2>3, <2>6, AddressQueriesOK, AddressCount, Servers
      <3> QED
        BY <2>4, <2>6, <3>1 DEF CountInv, EarlyCount, LateCount, FinalCount, Ahead
    <2>7. CASE pc' = "child"
      <3>1. queries' = 8 /\ N = 0
        BY <1>0, <2>1, <2>2, <2>3, <2>7, Servers
      <3> QED
        BY <2>4, <2>7, <3>1 DEF CountInv, EarlyCount, LateCount, FinalCount
    <2> QED
      BY <2>1, <2>5, <2>6, <2>7
  <1>4. ASSUME NEW ok \in BOOLEAN, QueryAddress(ok) PROVE CountInv'
    <2>1. /\ pc = "addresses" /\ queries' = queries + 1 /\ UNCHANGED scene
          /\ pc' # "addresses" => pc' = "child" /\ Tail(todo) = <<>>
          /\ pc' = "addresses" => Tail(todo) # <<>> /\ todo' = Tail(todo)
      BY <1>4, CallCount DEF QueryAddress
    <2>2. todo \in Seq(Hosts \X {"A", "AAAA"}) /\ 1 <= Len(todo)
      BY <2>1 DEF CountInv, EarlyCount, Ahead
    <2>3. queries = 8 + 2 * N - Len(todo)
      BY <2>1 DEF CountInv, EarlyCount, Ahead
    <2>4. /\ Tail(todo) \in Seq(Hosts \X {"A", "AAAA"}) /\ Len(todo) \in Nat
          /\ Len(Tail(todo)) = Len(todo) - 1
          /\ Tail(todo) = <<>> => Len(todo) = 1
          /\ Tail(todo) # <<>> => 2 <= Len(todo)
      BY <2>2, TailCount
    <2>5. N' = N /\ Hosts' = Hosts /\ N \in Nat /\ queries' \in Nat
      BY <1>0, <2>1, Servers DEF N, Hosts
    <2>6. queries + 1 = 8 + 2 * N - (Len(todo) - 1)
      BY <1>0, <2>3, <2>4, <2>5, LoopArithmetic
    <2>7. CASE pc' = "addresses"
      <3>1. todo' = Tail(todo) /\ 1 <= Len(Tail(todo))
        BY <2>1, <2>4, <2>7
      <3>2. todo' \in Seq(Hosts \X {"A", "AAAA"}) /\ Len(todo') = Len(todo) - 1 /\ 1 <= Len(todo')
        BY <2>4, <3>1
      <3>3. queries' = 8 + 2 * N - Len(todo')
        BY <2>1, <2>6, <3>2
      <3> QED
        BY <2>5, <2>7, <3>2, <3>3 DEF CountInv, EarlyCount, LateCount, FinalCount, Ahead
    <2>8. CASE pc' # "addresses"
      <3>1. queries' = 8 + 2 * N /\ pc' = "child"
        BY <2>1, <2>4, <2>5, <2>6, <2>8
      <3> QED
        BY <2>5, <3>1 DEF CountInv, EarlyCount, LateCount, FinalCount
    <2> QED
      BY <2>7, <2>8
  <1>5. ASSUME NEW ok \in BOOLEAN, QueryChild(ok) PROVE CountInv'
    <2>1. /\ pc = "child" /\ queries' = queries + 1 /\ UNCHANGED scene
          /\ \/ pc' = "probe" /\ todo' = scene.ns /\ scene.ns # <<>> /\ ~scene.recursive
             \/ pc' = "records" /\ (scene.recursive \/ scene.ns = <<>>)
      BY <1>5, CallCount DEF QueryChild
    <2>2. queries' = 9 + 2 * N /\ N' = N /\ N \in Nat
      BY <1>0, <2>1, Servers DEF CountInv, EarlyCount, N
    <2>3. CASE pc' = "probe"
      BY <1>0, <2>1, <2>2, <2>3, Servers
      DEF CountInv, EarlyCount, LateCount, FinalCount, ServerLoop, Ahead, N
    <2>4. CASE pc' = "records"
      <3>1. Probes(0)'
        BY <2>2 DEF Probes
      <3>2. queries' - (9 + 2 * N') = 0
        BY <2>2
      <3> QED
        BY <2>2, <2>4, <3>1, <3>2 DEF CountInv, EarlyCount, LateCount, FinalCount
    <2> QED
      BY <2>1, <2>3, <2>4
  <1>6. ASSUME NEW ok \in BOOLEAN, Probe(ok) PROVE CountInv'
    <2>1. /\ pc = "probe" /\ queries' = queries + 1 /\ UNCHANGED scene
          /\ pc' # "probe" => pc' = "records" /\ (ok \/ Tail(todo) = <<>>)
          /\ pc' = "probe" => todo' = Tail(todo) /\ Tail(todo) # <<>> /\ ~ok
      BY <1>6, CallCount DEF Probe
    <2>2. todo \in Seq(STRING) /\ 1 <= Len(todo) /\ Len(todo) <= N
      BY <2>1 DEF CountInv, EarlyCount, ServerLoop, Ahead
    <2>3. queries = 9 + 2 * N + N - Len(todo)
      BY <2>1 DEF CountInv, EarlyCount, Ahead
    <2>4. /\ Tail(todo) \in Seq(STRING) /\ Len(todo) \in Nat
          /\ Len(Tail(todo)) = Len(todo) - 1
          /\ Tail(todo) # <<>> => 2 <= Len(todo)
      BY <2>2, TailCount
    <2>5. N' = N /\ N \in Nat /\ queries' \in Nat
      BY <1>0, <2>1, Servers DEF N
    <2>6. /\ queries + 1 = 9 + 2 * N + N - (Len(todo) - 1)
          /\ (queries + 1) - (9 + 2 * N) = N - Len(todo) + 1
      BY <1>0, <2>3, <2>4, <2>5, LoopArithmetic
    <2>7. CASE pc' = "probe"
      <3>1. todo' = Tail(todo) /\ 1 <= Len(Tail(todo))
        BY <2>1, <2>4, <2>7
      <3>2. todo' \in Seq(STRING) /\ Len(todo') = Len(todo) - 1 /\ 1 <= Len(todo')
        BY <2>4, <3>1
      <3>3. Len(todo') <= N
        BY <2>2, <2>4, <2>5, <3>2
      <3>4. queries' = 9 + 2 * N + N - Len(todo')
        BY <2>1, <2>6, <3>2
      <3> QED
        BY <2>5, <2>7, <3>2, <3>3, <3>4
        DEF CountInv, EarlyCount, LateCount, FinalCount, ServerLoop, Ahead
    <2>8. CASE pc' # "probe"
      <3>1. queries' - (9 + 2 * N') = N - Len(todo) + 1
        BY <2>1, <2>5, <2>6
      <3>2. N - Len(todo) + 1 \in Int /\ N - Len(todo) + 1 <= N
        BY <2>2, <2>4, <2>5
      <3>3. Probes(queries - (9 + 2 * N))'
        BY <2>5, <3>1, <3>2 DEF Probes
      <3> QED
        BY <2>1, <2>5, <2>8, <3>3 DEF CountInv, EarlyCount, LateCount, FinalCount
    <2> QED
      BY <2>7, <2>8
  <1>7. ASSUME CheckRecords PROVE CountInv'
    <2>1. /\ pc = "records" /\ pc' = "dnskey" /\ UNCHANGED <<queries, lost, scene>>
      BY <1>7 DEF CheckRecords
    <2>2. Probes(queries - (9 + 2 * N))'
      BY <2>1 DEF CountInv, LateCount, Probes, N
    <2> QED
      BY <2>1, <2>2 DEF CountInv, EarlyCount, LateCount, FinalCount
  <1>8. ASSUME NEW ok \in BOOLEAN, QueryDNSKEY(ok) PROVE CountInv'
    <2>1. /\ pc = "dnskey" /\ pc' = "ds" /\ queries' = queries + 1 /\ UNCHANGED scene
      BY <1>8, CallCount DEF QueryDNSKEY
    <2>2. Probes(queries - (9 + 2 * N)) /\ N \in Nat
      BY <1>0, <2>1, Servers DEF CountInv, LateCount
    <2>3. queries' - (10 + 2 * N') = queries - (9 + 2 * N) /\ queries' \in Nat
      BY <1>0, <2>1, <2>2 DEF N
    <2>4. Probes(queries - (10 + 2 * N))'
      BY <2>1, <2>2, <2>3, ProbesKept DEF Probes
    <2> QED
      BY <2>1, <2>3, <2>4 DEF CountInv, EarlyCount, LateCount, FinalCount
  <1>9. ASSUME NEW ok \in BOOLEAN, QueryDS(ok) PROVE CountInv'
    <2>1. /\ pc = "ds" /\ pc' = "random" /\ queries' = queries + 1 /\ UNCHANGED scene
      BY <1>9, CallCount DEF QueryDS
    <2>2. Probes(queries - (10 + 2 * N)) /\ N \in Nat
      BY <1>0, <2>1, Servers DEF CountInv, LateCount
    <2>3. queries' - (11 + 2 * N') = queries - (10 + 2 * N) /\ queries' \in Nat
      BY <1>0, <2>1, <2>2 DEF N
    <2>4. Probes(queries - (11 + 2 * N))'
      BY <2>1, <2>2, <2>3, ProbesKept DEF Probes
    <2> QED
      BY <2>1, <2>3, <2>4 DEF CountInv, EarlyCount, LateCount, FinalCount
  <1>10. ASSUME NEW ok \in BOOLEAN, QueryRandom(ok) PROVE CountInv'
    <2>1. /\ pc = "random" /\ pc' = "dnssec" /\ queries' = queries + 1 /\ UNCHANGED scene
      BY <1>10, CallCount DEF QueryRandom
    <2>2. Probes(queries - (11 + 2 * N)) /\ N \in Nat
      BY <1>0, <2>1, Servers DEF CountInv, LateCount
    <2>3. queries' - (12 + 2 * N') = queries - (11 + 2 * N) /\ queries' \in Nat
      BY <1>0, <2>1, <2>2 DEF N
    <2>4. Probes(queries - (12 + 2 * N))'
      BY <2>1, <2>2, <2>3, ProbesKept DEF Probes
    <2> QED
      BY <2>1, <2>3, <2>4 DEF CountInv, EarlyCount, LateCount, FinalCount
  <1>11. ASSUME CheckDNSSEC PROVE CountInv'
    <2>1. /\ pc = "dnssec" /\ UNCHANGED <<queries, lost, scene>>
          /\ pc' # "axfr" => pc' = "wildcard" /\ ~(scene.active /\ scene.ns # <<>>)
          /\ pc' = "axfr" => scene.active /\ scene.ns # <<>> /\ todo' = scene.ns
      BY <1>11 DEF CheckDNSSEC
    <2>2. Probes(queries - (12 + 2 * N))
      BY <2>1 DEF CountInv, LateCount
    <2>3. N' = N /\ N \in Nat /\ queries' \in Nat /\ queries' = queries
      BY <1>0, <2>1, Servers DEF N
    <2>4. CASE pc' = "axfr"
      <3>1. todo' \in Seq(STRING) /\ Len(todo') = N /\ 1 <= N /\ scene'.active
        BY <1>0, <2>1, <2>4, Servers DEF N
      <3>2. queries' - (12 + 3 * N' - Len(todo')) = queries - (12 + 2 * N)
        BY <1>0, <2>3, <3>1, ScanArithmetic
      <3>3. Probes(queries - (12 + 3 * N - Len(todo)))'
        BY <2>1, <2>2, <3>2, ProbesKept DEF Probes
      <3> QED
        BY <2>3, <2>4, <3>1, <3>3 DEF CountInv, EarlyCount, LateCount, FinalCount, ServerLoop, Ahead
    <2>5. CASE pc' # "axfr"
      <3>1. Scans' = 0
        BY <1>0, <2>1, <2>3, <2>5, Servers DEF Scans
      <3>2. queries' - (12 + 2 * N' + Scans') = queries - (12 + 2 * N)
        BY <1>0, <2>3, <3>1, ScanArithmetic
      <3>3. Probes(queries - (12 + 2 * N + Scans))'
        BY <2>1, <2>2, <3>2, ProbesKept DEF Probes
      <3> QED
        BY <2>1, <2>3, <2>5, <3>3 DEF CountInv, EarlyCount, LateCount, FinalCount
    <2> QED
      BY <2>4, <2>5
  <1>12. ASSUME NEW ok \in BOOLEAN, Transfer(ok) PROVE CountInv'
    <2>1. /\ pc = "axfr" /\ queries' = queries + 1 /\ UNCHANGED scene
          /\ pc' # "axfr" => pc' = "wildcard" /\ Tail(todo) = <<>>
          /\ pc' = "axfr" => todo' = Tail(todo) /\ Tail(todo) # <<>>
      BY <1>12, CallCount DEF Transfer
    <2>2. todo \in Seq(STRING) /\ 1 <= Len(todo) /\ Len(todo) <= N
      BY <2>1 DEF CountInv, LateCount, ServerLoop, Ahead
    <2>3. scene.active /\ Probes(queries - (12 + 3 * N - Len(todo)))
      BY <2>1 DEF CountInv, LateCount, Ahead
    <2>4. /\ Tail(todo) \in Seq(STRING) /\ Len(todo) \in Nat
          /\ Len(Tail(todo)) = Len(todo) - 1
          /\ Tail(todo) = <<>> => Len(todo) = 1
          /\ Tail(todo) # <<>> => 2 <= Len(todo)
      BY <2>2, TailCount
    <2>5. N' = N /\ N \in Nat /\ queries' \in Nat
      BY <1>0, <2>1, Servers DEF N
    <2>6. CASE pc' = "axfr"
      <3>1. todo' = Tail(todo) /\ 1 <= Len(Tail(todo)) /\ scene'.active
        BY <2>1, <2>3, <2>4, <2>6
      <3>2. todo' \in Seq(STRING) /\ Len(todo') = Len(todo) - 1 /\ 1 <= Len(todo')
        BY <2>4, <3>1
      <3>3. Len(todo') <= N
        BY <2>2, <2>4, <2>5, <3>2
      <3>4. (queries + 1) - (12 + 3 * N - (Len(todo) - 1)) = queries - (12 + 3 * N - Len(todo))
        BY <1>0, <2>4, <2>5, ScanArithmetic
      <3>5. queries' - (12 + 3 * N' - Len(todo')) = queries - (12 + 3 * N - Len(todo))
        BY <2>1, <2>5, <3>2, <3>4
      <3>6. Probes(queries - (12 + 3 * N - Len(todo)))'
        BY <2>1, <2>3, <3>5, ProbesKept DEF Probes
      <3> QED
        BY <2>5, <2>6, <3>1, <3>2, <3>3, <3>6
        DEF CountInv, EarlyCount, LateCount, FinalCount, ServerLoop, Ahead
    <2>7. CASE pc' # "axfr"
      <3>1. Scans' = N /\ Len(todo) = 1
        BY <2>1, <2>3, <2>4, <2>5, <2>7 DEF Scans
      <3>2. (queries + 1) - (12 + 2 * N + N) = queries - (12 + 3 * N - Len(todo))
        BY <1>0, <2>4, <2>5, <3>1, ScanArithmetic
      <3>3. queries' - (12 + 2 * N' + Scans') = queries - (12 + 3 * N - Len(todo))
        BY <2>1, <2>5, <3>1, <3>2
      <3>4. Probes(queries - (12 + 2 * N + Scans))'
        BY <2>1, <2>3, <3>3, ProbesKept DEF Probes
      <3> QED
        BY <2>1, <2>5, <2>7, <3>4 DEF CountInv, EarlyCount, LateCount, FinalCount
    <2> QED
      BY <2>6, <2>7
  <1>13. ASSUME NEW ok \in BOOLEAN, QueryWildcard(ok) PROVE CountInv'
    <2>1. /\ pc = "wildcard" /\ queries' = queries + 1 /\ UNCHANGED scene
          /\ pc' # "recursion" => pc' = "report" /\ ~(scene.active /\ scene.ns # <<>>)
          /\ pc' = "recursion" => scene.active /\ scene.ns # <<>> /\ todo' = scene.ns
      BY <1>13, CallCount DEF QueryWildcard
    <2>2. Probes(queries - (12 + 2 * N + Scans))
      BY <2>1 DEF CountInv, LateCount
    <2>3. N' = N /\ N \in Nat /\ queries' \in Nat /\ queries' = queries + 1
      BY <1>0, <2>1, Servers DEF N
    <2>4. CASE pc' = "recursion"
      <3>1. todo' \in Seq(STRING) /\ Len(todo') = N /\ 1 <= N /\ scene'.active /\ Scans = N
        BY <1>0, <2>1, <2>4, Servers DEF N, Scans
      <3>2. queries' - (13 + 4 * N' - Len(todo')) = queries - (12 + 2 * N + Scans)
        BY <1>0, <2>3, <3>1, ScanArithmetic
      <3>3. Probes(queries - (13 + 4 * N - Len(todo)))'
        BY <2>1, <2>2, <3>2, ProbesKept DEF Probes
      <3> QED
        BY <2>3, <2>4, <3>1, <3>3 DEF CountInv, EarlyCount, LateCount, FinalCount, ServerLoop, Ahead
    <2>5. CASE pc' # "recursion"
      <3>1. Scans = 0 /\ Scans' = 0
        BY <1>0, <2>1, <2>3, <2>5, Servers DEF Scans
      <3>2. queries' - (13 + 2 * N' + 2 * Scans') = queries - (12 + 2 * N + Scans)
        BY <1>0, <2>3, <3>1, ScanArithmetic
      <3>3. Probes(queries - (13 + 2 * N + 2 * Scans))'
        BY <2>1, <2>2, <3>2, ProbesKept DEF Probes
      <3> QED
        BY <2>1, <2>3, <2>5, <3>3 DEF CountInv, EarlyCount, LateCount, FinalCount
    <2> QED
      BY <2>4, <2>5
  <1>14. ASSUME NEW ok \in BOOLEAN, QueryRecursion(ok) PROVE CountInv'
    <2>1. /\ pc = "recursion" /\ queries' = queries + 1 /\ UNCHANGED scene
          /\ pc' # "recursion" => pc' = "report" /\ Tail(todo) = <<>>
          /\ pc' = "recursion" => todo' = Tail(todo) /\ Tail(todo) # <<>>
      BY <1>14, CallCount DEF QueryRecursion
    <2>2. todo \in Seq(STRING) /\ 1 <= Len(todo) /\ Len(todo) <= N
      BY <2>1 DEF CountInv, LateCount, ServerLoop, Ahead
    <2>3. scene.active /\ Probes(queries - (13 + 4 * N - Len(todo)))
      BY <2>1 DEF CountInv, LateCount, Ahead
    <2>4. /\ Tail(todo) \in Seq(STRING) /\ Len(todo) \in Nat
          /\ Len(Tail(todo)) = Len(todo) - 1
          /\ Tail(todo) = <<>> => Len(todo) = 1
          /\ Tail(todo) # <<>> => 2 <= Len(todo)
      BY <2>2, TailCount
    <2>5. N' = N /\ N \in Nat /\ queries' \in Nat
      BY <1>0, <2>1, Servers DEF N
    <2>6. CASE pc' = "recursion"
      <3>1. todo' = Tail(todo) /\ 1 <= Len(Tail(todo)) /\ scene'.active
        BY <2>1, <2>3, <2>4, <2>6
      <3>2. todo' \in Seq(STRING) /\ Len(todo') = Len(todo) - 1 /\ 1 <= Len(todo')
        BY <2>4, <3>1
      <3>3. Len(todo') <= N
        BY <2>2, <2>4, <2>5, <3>2
      <3>4. (queries + 1) - (13 + 4 * N - (Len(todo) - 1)) = queries - (13 + 4 * N - Len(todo))
        BY <1>0, <2>4, <2>5, ScanArithmetic
      <3>5. queries' - (13 + 4 * N' - Len(todo')) = queries - (13 + 4 * N - Len(todo))
        BY <2>1, <2>5, <3>2, <3>4
      <3>6. Probes(queries - (13 + 4 * N - Len(todo)))'
        BY <2>1, <2>3, <3>5, ProbesKept DEF Probes
      <3> QED
        BY <2>5, <2>6, <3>1, <3>2, <3>3, <3>6
        DEF CountInv, EarlyCount, LateCount, FinalCount, ServerLoop, Ahead
    <2>7. CASE pc' # "recursion"
      <3>1. Scans' = N /\ Len(todo) = 1
        BY <2>1, <2>3, <2>4, <2>5, <2>7 DEF Scans
      <3>2. (queries + 1) - (13 + 2 * N + 2 * N) = queries - (13 + 4 * N - Len(todo))
        BY <1>0, <2>4, <2>5, <3>1, ScanArithmetic
      <3>3. queries' - (13 + 2 * N' + 2 * Scans') = queries - (13 + 4 * N - Len(todo))
        BY <2>1, <2>5, <3>1, <3>2
      <3>4. Probes(queries - (13 + 2 * N + 2 * Scans))'
        BY <2>1, <2>3, <3>3, ProbesKept DEF Probes
      <3> QED
        BY <2>1, <2>5, <2>7, <3>4 DEF CountInv, EarlyCount, LateCount, FinalCount
    <2> QED
      BY <2>6, <2>7
  <1>15. ASSUME Report PROVE CountInv'
    <2>1. /\ pc = "report" /\ pc' = "done" /\ reported' = queries
          /\ UNCHANGED <<queries, lost, scene>>
      BY <1>15 DEF Report
    <2>2. Probes(queries - (13 + 2 * N + 2 * Scans))'
      BY <2>1 DEF CountInv, LateCount, Probes, N, Scans
    <2> QED
      BY <1>0, <2>1, <2>2 DEF CountInv, EarlyCount, LateCount, FinalCount
  <1>16. ASSUME UNCHANGED vars PROVE CountInv'
    <2>1. UNCHANGED <<scene, pc, todo, queries, found, reported, lost>>
      BY <1>16 DEF vars
    <2>2. UNCHANGED <<N, Scans, Ahead, Hosts, Ids, ServerLoop>>
      BY <2>1 DEF N, Scans, Ahead, Hosts, Ids, ServerLoop
    <2>3. EarlyCount'
      BY <2>1, <2>2 DEF CountInv, EarlyCount
    <2>4. LateCount'
      BY <2>1, <2>2 DEF CountInv, LateCount, Probes
    <2>5. FinalCount'
      BY <2>1, <2>2 DEF CountInv, FinalCount, Probes
    <2> QED
      BY <1>0, <2>1, <2>3, <2>4, <2>5 DEF CountInv
  <1> QED
    BY <1>1, <1>2, <1>3, <1>4, <1>5, <1>6, <1>7, <1>8, <1>9, <1>10, <1>11, <1>12,
       <1>13, <1>14, <1>15, <1>16
    DEF Next, QueryStep, LocalStep

-----------------------------------------------------------------------------
(* Types and the budget *)

Loops == {"apex", "addresses", "probe", "axfr", "recursion"}
StepInv == pc \in Steps /\ (pc \in Loops <=> todo # <<>>)
CallInv ==
    /\ left \in 0..scene.budget
    /\ queries \in Nat /\ reported \in Nat
    /\ lost \subseteq {"dnskey", "ds", "other"}
TypeInv == SceneOK(scene) /\ StepInv /\ CallInv

\* A call takes a unit of the budget if there is one.
LEMMA CallTypes ==
    ASSUME NEW server, NEW ok \in BOOLEAN, Call(server, ok), CallInv, scene.budget \in Nat,
           UNCHANGED <<scene, reported>>
    PROVE  CallInv'
  <1>1. left' \in 0..scene.budget /\ queries' \in Nat
    BY DEF Call, CallInv
  <1>2. lost' \subseteq {"dnskey", "ds", "other"}
    BY DEF Call, CallInv, Lost
  <1> QED
    BY <1>1, <1>2 DEF CallInv

\* They hold before the first query.
LEMMA InitTypes == Init => TypeInv
  BY ScenesAssumption
  DEF Init, TypeInv, StepInv, CallInv, Steps, Loops, SceneOK

\* Every step keeps the types, and a loop is entered only with work to do.
LEMMA StepTypes ==
    ASSUME IInv, TypeInv, [Next]_vars
    PROVE  TypeInv'
  <1> USE DEF Goto, Ask
  <1>0. scene.budget \in Nat /\ CallInv
    BY DEF TypeInv, SceneOK
  <1>1. SceneOK(scene)'
    <2>1. scene' = scene
      BY DEF Next, QueryStep, LocalStep, QueryNS, QueryANY, QueryApex, QueryAddress,
         QueryChild, Probe, QueryDNSKEY, QueryDS, QueryRandom, Transfer, QueryWildcard,
         QueryRecursion, CheckRecords, CheckDNSSEC, Report, vars
    <2> QED
      BY <2>1 DEF TypeInv
  <1>2. CallInv'
    <2>1. ASSUME NEW ok \in BOOLEAN, QueryStep(ok) PROVE CallInv'
      <3>1. /\ UNCHANGED <<scene, reported>>
            /\ \/ Call(QueryServer(scene.resolver), ok)
               \/ Call(TransferServer(scene.resolver), ok)
        BY <2>1
        DEF QueryStep, QueryNS, QueryANY, QueryApex, QueryAddress, QueryChild, Probe,
            QueryDNSKEY, QueryDS, QueryRandom, Transfer, QueryWildcard, QueryRecursion
      <3> QED
        BY <1>0, <3>1, CallTypes
    <2>2. ASSUME CheckRecords \/ CheckDNSSEC \/ UNCHANGED vars PROVE CallInv'
      BY <1>0, <2>2 DEF CheckRecords, CheckDNSSEC, vars, CallInv
    <2>3. ASSUME Report PROVE CallInv'
      BY <1>0, <2>3 DEF Report, CallInv
    <2> QED
      BY <2>1, <2>2, <2>3 DEF Next, LocalStep
  <1>3. StepInv'
    <2> USE DEF StepInv, Steps, Loops
    <2>1. ASSUME NEW ok \in BOOLEAN, QueryNS(ok) \/ QueryANY(ok) \/ QueryAddress(ok) PROVE StepInv'
      <3>1. ApexTypes # <<>>
        BY DEF ApexTypes
      <3> QED
        BY <2>1, <3>1 DEF QueryNS, QueryANY, QueryAddress
    <2>2. ASSUME NEW ok \in BOOLEAN, QueryApex(ok) PROVE StepInv'
      <3>1. scene.ns # <<>> => AddressQueries # <<>>
        BY AddressQueriesOK DEF IInv
      <3> QED
        BY <2>2, <3>1 DEF QueryApex
    <2>3. ASSUME NEW ok \in BOOLEAN, QueryChild(ok) \/ Probe(ok) PROVE StepInv'
      BY <2>3 DEF QueryChild, Probe
    <2>4. ASSUME NEW ok \in BOOLEAN, QueryDNSKEY(ok) \/ QueryDS(ok) \/ QueryRandom(ok)
          PROVE  StepInv'
      BY <2>4 DEF QueryDNSKEY, QueryDS, QueryRandom
    <2>5. ASSUME NEW ok \in BOOLEAN, Transfer(ok) \/ QueryWildcard(ok) \/ QueryRecursion(ok)
          PROVE  StepInv'
      BY <2>5 DEF Transfer, QueryWildcard, QueryRecursion
    <2>6. ASSUME LocalStep PROVE StepInv'
      BY <2>6 DEF LocalStep, CheckRecords, CheckDNSSEC, Report
    <2>7. ASSUME UNCHANGED vars PROVE StepInv'
      BY <2>7 DEF vars, TypeInv
    <2> QED
      BY <2>1, <2>2, <2>3, <2>4, <2>5, <2>6, <2>7 DEF Next, QueryStep
  <1> QED
    BY <1>1, <1>2, <1>3 DEF TypeInv

-----------------------------------------------------------------------------
(* The theorems *)

\* Both invariants hold in every run.
LEMMA CountInvariance == Spec => [](IInv /\ CountInv /\ TypeInv)
  <1>1. IInv /\ CountInv /\ TypeInv /\ [Next]_vars => (IInv /\ CountInv /\ TypeInv)'
    BY StepIInv, StepCount, StepTypes
  <1> QED
    BY <1>1, InitIInv, InitCount, InitTypes, PTL DEF Spec

\* What the invariants say of a run.
LEMMA TypesMean == IInv /\ TypeInv => TypeOK
  BY DEF IInv, MaterialInv, TypeInv, StepInv, CallInv, Loops, TypeOK

\* The same of the number of calls.
LEMMA CountMeans == IInv /\ CountInv => QueryCount
  <1> SUFFICES ASSUME IInv, CountInv, pc = "done", "GeneralError" \notin Ids
               PROVE  QueryCount
    BY DEF QueryCount
  <1>1. reported = queries /\ Probes(queries - (13 + 2 * N + 2 * Scans))
    BY DEF CountInv, FinalCount
  <1>2. N \in Nat /\ queries \in Nat /\ Scans \in Nat
    BY Servers DEF IInv, CountInv
  <1>3. queries <= 13 + 3 * N + 2 * Scans
    BY <1>1, <1>2 DEF Probes
  <1>4. 13 + 3 * N + 2 * Scans = 13 + (IF scene.active THEN 5 ELSE 3) * N
    BY <1>2 DEF Scans
  <1> QED
    BY <1>1, <1>3, <1>4 DEF QueryCount, N

\* In every run of the pipeline the budget stays between zero and its limit,
\* and a loop that has begun has an element to work on.
THEOREM TypeCorrect == Spec => []TypeOK
  BY CountInvariance, TypesMean, PTL

\* A run that is not ended by its first query reports the number of calls it
\* made, and whatever fails this is bounded by the number of name servers.
THEOREM CallsCounted == Spec => []QueryCount
  BY CountInvariance, CountMeans, PTL
=============================================================================
