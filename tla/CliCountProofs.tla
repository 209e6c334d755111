--------------------------- MODULE CliCountProofs ---------------------------
(***************************************************************************)
(* Proofs about Cli for every set of command lines: what is proved of one  *)
(* audit holds of each audit of a list, and the numbers of queries in the  *)
(* reports account for the calls of the whole command.                     *)
(***************************************************************************)
EXTENDS CliProofs, AuditExactProofs

\* f sums up the calls of a list of reports, from the first to any of them.
Sums(f, list) ==
    f = [i \in 0..Len(list) |->
           IF i = 0 THEN 0
           ELSE f[i - 1] + list[i].queries + (IF list[i].aborted THEN 1 ELSE 0)]

\* There is such an f, and it comes to n.
SumIs(list, n) ==
    /\ \E f : Sums(f, list)
    /\ \A f : Sums(f, list) => f[Len(list)] = n

\* The calls are those of the reports and of the audit that is under way.
CallInvariant ==
    /\ calls \in Nat
    /\ phase = "args" => calls = 0
    /\ phase = "next" => SumIs(reports, calls)
    /\ phase = "audit" => calls - queries \in Nat /\ SumIs(reports, calls - queries)
    /\ phase = "end" /\ Len(reports) = Len(command.domains) => SumIs(reports, calls)

-----------------------------------------------------------------------------
(* Single audits *)

\* Every step of the command preserves what holds of an audit: a new Runner
\* starts from nothing, and the steps of an audit are those of AuditRun.
LEMMA EveryAudit ==
    ASSUME AuditInv, domains \in Seq(Scenes), [CliNext]_allVars
    PROVE  AuditInv'
  <1>1. CASE UNCHANGED vars
    BY <1>1, StepAudit
  <1>2. CASE Start
    <2>1. Head(domains) \in Scenes /\ New(Head(domains))
      BY <1>2 DEF Start
    <2>2. Init'
      BY <2>1 DEF New, Init
    <2>3. Init' => AuditInv'
      BY InitAudit, PTL
    <2> QED
      BY <2>2, <2>3
  <1>3. CASE Query
    <2>1. Next
      BY <1>3 DEF Query, Next
    <2> QED
      BY <2>1, StepAudit
  <1>4. CASE Local
    <2>1. Next
      BY <1>4 DEF Local, Next
    <2> QED
      BY <2>1, StepAudit
  <1> QED
    BY <1>1, <1>2, <1>3, <1>4
    DEF CliNext, Proceed, ParseArgs, WriteReport, WriteFails, Finish, Expire, allVars
-----------------------------------------------------------------------------
(* Sums *)

\* No reports, no calls.
LEMMA SumOfNone == SumIs(<<>>, 0)
  <1>1. 0..Len(<<>>) = {0}
    OBVIOUS
  <1>2. Sums([i \in {0} |-> 0], <<>>)
    BY <1>1 DEF Sums
  <1>3. ASSUME NEW f, Sums(f, <<>>) PROVE f[Len(<<>>)] = 0
    BY <1>1, <1>3 DEF Sums
  <1> QED
    BY <1>2, <1>3 DEF SumIs

\* A report adds its number of queries, and one more if its run was aborted.
LEMMA SumOfMore ==
    ASSUME NEW S, NEW list \in Seq(S), NEW n \in Nat, SumIs(list, n), NEW e,
           NEW m, m = n + e.queries + (IF e.aborted THEN 1 ELSE 0)
    PROVE  SumIs(Append(list, e), m)
  <1> DEFINE more == Append(list, e)
             one  == IF e.aborted THEN 1 ELSE 0
  <1>1. /\ Len(list) \in Nat /\ Len(more) = Len(list) + 1
        /\ \A i \in 1..Len(list) : more[i] = list[i]
        /\ more[Len(list) + 1] = e
    BY Appended
  <1> HIDE DEF more
  <1>2. \E f : Sums(f, more)
    <2>1. PICK f : Sums(f, list)
      BY DEF SumIs
    <2> DEFINE g == [i \in 0..Len(more) |-> IF i = Len(more) THEN f[Len(list)] + e.queries + one ELSE f[i]]
    <2>2. \A i \in 0..Len(list) : g[i] = f[i]
      BY <1>1
    <2>3. g[Len(more)] = f[Len(list)] + e.queries + one
      BY <1>1
    <2>4. ASSUME NEW i \in 0..Len(more)
          PROVE  g[i] = IF i = 0 THEN 0
                        ELSE g[i - 1] + more[i].queries + (IF more[i].aborted THEN 1 ELSE 0)
      <3> HIDE DEF g
      <3>1. CASE i = 0
        BY <1>1, <2>1, <2>2, <3>1 DEF Sums
      <3>2. CASE i \in 1..Len(list)
        <4>1. i - 1 \in 0..Len(list) /\ i \in 0..Len(list)
          BY <1>1, <3>2
        <4>2. f[i] = f[i - 1] + list[i].queries + (IF list[i].aborted THEN 1 ELSE 0)
          BY <2>1, <3>2, <4>1 DEF Sums
        <4>3. i # 0 /\ more[i] = list[i]
          BY <1>1, <3>2
        <4> QED
          BY <2>2, <4>1, <4>2, <4>3
      <3>3. CASE i = Len(more)
        <4>1. i - 1 = Len(list) /\ i # 0 /\ Len(list) \in 0..Len(list)
          BY <1>1, <3>3
        <4> QED
          BY <1>1, <2>2, <2>3, <3>3, <4>1
      <3> QED
        BY <1>1, <3>1, <3>2, <3>3
    <2>5. Sums(g, more)
      <3>1. g = [i \in 0..Len(more) |-> g[i]]
        OBVIOUS
      <3> HIDE DEF g
      <3> QED
        BY <2>4, <3>1 DEF Sums
    <2> QED
      BY <2>5
  <1>3. ASSUME NEW g, Sums(g, more) PROVE g[Len(more)] = m
    <2> DEFINE f == [i \in 0..Len(list) |-> g[i]]
    <2>1. ASSUME NEW i \in 0..Len(list)
          PROVE  f[i] = IF i = 0 THEN 0
                        ELSE f[i - 1] + list[i].queries + (IF list[i].aborted THEN 1 ELSE 0)
      <3>1. i \in 0..Len(more)
        BY <1>1
      <3>2. g[i] = IF i = 0 THEN 0
                   ELSE g[i - 1] + more[i].queries + (IF more[i].aborted THEN 1 ELSE 0)
        BY <1>3, <3>1 DEF Sums
      <3>3. i # 0 => i \in 1..Len(list) /\ i - 1 \in 0..Len(list) /\ more[i] = list[i]
        BY <1>1
      <3> QED
        BY <3>2, <3>3
    <2>2. Sums(f, list)
      <3>1. f = [i \in 0..Len(list) |-> f[i]]
        OBVIOUS
      <3> HIDE DEF f
      <3> QED
        BY <2>1, <3>1 DEF Sums
    <2>3. f[Len(list)] = n
      BY <2>2 DEF SumIs
    <2>4. g[Len(list)] = n
      BY <1>1, <2>3
    <2> HIDE DEF f
    <2>5. /\ Len(more) \in 0..Len(more) /\ Len(more) # 0 /\ Len(more) - 1 = Len(list)
          /\ more[Len(more)] = e
      BY <1>1
    <2>6. g[Len(more)] = g[Len(more) - 1] + more[Len(more)].queries
                           + (IF more[Len(more)].aborted THEN 1 ELSE 0)
      BY <1>3, <2>5 DEF Sums
    <2> QED
      BY <2>4, <2>5, <2>6
  <1> QED
    BY <1>2, <1>3 DEF SumIs, more

-----------------------------------------------------------------------------
(* Calls *)

\* Each query of an audit is one call; the other steps make none.
LEMMA OneCall ==
    /\ \A ok \in BOOLEAN : QueryStep(ok) => queries' = queries + 1
    /\ LocalStep => queries' = queries
  <1>1. ASSUME NEW ok \in BOOLEAN, QueryStep(ok) PROVE queries' = queries + 1
    BY <1>1, CallCount
    DEF QueryStep, QueryNS, QueryANY, QueryApex, QueryAddress, QueryChild, Probe, Ask,
        QueryDNSKEY, QueryDS, QueryRandom, Transfer, QueryWildcard, QueryRecursion
  <1>2. LocalStep => queries' = queries
    BY DEF LocalStep, CheckRecords, CheckDNSSEC, Report
  <1> QED
    BY <1>1, <1>2

\* Calls move from the audit that made them into its report.
LEMMA StepCalls ==
    ASSUME AuditInv, ListInv, CodeInv, CallInvariant, [CliNext]_allVars
    PROVE  CallInvariant'
  <1>0. PICK S : reports \in Seq(S)
    BY DEF ListInv
  <1>1. calls \in Nat /\ queries \in Nat
    BY DEF CallInvariant, AuditInv, CountInv
  <1>2. CASE ParseArgs
    <2>1. /\ UNCHANGED <<reports, calls>> /\ reports = <<>> /\ calls = 0
          /\ phase' \in {"next", "end"}
      BY <1>2 DEF ParseArgs, ListInv, CallInvariant
    <2> QED
      BY <2>1, SumOfNone DEF CallInvariant
  <1>3. CASE Start
    <2>1. /\ phase = "next" /\ phase' = "audit" /\ UNCHANGED <<reports, calls>> /\ queries' = 0
      BY <1>3 DEF Start, New
    <2>2. calls' - queries' = calls
      BY <1>1, <2>1
    <2> QED
      BY <1>1, <2>1, <2>2 DEF CallInvariant
  <1>4. CASE Query
    <2>1. /\ phase = "audit" /\ phase' = "audit" /\ UNCHANGED reports
          /\ calls' = calls + 1 /\ queries' = queries + 1
      BY <1>4, OneCall DEF Query
    <2>2. calls' - queries' = calls - queries /\ calls' \in Nat
      BY <1>1, <2>1
    <2> QED
      BY <2>1, <2>2 DEF CallInvariant
  <1>5. CASE Local
    <2>1. phase = "audit" /\ phase' = "audit" /\ UNCHANGED <<reports, calls, queries>>
      BY <1>5, OneCall DEF Local, cliVars
    <2> QED
      BY <2>1 DEF CallInvariant
  <1>6. CASE WriteReport
    <2>1. /\ phase = "audit" /\ pc = "done" /\ phase' = "next" /\ UNCHANGED calls
          /\ reports' = Append(reports, ReportOf)
      BY <1>6 DEF WriteReport
    <2>2. calls - queries \in Nat /\ SumIs(reports, calls - queries)
      BY <2>1 DEF CallInvariant
    <2>3. ReportOf.queries = reported /\ (ReportOf.aborted <=> "GeneralError" \in Ids)
      BY DEF ReportOf
    <2>4. queries = reported + (IF ReportOf.aborted THEN 1 ELSE 0)
      <3>1. CASE "GeneralError" \in Ids
        BY <2>3, <3>1 DEF AuditInv, ExactInv, AbortInv
      <3>2. CASE "GeneralError" \notin Ids
        BY <1>1, <2>1, <2>3, <3>2 DEF AuditInv, CountInv, FinalCount
      <3> QED
        BY <3>1, <3>2
    <2>5. reported \in Nat
      BY DEF AuditInv, TypeInv, CallInv
    <2>6. calls = (calls - queries) + ReportOf.queries + (IF ReportOf.aborted THEN 1 ELSE 0)
      BY <1>1, <2>3, <2>4, <2>5
    <2>7. SumIs(reports', calls)
      BY <1>0, <2>1, <2>2, <2>6, SumOfMore
    <2> QED
      BY <1>1, <2>1, <2>7 DEF CallInvariant
  <1>7. CASE WriteFails
    <2>1. phase = "audit" /\ phase' = "end" /\ UNCHANGED <<reports, command, calls>>
      BY <1>7 DEF WriteFails
    <2>2. Len(reports) # Len(command.domains)
      <3>1. Len(command.domains) \in Nat /\ Len(reports) \in Nat /\ Len(domains) \in Nat
        BY <1>0, CommandsAssumption DEF ListInv, CommandOK
      <3> QED
        BY <2>1, <3>1 DEF ListInv
    <2> QED
      BY <1>1, <2>1, <2>2 DEF CallInvariant
  <1>8. CASE Finish
    BY <1>8 DEF Finish, CallInvariant
  <1>9. CASE Expire \/ UNCHANGED allVars
    <2>1. UNCHANGED <<phase, reports, command, calls, queries>>
      BY <1>9 DEF Expire, allVars, cliVars, vars
    <2> QED
      BY <2>1 DEF CallInvariant
  <1> QED
    BY <1>2, <1>3, <1>4, <1>5, <1>6, <1>7, <1>8, <1>9 DEF CliNext, Proceed

-----------------------------------------------------------------------------
(* The theorems *)

\* Both invariants hold whatever is typed, whichever queries fail and whenever
\* the deadline passes.
LEMMA CliCountInvariance == CliSpec => [](CliInv /\ AuditInv /\ CallInvariant)
  <1>1. CliInit => AuditInv
    BY InitAudit DEF CliInit
  <1>2. CliInit => CallInvariant
    BY DEF CliInit, CallInvariant
  <1>3. CliInv /\ AuditInv /\ CallInvariant /\ [CliNext]_allVars => AuditInv' /\ CallInvariant'
    <2> SUFFICES ASSUME CliInv, AuditInv, CallInvariant, [CliNext]_allVars
                 PROVE  AuditInv' /\ CallInvariant'
      OBVIOUS
    <2>1. ListInv /\ CodeInv /\ domains \in Seq(Scenes)
      BY DEF CliInv, ListInv
    <2> QED
      BY <2>1, EveryAudit, StepCalls
  <1> QED
    BY <1>1, <1>2, <1>3, CliInvariance, PTL DEF CliSpec

\* The numbers of queries in the reports of a command add up to the calls of
\* all its Runners, but for one per domain whose first query failed, for any
\* list of domains.
THEOREM CallsAddUp == CliSpec => []CallsAccounted
  <1>1. CallInvariant => CallsAccounted
    <2> SUFFICES ASSUME CallInvariant,
                        phase = "next" \/ (phase = "end" /\ Len(reports) = Len(command.domains))
                 PROVE  CallsAccounted
      BY DEF CallsAccounted
    <2>1. SumIs(reports, calls)
      BY DEF CallInvariant
    <2> DEFINE f == CHOOSE f : Sums(f, reports)
    <2>2. Sums(f, reports)
      BY <2>1 DEF SumIs
    <2>3. f[Len(reports)] = calls
      BY <2>1, <2>2 DEF SumIs
    <2> QED
      BY <2>3 DEF CallsAccounted, Sums
  <1> QED
    BY <1>1, CliCountInvariance, PTL

\* Each audit of a list keeps within its own budget, counts its own calls and
\* has its own verdicts on transfers.
THEOREM AuditsAreSeparate == CliSpec => [](TypeOK /\ QueryCount /\ VerdictPerServer)
  BY CliCountInvariance, AuditMeans, PTL
=============================================================================
