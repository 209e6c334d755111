----------------------------- MODULE CliProofs ------------------------------
(***************************************************************************)
(* Proofs about Cli for every set of command lines: what the exit status   *)
(* says, and what becomes of a domain whose turn comes after the deadline. *)
(***************************************************************************)
EXTENDS Cli, SequenceTheorems, TLAPS

\* A report that was written has a finding at or above the threshold.
SomeReaches ==
    \E i \in 1..Len(reports) : Reaches(reports[i].severities, failThreshold)

\* Every domain is in a report, under audit, or still to be audited.
ListInv ==
    /\ command \in Commands
    /\ domains \in Seq(Scenes)
    /\ \E S : reports \in Seq(S)
    /\ phase = "args" => domains = command.domains /\ reports = <<>>
    /\ phase = "next" => Len(reports) + Len(domains) = Len(command.domains)
    /\ phase = "audit" => Len(reports) + Len(domains) + 1 = Len(command.domains)

CodeInv ==
    /\ phase \in {"args", "next", "audit", "end"}
    /\ phase \in {"next", "audit"} => Audits(command)
    /\ ~Audits(command) => reports = <<>>
    /\ exitCode \in {0, 1}
    /\ exitCode = 1 <=> SomeReaches
    /\ ExitTells

\* An audit begun after the deadline has failed or is about to.
LateInv ==
    /\ phase = "audit" /\ late =>
          /\ expired
          /\ \/ pc = "ns" /\ found = {}
             \/ pc = "done" /\ found = {F("GeneralError", "zone")}
    /\ \A i \in 1..Len(reports) : reports[i].late =>
          reports[i].aborted /\ reports[i].severities = {"high"}

CliInv == ListInv /\ CodeInv /\ LateInv

-----------------------------------------------------------------------------
(* The list and the exit code *)

\* What Append does to a sequence of anything.
LEMMA Appended ==
    ASSUME NEW S, NEW s \in Seq(S), NEW e
    PROVE  /\ Append(s, e) \in Seq(S \cup {e})
           /\ Len(Append(s, e)) = Len(s) + 1
           /\ \A i \in 1..Len(s) : Append(s, e)[i] = s[i]
           /\ Append(s, e)[Len(s) + 1] = e
  <1>1. s \in Seq(S \cup {e})
    BY SeqDef
  <1> QED
    BY <1>1, AppendProperties

\* The threshold is part of the command.
LEMMA ThresholdKept ==
    ASSUME UNCHANGED command
    PROVE  /\ failThreshold' = failThreshold
           /\ Audits(command)' = Audits(command)
           /\ Rejected(command)' = Rejected(command)
  BY DEF failThreshold

\* A step that writes no report and does not end the command.
LEMMA CodeKept ==
    ASSUME CodeInv, UNCHANGED <<command, exitCode, reports>>,
           phase' \in {"next", "audit"}, Audits(command)
    PROVE  CodeInv'
  <1>1. SomeReaches' <=> SomeReaches
    BY ThresholdKept DEF SomeReaches
  <1> QED
    BY <1>1, ThresholdKept DEF CodeInv, ExitTells

\* The invariant holds before the arguments are looked at.
LEMMA InitCliInv == CliInit => CliInv
  <1> SUFFICES ASSUME CliInit PROVE CliInv
    OBVIOUS
  <1>1. CommandOK(command)
    BY CommandsAssumption DEF CliInit
  <1>2. ListInv
    <2>1. reports \in Seq({})
      BY DEF CliInit
    <2> QED
      BY <1>1, <2>1 DEF CliInit, ListInv, CommandOK
  <1>3. CodeInv
    BY DEF CliInit, CodeInv, SomeReaches, ExitTells
  <1>4. LateInv
    BY DEF CliInit, LateInv
  <1> QED
    BY <1>2, <1>3, <1>4 DEF CliInv

\* Domains move one by one from the list to the reports.
LEMMA StepList ==
    ASSUME ListInv, CodeInv, [CliNext]_allVars
    PROVE  ListInv'
  <1>0. CommandOK(command) /\ Len(command.domains) \in Nat
    BY CommandsAssumption DEF ListInv, CommandOK
  <1>1. CASE ParseArgs
    BY <1>0, <1>1 DEF ParseArgs, ListInv
  <1>2. CASE Start
    BY <1>0, <1>2 DEF Start, ListInv
  <1>3. CASE WriteReport
    <2>1. PICK S : reports \in Seq(S)
      BY DEF ListInv
    <2>2. reports' \in Seq(S \cup {ReportOf}) /\ Len(reports') = Len(reports) + 1
      BY <1>3, <2>1, Appended DEF WriteReport
    <2>3. Len(reports) \in Nat /\ Len(domains) \in Nat
      BY <2>1 DEF ListInv
    <2>4. \E T : reports' \in Seq(T)
      BY <2>2
    <2> QED
      BY <1>0, <1>3, <2>2, <2>3, <2>4 DEF WriteReport, ListInv
  <1>4. CASE UNCHANGED <<command, domains, reports>> /\ (phase' = phase \/ phase' = "end")
    BY <1>4 DEF ListInv
  <1> QED
    BY <1>1, <1>2, <1>3, <1>4
    DEF CliNext, Proceed, Query, Local, WriteFails, Finish, Expire, allVars, cliVars

\* The exit code remembers whether a report so far reached the threshold.
LEMMA StepCode ==
    ASSUME ListInv, CodeInv, [CliNext]_allVars
    PROVE  CodeInv'
  <1>0. PICK S : reports \in Seq(S)
    BY DEF ListInv
  <1>1. CASE ParseArgs
    <2>1. UNCHANGED <<command, reports, exitCode>> /\ reports = <<>>
      BY <1>1 DEF ParseArgs, ListInv
    <2>2. SomeReaches' <=> SomeReaches
      BY <2>1, ThresholdKept DEF SomeReaches
    <2>3. ExitTells'
      <3>1. CASE Audits(command)
        BY <1>1, <3>1 DEF ParseArgs, ExitTells
      <3>2. CASE ~Audits(command)
        BY <1>1, <2>1, <3>2, ThresholdKept DEF ParseArgs, ExitTells
      <3> QED
        BY <3>1, <3>2
    <2> QED
      BY <1>1, <2>1, <2>2, <2>3 DEF ParseArgs, CodeInv
  <1>2. CASE Start
    BY <1>2, CodeKept DEF Start, CodeInv
  <1>3. CASE Query \/ Local
    BY <1>3, CodeKept DEF Query, Local, CodeInv, cliVars
  <1>4. CASE Expire
    BY <1>4, CodeKept DEF Expire, CodeInv
  <1>5. CASE WriteReport
    <2>1. /\ Len(reports') = Len(reports) + 1 /\ Len(reports) \in Nat
          /\ \A i \in 1..Len(reports) : reports'[i] = reports[i]
          /\ reports'[Len(reports) + 1] = ReportOf
      BY <1>0, <1>5, Appended DEF WriteReport
    <2>2. UNCHANGED command /\ phase' = "next" /\ phase = "audit"
      BY <1>5 DEF WriteReport
    <2>3. SomeReaches' <=> SomeReaches \/ Reaches(ReportOf.severities, failThreshold)
      BY <2>1, <2>2, ThresholdKept DEF SomeReaches
    <2>4. ReportOf.severities = BuildSummary
      BY DEF ReportOf
    <2>5. exitCode' = IF Reaches(BuildSummary, failThreshold) THEN 1 ELSE exitCode
      BY <1>5 DEF WriteReport, ExitCodeAfter
    <2>6. exitCode' \in {0, 1} /\ (exitCode' = 1 <=> SomeReaches')
      BY <2>3, <2>4, <2>5 DEF CodeInv
    <2> QED
      BY <2>2, <2>6, ThresholdKept DEF CodeInv, ExitTells
  <1>6. CASE WriteFails
    <2>1. /\ UNCHANGED <<command, reports, exitCode>>
          /\ phase = "audit" /\ phase' = "end" /\ status' = 1
      BY <1>6 DEF WriteFails
    <2>2. SomeReaches' <=> SomeReaches
      BY <2>1, ThresholdKept DEF SomeReaches
    <2>3. Len(reports) < Len(command.domains)
      <3>1. Len(command.domains) \in Nat /\ Len(reports) \in Nat /\ Len(domains) \in Nat
        BY <1>0, CommandsAssumption DEF ListInv, CommandOK
      <3> QED
        BY <2>1, <3>1 DEF ListInv
    <2>4. ExitTells'
      BY <2>1, <2>3, ThresholdKept DEF ExitTells, CodeInv
    <2> QED
      BY <2>1, <2>2, <2>4 DEF CodeInv
  <1>7. CASE Finish
    <2>1. /\ UNCHANGED <<command, reports, exitCode>> /\ domains = <<>>
          /\ phase = "next" /\ phase' = "end" /\ status' = exitCode
      BY <1>7 DEF Finish
    <2>2. SomeReaches' <=> SomeReaches
      BY <2>1, ThresholdKept DEF SomeReaches
    <2>3. Len(reports) = Len(command.domains)
      <3>1. Len(reports) \in Nat /\ Len(domains) = 0
        BY <1>0, <2>1
      <3> QED
        BY <2>1, <3>1 DEF ListInv
    <2>4. Audits(command) /\ ~Rejected(command) /\ Len(reports) \in Nat
      BY <1>0, <2>1 DEF CodeInv, Audits
    <2>5. ExitTells'
      BY <2>1, <2>2, <2>3, <2>4, ThresholdKept DEF ExitTells, CodeInv, SomeReaches
    <2> QED
      BY <2>1, <2>2, <2>5 DEF CodeInv
  <1>8. CASE UNCHANGED allVars
    <2>1. UNCHANGED <<command, reports, exitCode, phase, status>>
      BY <1>8 DEF allVars, cliVars
    <2>2. SomeReaches' <=> SomeReaches
      BY <2>1, ThresholdKept DEF SomeReaches
    <2> QED
      BY <2>1, <2>2, ThresholdKept DEF CodeInv, ExitTells
  <1> QED
    BY <1>1, <1>2, <1>3, <1>4, <1>5, <1>6, <1>7, <1>8 DEF CliNext, Proceed
-----------------------------------------------------------------------------
(* The deadline *)

\* GENERAL-ERROR is of severity high.
LEMMA GeneralIsHigh == Catalog["GeneralError"] = "high" /\ Rank["high"] = 5
  <1> DEFINE others ==
        And(DelegationRules, And(AuthServerRules, And(SOARules,
        And(AXFRRules, And(DNSSECRules, And(TTLRules, And(CAARules,
        And(CNAMERules, And(AddressRules, Retired)))))))))
  <1>1. Catalog = And(GeneralRules, others)
    BY DEF Catalog
  <1> HIDE DEF others
  <1>2. "GeneralError" \in DOMAIN GeneralRules /\ GeneralRules["GeneralError"] = "high"
    BY DEF GeneralRules
  <1>3. Rank["high"] = 5
    BY DEF Rank
  <1> QED
    BY <1>1, <1>2, <1>3 DEF And

\* After the deadline the first query fails, and nothing follows it.
LEMMA StepLate ==
    ASSUME ListInv, LateInv, [CliNext]_allVars
    PROVE  LateInv'
  <1>0. PICK S : reports \in Seq(S)
    BY DEF ListInv
  <1>1. CASE Start
    BY <1>1 DEF Start, New, LateInv
  <1>2. CASE Query
    <2>1. /\ phase = "audit" /\ UNCHANGED <<phase, late, expired, reports>>
      BY <1>2 DEF Query
    <2>2. CASE ~late
      BY <2>1, <2>2 DEF LateInv
    <2>3. CASE late
      <3>1. PICK ok \in BOOLEAN : MayReturn(ok) /\ QueryStep(ok)
        BY <1>2 DEF Query
      <3>2. ~ok /\ expired /\ pc \in {"ns", "done"}
        BY <2>1, <2>3, <3>1 DEF LateInv, MayReturn
      <3>3. QueryNS(ok)
        BY <3>1, <3>2 DEF QueryStep, QueryNS, QueryANY, QueryApex, QueryAddress, QueryChild,
           Probe, QueryDNSKEY, QueryDS, QueryRandom, Transfer, QueryWildcard, QueryRecursion
      <3>4. pc' = "done" /\ found' = {F("GeneralError", "zone")}
        BY <3>2, <3>3 DEF QueryNS, Goto
      <3> QED
        BY <2>1, <3>2, <3>4 DEF LateInv
    <2> QED
      BY <2>2, <2>3
  <1>3. CASE Local
    <2>1. pc \notin {"ns", "done"}
      BY <1>3 DEF Local, LocalStep, CheckRecords, CheckDNSSEC, Report
    <2> QED
      BY <1>3, <2>1 DEF Local, LateInv, cliVars
  <1>4. CASE WriteReport
    <2>1. /\ Len(reports') = Len(reports) + 1 /\ Len(reports) \in Nat
          /\ \A i \in 1..Len(reports) : reports'[i] = reports[i]
          /\ reports'[Len(reports) + 1] = ReportOf
          /\ phase' = "next" /\ phase = "audit" /\ pc = "done"
      BY <1>0, <1>4, Appended DEF WriteReport
    <2>2. ASSUME late PROVE ReportOf.aborted /\ ReportOf.severities = {"high"}
      <3>1. found = {F("GeneralError", "zone")}
        BY <2>1, <2>2 DEF LateInv
      <3>2. F("GeneralError", "zone").id = "GeneralError"
        BY DEF F
      <3>3. Ids = {"GeneralError"}
        BY <3>1, <3>2 DEF Ids
      <3>4. BuildSummary = {"high"}
        BY <3>1, <3>2, GeneralIsHigh DEF BuildSummary, Severity
      <3> QED
        BY <3>3, <3>4 DEF ReportOf
    <2>3. ReportOf.late = late
      BY DEF ReportOf
    <2> QED
      BY <2>1, <2>2, <2>3 DEF LateInv
  <1>5. CASE UNCHANGED reports /\ phase' # "audit"
    BY <1>5 DEF LateInv
  <1>6. CASE UNCHANGED <<reports, phase, late, pc, found>> /\ (expired' \/ UNCHANGED expired)
    BY <1>6 DEF LateInv
  <1> QED
    BY <1>1, <1>2, <1>3, <1>4, <1>5, <1>6
    DEF CliNext, Proceed, ParseArgs, WriteFails, Finish, Expire, allVars, cliVars, vars

-----------------------------------------------------------------------------
(* The theorems *)

\* The invariant holds whatever is typed, whichever queries fail and whenever
\* the deadline passes.
THEOREM CliInvariance == CliSpec => []CliInv
  <1>1. CliInv /\ [CliNext]_allVars => CliInv'
    BY StepList, StepCode, StepLate DEF CliInv
  <1> QED
    BY <1>1, InitCliInv, PTL DEF CliSpec

\* run returns 1 exactly if the arguments are wrong, a report could not be
\* written, or a report holds a finding at or above --fail-on.
THEOREM ExitStatus == CliSpec => []ExitTells
  <1>1. CliInv => ExitTells
    BY DEF CliInv, CodeInv
  <1> QED
    BY <1>1, CliInvariance, PTL

\* A domain whose turn comes after the deadline is reported as an error.
THEOREM LateDomains == CliSpec => []LateIsAnError
  <1>1. CliInv => LateIsAnError
    <2> SUFFICES ASSUME CliInv, NEW i \in 1..Len(reports), reports[i].late
                 PROVE  /\ reports[i].aborted /\ reports[i].severities = {"high"}
                        /\ phase = "end" /\ failThreshold \in 1..5 => status = 1
      BY DEF LateIsAnError
    <2>1. reports[i].aborted /\ reports[i].severities = {"high"}
      BY DEF CliInv, LateInv
    <2>2. ASSUME phase = "end", failThreshold \in 1..5 PROVE status = 1
      <3>1. Reaches({"high"}, failThreshold)
        BY <2>2, GeneralIsHigh DEF Reaches
      <3>2. Audits(command)
        <4>1. reports # <<>>
          OBVIOUS
        <4> QED
          BY <4>1 DEF CliInv, CodeInv
      <3> QED
        BY <2>1, <2>2, <3>1, <3>2 DEF CliInv, CodeInv, ExitTells
    <2> QED
      BY <2>1, <2>2
  <1> QED
    BY <1>1, CliInvariance, PTL
=============================================================================
