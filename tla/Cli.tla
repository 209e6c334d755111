--------------------------------- MODULE Cli --------------------------------
(***************************************************************************)
(* run of cmd/zonelint: the arguments, then one audit after the other,     *)
(* each with a Runner, a resolver and a budget of its own, all of them     *)
(* under one deadline; a report per domain, and an exit code for all.      *)
(*                                                                         *)
(* Once the deadline has passed no call is answered: a connection is not   *)
(* even opened with a context that is done (CancelledStops of              *)
(* NetworkResolver), and an answer that was on its way counts as one from  *)
(* before the deadline.                                                    *)
(***************************************************************************)
EXTENDS AuditRun

CONSTANT Commands   \* command lines: see CommandOK

\* What was typed.  The domains stand for what is found when they are audited;
\* the options are the same for all of them.
CommandOK(c) ==
    /\ c.parse \in {"ok", "help", "error"}   \* the outcome of fs.Parse
    /\ c.version \in BOOLEAN                 \* --version
    /\ c.shortcut \in BOOLEAN                \* the only domain is "version"
    /\ c.format \in {"human", "json", "sarif", "other"}
    /\ c.failOn \in STRING                   \* --fail-on, "" if left out
    /\ c.domains \in Seq(Scenes)
    /\ \A i, j \in 1..Len(c.domains) :
          \A option \in {"resolver", "active", "budget", "profile"} :
             c.domains[i][option] = c.domains[j][option]

ASSUME CommandsAssumption == \A c \in Commands : CommandOK(c)
ASSUME SomeScene == Scenes # {}

VARIABLES command,   \* never changes
          phase,     \* "args", "next", "audit" or "end"
          domains,   \* domains that are not audited yet
          expired,   \* the deadline has passed
          exitCode,  \* the variable of that name
          status,    \* the status of the process
          reports,   \* the reports that were written
          late,      \* history: the audit was begun after the deadline
          calls      \* history: the calls that all Runners made

cliVars == <<command, phase, domains, expired, exitCode, status, reports, late, calls>>
allVars == <<vars, cliVars>>

\* Before the first audit the variables of AuditRun have no meaning.
CliInit ==
    /\ command \in Commands
    /\ Init
    /\ scene = CHOOSE s \in Scenes : TRUE
    /\ phase = "args"
    /\ domains = command.domains
    /\ expired = FALSE /\ late = FALSE
    /\ exitCode = 0 /\ status = 0
    /\ reports = <<>>
    /\ calls = 0

-----------------------------------------------------------------------------
(* Arguments *)

failThreshold == ParseSeverity(command.failOn)

\* The early returns of run, in their order: those that print something and
\* succeed, and those that are errors.
Prints(c) ==
    \/ c.parse = "help"
    \/ c.parse = "ok" /\ c.version
    \/ c.parse = "ok" /\ c.domains # <<>> /\ c.shortcut
Rejected(c) ==
    /\ ~Prints(c)
    /\ \/ c.parse = "error"
       \/ c.domains = <<>>
       \/ c.format = "other"
       \/ c.failOn # "" /\ ParseSeverity(c.failOn) = 0
Audits(c) == ~Prints(c) /\ ~Rejected(c)

\* Nothing is queried before the arguments are found to be in order.
ParseArgs ==
    /\ phase = "args"
    /\ phase' = IF Audits(command) THEN "next" ELSE "end"
    /\ status' = IF Rejected(command) THEN 1 ELSE 0
    /\ UNCHANGED <<vars, command, domains, expired, exitCode, reports, late, calls>>

-----------------------------------------------------------------------------
(* One audit after the other *)

\* Mutant: the counter of the Runner serves all domains.
NewKeepingCounter(s) ==
    /\ scene' = s /\ pc' = "ns" /\ todo' = <<>>
    /\ left' = s.budget
    /\ material' = [initial |-> {}, rest |-> {}, units |-> {}, hosts |-> {}]
    /\ found' = {} /\ reported' = 0
    /\ lost' = {} /\ dialled' = {}
    /\ UNCHANGED queries

\* audit.New, and the start of Run.
New(s) ==
    /\ scene' = s /\ pc' = "ns" /\ todo' = <<>>
    /\ left' = s.budget /\ queries' = 0
    /\ material' = [initial |-> {}, rest |-> {}, units |-> {}, hosts |-> {}]
    /\ found' = {} /\ reported' = 0
    /\ lost' = {} /\ dialled' = {}

Start ==
    /\ phase = "next" /\ domains # <<>>
    /\ New(Head(domains))
    /\ phase' = "audit"
    /\ domains' = Tail(domains)
    /\ late' = expired
    /\ UNCHANGED <<command, expired, exitCode, status, reports, calls>>

\* Mutant: a query to which there is no answer never returns.
MayReturnAnswered(ok) == ok /\ ~expired
\* A query may fail at any time, and has no other way after the deadline.
MayReturn(ok) == ok => ~expired

Query ==
    /\ phase = "audit"
    /\ \E ok \in BOOLEAN : MayReturn(ok) /\ QueryStep(ok)
    /\ calls' = calls + 1
    /\ UNCHANGED <<command, phase, domains, expired, exitCode, status, reports, late>>

Local ==
    /\ phase = "audit"
    /\ LocalStep
    /\ UNCHANGED cliVars

\* The deadline passes.
Expire ==
    /\ phase \in {"next", "audit"} /\ ~expired
    /\ expired' = TRUE
    /\ UNCHANGED <<vars, command, phase, domains, exitCode, status, reports, late, calls>>

-----------------------------------------------------------------------------
(* Reports and the exit code *)

\* What a report says: the severities whose count in the summary is not zero,
\* and the number of queries.
BuildSummary == {Severity(f) : f \in found}
ReportOf == [severities |-> BuildSummary, queries |-> reported,
             aborted |-> "GeneralError" \in Ids, late |-> late]

Reaches(severities, threshold) ==
    threshold > 0 /\ \E s \in severities : Rank[s] >= threshold

\* Mutant: a domain without findings takes back the code of an earlier one.
ExitCodeAfterLast == IF Reaches(BuildSummary, failThreshold) THEN 1 ELSE 0
\* A domain with a finding at or above the threshold sets the code for good.
ExitCodeAfter == IF Reaches(BuildSummary, failThreshold) THEN 1 ELSE exitCode

\* The report is written, ...
WriteReport ==
    /\ phase = "audit" /\ pc = "done"
    /\ reports' = Append(reports, ReportOf)
    /\ exitCode' = ExitCodeAfter
    /\ phase' = "next"
    /\ UNCHANGED <<vars, command, domains, expired, status, late, calls>>

\* ... or writing fails, and nothing more is audited.
WriteFails ==
    /\ phase = "audit" /\ pc = "done"
    /\ phase' = "end" /\ status' = 1
    /\ UNCHANGED <<vars, command, domains, expired, exitCode, reports, late, calls>>

Finish ==
    /\ phase = "next" /\ domains = <<>>
    /\ phase' = "end" /\ status' = exitCode
    /\ UNCHANGED <<vars, command, domains, expired, exitCode, reports, late, calls>>

-----------------------------------------------------------------------------

Proceed == ParseArgs \/ Start \/ Query \/ Local \/ WriteReport \/ WriteFails \/ Finish
CliNext == Proceed \/ Expire

CliSpec == CliInit /\ [][CliNext]_allVars

\* The program takes its next step: every query returns.  The deadline need
\* not pass.
FairCliSpec == CliSpec /\ WF_allVars(Proceed)

-----------------------------------------------------------------------------
(* Properties *)

\* The usage text of main.go: the status is 1 if the arguments are wrong, if
\* a report could not be written, or if one of the reports that were written
\* has a finding at or above --fail-on, wherever in the list; else it is 0.
ExitTells ==
    phase = "end" =>
        (status = 1 <=>
            \/ Rejected(command)
            \/ /\ Audits(command)
               /\ \/ Len(reports) < Len(command.domains)
                  \/ \E i \in 1..Len(reports) :
                        Reaches(reports[i].severities, failThreshold))

\* The deadline is shared.  A domain whose turn comes after it is reported as
\* an error and as nothing else, never as clean and never with findings that
\* rest on nothing; the command fails for it at any threshold up to high.
LateIsAnError ==
    \A i \in 1..Len(reports) : reports[i].late =>
        /\ reports[i].aborted /\ reports[i].severities = {"high"}
        /\ phase = "end" /\ failThreshold \in 1..5 => status = 1

\* The numbers of queries in the reports add up to the calls that were made,
\* less one for every domain whose first query failed: the early return of
\* Run leaves Result.Queries at zero.
CallsAccounted ==
    phase = "next" \/ (phase = "end" /\ Len(reports) = Len(command.domains)) =>
        LET queriesOf[i \in 0..Len(reports)] ==
              IF i = 0 THEN 0
              ELSE queriesOf[i - 1] + reports[i].queries + (IF reports[i].aborted THEN 1 ELSE 0)
        IN  calls = queriesOf[Len(reports)]

\* Every command ends, whether or not queries are answered.
CliTerminates == <>(phase = "end")
=============================================================================
