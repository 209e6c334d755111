# ZoneLint in TLA+

ZoneLint audits the DNS of a domain: it asks one resolver some twenty questions,
gathers the answers and turns them into findings. This directory holds TLA+
models of that program, the TLC configurations that check them and TLAPS proofs
about its concurrent part, about what a report says, about the CNAME check in any
order of its maps, and about the exit status and the accounting of the command. Paths below are relative to `src/`.

## The system

| Part | State | Operations | Modelled in |
|---|---|---|---|
| query budget, `internal/budget` | `Counter.remaining`, `RateLimiter.tokens/last`, the semaphore's channel | `Validated`, `Consume`, `Wait`, `Acquire`, `Release` | `Budget`, `RateLimiter`, `QueryBudget` |
| network resolver, `internal/resolver/network.go` | the three guards above, shared by all callers; per call: attempt, transport, context, one goroutine per exchange | `Query`, `Transfer`, `send`, `spend`, `release`, `DefaultServer` | `NetworkResolver`, `ServerAddress` |
| audit pipeline, `internal/audit` | `Runner.queries`, the responses gathered so far, the findings | `Run` (12 steps), `query`, `transfer`, `collectApexRecords`, `collectDNSSEC`, `verifySignatures` | `AuditRun`, `ServerAddress` |
| DNSSEC and NSEC checks, `internal/dnssec`, `internal/nsec` | none (pure) | `CheckZone`, `ValidateChain`, `VerifyRRSIGForType`, `Check` | `DnssecChecks` |
| delegation, authoritative probe, AXFR, wildcard, recursion | none (pure) | `Compare`, `ProbeResponse`, `Check`, `Evaluate`, `CheckRecursion` | `AuditRun`, as the steps that call them |
| CNAME check, `internal/cname` | the visited map, the findings; both loops range over a Go map | `Build`, `Check`, `walk`, `loopRoots` | `CnameCheck`, `CnameOrder` |
| SOA, TTL, CAA and address checks | the least TTL of each type | `Check`, `Collector.Add`, `Classify`, `CheckAll` | `RecordChecks` |
| command line, `cmd/zonelint` | one deadline for all domains, the threshold, the exit code | flag parsing, the loop over the domains, `writeReport` | `Cli` |
| findings, `internal/findings` | the catalogue | `ParseSeverity`, `New`, `WithSeverity`, `Sort` | `Findings`, without texts and sorting |
| report, `internal/report` | none | `BuildSummary`, `Render` | `Cli`, without layout |
| record helpers, version, fake resolver | none | selection and encoding of records; test support | `NSNames` and `SOA` as the pipeline uses them |

**How the parts interact.** The command line makes one `Runner` per domain and
calls `Run` under a context whose deadline all domains share. `Run` is
sequential. Every question goes through `Runner.query` or `Runner.transfer`,
which count it and call the resolver; the resolver charges the budget, waits for
a slot and exchanges messages. Checks are pure functions of what was gathered.
There are no callbacks and nothing is persisted.

**What is hard.**
- In the resolver: the caller's context, the timeout of each send and the answer
  race one another, an exchange outlives the `select` that gave up on it, and any
  number of goroutines compete for the budget's units and slots (mutexes and a
  channel guard them, although the pipeline makes its calls one after the other).
- In the CNAME check: the random order of a Go map and a visited set that lets a walk
  be skipped.
- In the pipeline: every query may fail, for reasons that `Runner.query` does not
  tell apart, and all failures but the first are skipped. A check cannot tell a
  record that does not exist from an answer that did not come. The budget may run
  out anywhere. The order of the verdict's branches decides what is reported.
- In the command: one deadline for a list of audits, an exit code that any of them
  may set, a write that fails in the middle.

**What makes each part correct.** The budget never goes negative and is never
refunded; slots are neither leaked nor returned twice; no more exchanges run than
slots; retries are complete unless the context ends; every call returns. A report
says "Valid" only on evidence, never because queries were lost; what it says it
saw is true; if nothing was lost it says what the zone calls for, no more and no less; every
run ends and accounts for its queries. The exit status is a function of the reports that
were written; a domain that came too late is an error and never looks clean.

`PROJECT.json` lists the hazards with their lines and the properties aimed at them.

## Modules

```
Budget ──────────┬── RateLimiter
                 └── NetworkResolver ──── NetworkResolverProofs
                       │ implements
                     QueryBudget
Findings ── RecordChecks ─┐
            DnssecChecks ─┼─ AuditRun ──┬── MCAuditRun
            ServerAddress ┘             ├── AuditRunProofs ── AuditCountProofs ── AuditExactProofs
                                        └── Cli ──── MCCli
                                                     CliProofs
                                                     CliCountProofs (extends CliProofs and AuditExactProofs)
CnameCheck ──────┬── MCCnameCheck
                 ├── CnameProofs
                 └── CnameOrder (two instances)
```

### Budget, QueryBudget, RateLimiter
`Budget` holds the pure part of `budget.go`: defaults, constructors, and one pass
of the loop in `RateLimiter.Wait`. That pass sets the bucket to its maximum whatever
it held and whatever the time, so `Refill` is `max`. `QueryBudget` is the
abstract specification of what the guards promise: `Charge` takes a unit, `Start`
goes on the network if fewer than `Width` calls are there, `Abandon` drops a call
that never started and keeps its unit, `Finish` ends one. `RateLimiter` runs the
bucket against a clock of whole seconds.

### NetworkResolver
Callers are goroutines. `pc` says where a caller is: `rate` and `acquire` are
inside `spend`; `send`, `select` and `drain` inside `send`; `transfer` and `await`
inside `Transfer`. The actions follow the code: `Consume` and `Exhausted` are the
two results of `Counter.Consume`; `RateWait` is a pass of the bucket's loop;
`Acquire` and `AcquireCancelled` are the arms of the semaphore's `select`;
`StartSend` starts the goroutine of an exchange; `SelectDone` and `SelectCtx` are
the arms of the `select` in `send`, and `Drain` is the wait for the goroutine in
the second one. `AfterSend` is the rest of the loop body of `Query`: UDP, then TCP
unless the context is done, then the next attempt. `ExchangeReturns` (external:
`dns.Client`), `Expire` (the send's timeout) and `CtxDone` (the caller's context)
are the environment. `Return` includes the deferred release.
Both arms of a `select` may be taken when both are ready, as in Go.

`sends`, `late` and `sent` are history variables; no guard reads them. Three causes
end a call with the same error, `context.DeadlineExceeded`: a spent budget, a context
that is done and attempts that all failed. `result` has one value for it, as the caller
cannot tell them apart; `FullRetry` says that one of the three causes was there.
Addresses and message contents are left out, because no branch of these functions
depends on them. The branch of `RateWait` without a token is in the model although
it is dead: `AlwaysGranted` in `NetworkResolverProofs` proves that it is.

### AuditRun, DnssecChecks, ServerAddress
`scene` is the world of one run: the zone, the parent, the resolver and the
options. A scene never changes during a run. Each query is one action with a
parameter `ok`; it can succeed only if a unit is left and the address can be
dialled, and it can always fail. `pc` names the step, `todo` is what its loop has
still to do.

What is gathered are copies of RRsets: the copy `<<x, q>>` is the RRset `x`, with its
RRSIGs, in the answer to the query `q`. A resolver may give two queries different copies
of the same RRset, and `verifySignatures` is written for that case. `material` holds the
copies in the parts that the code tells apart: the merged NS and ANY responses
(`initial`) and all others (`rest`), because `verifySignatures` attaches the DNSKEY answer
to each response but lets the DNSKEYs of an ANY answer serve only that response; the
authority sections of answers about name servers inside the zone (`units`), which are
kept for the verification of signatures but not merged; and the name servers whose
addresses were answered (`hosts`).

`DnssecChecks` turns a zone and the material into findings. An RRSIG is its algorithm,
whether its key is published, whether it is sound, and its validity period.
`ParseDNSKEY` says which keys are accepted at all: RSA keys are read as DER, which no
DNSKEY holds, and are dropped, as is algorithm 7. `Verify` fails every P-384 signature,
because it hashes with SHA-512. `Passes` is `VerifyRRSIGForType` in one response;
`Verified` and `SigFailures` merge the responses as the code does, so that one pass
outweighs any number of failures. Verification does not look at the validity period and
`ValidateChain` does not look at the signature, as in the code; the model keeps
them apart so that the properties can say what holds of both together.

`ServerAddress` follows the text of `--resolver` along its two ways: through
`DefaultServer`, which adds a port, and straight to the dialler, which does not.

Abstractions: a response is the set of copies in it. Queries made by one loop (six types
at the apex, the addresses of the name servers) share their copies, and a negative answer
brings the same authority section from each of them. A DNSKEY set that is attached to a
response without one fares there as in its own answer. All name servers inside the zone
but the apex share the state of their signatures (`HOST`). Zones have no aliases, so
that step 7 finds nothing here. `axfr.ParseTransferResult` has a refused branch that
the pipeline cannot reach, since `makeTransferResp` gives every response the rcode of a
success; the branch is in the model. `ErrZoneRefused` comes only from the fake resolver
and is left out.

### Findings, RecordChecks
`Findings` is the catalogue: every rule with its severity. A finding is a rule and a
subject. `RecordChecks` holds the four checks on single records as functions of the zone
and the material. Numbers are kept (TTLs, serials, timers, address bytes, flags), with
the limits of the code; a name or a text that is checked label by label is the outcome of
that check; `Expire`, the only field compared with a
number above 2^31, is a pair of 16-bit words. The second half of the module says what a
zone calls for without following the code: the registered address ranges as intervals,
and a TTL of the zone beyond a documented limit. The addresses and TTLs on which the code
is known to depart from them (`Misjudged`, `ZeroTTL`) are named, and the properties claim
nothing about these; see "Deviations". For the SOA and the CAA records there is no
reference other than the check itself, and so no property.

### Cli
`Cli` extends `AuditRun` with the list of domains. `ParseArgs` is everything up to
the loop, `Start` makes the next Runner (`New` sets every variable of `AuditRun` anew),
`Query` and `Local` are the steps of the audit, `WriteReport` and `WriteFails` the two
outcomes of `writeReport`, `Finish` the end. `Expire` lets the deadline pass at any
moment; from then on no call succeeds. `late` and `calls` are history variables.
A domain stands for what is found when it is audited, so a list is a sequence of scenes
that agree on the options.

### CnameCheck, CnameOrder
`g` is the graph that `Build` returns, any partial function. Each iteration of the
two loops over it is an action (`Visit`, `FindLoop`), and the name it takes next is
free, as in a Go map. `Walk` is the list of targets from a start, `Loops` says
whether it ended in a repeated name. `loopRoots` follows the same links as `walk`
with the same cap, so it is stated with `Walk`. Findings form a bag: repeated ones
stay, and the report sorts them. The properties compare with a reference that follows no
links: the names behind a name (`Behind`) are the least set that holds its target and,
with a name, the target of that name. `CnameOrder` runs two instances
of `CnameCheck` on the same records and compares their findings.

## Runs

| Run | Question | Result |
|---|---|---|
| `resolver` | three callers, one slot, two units, one retry: do interleavings of calls, deadlines, timeouts and answers leak a slot, exceed the concurrency, give up early, go on after the context is done, break the abstract budget or leave a caller waiting? | no |
| `audit` | every pattern of lost queries over some 720 scenes: false pass, invented evidence, a report on DNSSEC, addresses or TTLs that is inexact although nothing was lost, a server without a verdict on transfers, calls unbounded or miscounted, endless run? | none |
| `cli` | lists of up to three domains, every kind of threshold, a deadline anywhere, failing writes: does the exit status tell what was reported, are late domains errors, do the counts add up, does every command end? | yes |
| `cname` | all CNAME graphs over four names in every order of the maps: are loops and dangling targets exact, are long chains covered? | yes |
| `cname_order` | is the output "deterministic" (`docs/architecture.md`)? | no: two runs on the same records differ |
| `rate_limit` | is `MaxQPS` a "token-bucket rate limit" (`docs/scope-safety.md`)? | no: every call refills the bucket |
| `outbound_cap` | is `MaxQueries` an "absolute cap on outbound queries"? | no: TCP fallback and retries are not charged |
| `axfr_refused` | is a refused transfer reported as refused (`docs/checks.md`)? | no: it is reported as allowed |
| `lost_queries` | does ambiguous evidence give "info/pass over high"? | no: a lost DNSKEY answer makes high findings |
| `unverified_valid` | does "Valid" mean that "all in-zone RRSIGs verify"? | no: those without a key at hand are skipped |
| `resolver_address` | does `--resolver 1.1.1.1` of the README work? | no: it is dialled without a port |
| `algorithms` | does a sound zone pass with each algorithm that `docs/dnssec.md` supports? | no: not with RSA, nor with P-384 |

**Bounds.** With three callers and one slot (`audit.New` gets one, too, where it leaves
the limits at zero) two callers wait while the third holds the slot, and either may give up or get it
next; with two units the last one is contested and the third call finds the budget spent.
One retry makes four exchanges per call: both transports and two attempts.
`audit` takes zones in which one RRset is signed otherwise than the rest (every kind of
signature, none, or two of them; with a DS that matches, one that does not, none, and
without keys), zones in which the copies of one RRset are bad in the answers to some
queries and good or unsigned in the others, keys of every algorithm alone and in pairs,
the product of delegations and
options with up to two name servers (a loop of 0, 1 and 2), and budgets 1 to 15,
which run out in every step of a pipeline of 15 queries. Records are taken at their
limits: both ends of every address range and their neighbours, in the apex and in a name
server; every TTL limit of every profile with a second copy of the set below, at and
above it. An SOA record for each part of its check and CAA records of each kind are there
too. Name servers are outside the zone, inside it, and the apex itself.
`left`, `queries` and `todo` are bounded by the scene, so no state constraint is needed.
`cli` needs two domains to let one audit follow another, with the graver one first and
last, and three to have one in the middle. Its seven domains have reports whose worst
finding is a pass, low, high, critical, or that have none, with ample and with short
budgets; its thresholds are all kinds that `ParseSeverity` tells apart. All other ways
to call the command are enumerated with an empty list and with one domain.
In `cname` four names give chains of up to four links, every loop of one to four
names with every tail that fits, and two chains that share an end; with `MaxChain`
at 2 there are chains below, at and above the limit (the pipeline passes 8). The
cap of 100 links is the code's and is not reached. The two names outside the zone
are interchangeable.
`RateLimiter` bounds its clock and its number of calls by constants.

**Deadlock.** The pipeline and the CNAME check stop at `done` and the command at
`end`, and `CHECK_DEADLOCK` is off for them.
In the resolver a call is possible at any time (it fails when the budget is
spent), so deadlock is checked there.

**Fairness.** `NetworkResolver!FairSpec` has weak fairness of what a caller inside
a call does next, and of the return of an exchange: goroutines are scheduled, and
`dns.Client` has dial and read timeouts. Nothing is assumed of new calls, timeouts
or cancellations. Weak fairness suffices for the slot, which other callers may
take again and again, because each of them pays a unit and the budget is finite.
`AuditRun!FairSpec` has weak fairness of the pipeline's next step: it is one
goroutine, and each query returns by `EveryCallReturns`. `Cli!FairCliSpec` has the same
of the command's next step; nothing is assumed of the deadline, so that `CliTerminates`
holds with and without it.

## Proofs

`NetworkResolverProofs` proves the following for every finite set of callers and
every integer configuration, negative and zero included (`CallersAssumption`,
`ConfigAssumption`):

- `TypeCorrect`: the counter stays in `0..MaxQueries`, the channel in its capacity;
- `SlotsCorrect`: one token in the semaphore for each call past `Acquire`;
- `ConcurrencyBounded`: at most `MaxConcurrency` exchanges run, the abandoned ones
  included;
- `TimeoutAfterAllAttempts`: `FullRetry`; `CancellationIsPrompt`: `CancelledStops`;
- `TrafficBounded`: `OutboundBound`, at most `2(retries + 1)` exchanges for each unit
  spent, over all callers together;
- `Refinement`: the resolver implements `QueryBudget`.

The inductive invariant `IInv` is `TypeOK`, `SlotsMatchHolders` and, for each
caller, `CallerOK`. None of the properties is inductive alone. That `sends` stays
within `PerCall` needs the value of `sends` at each place as a function of attempt
and transport (`SendsOK`); that `slots` counts the holders needs the change of a
cardinality when one caller moves (`HoldersGain`, `HoldersLose`), and the bound on
running exchanges follows because an exchange exists exactly where its caller holds
a slot (`WireOK`). `late` is bounded by what the transport still allows (`LateOK`).
`StepIInv` has one case per action; `AfterSendStep` serves the two actions that
continue the loop. `TrafficBounded` adds `CreditInv`: what was sent and what the calls
under way may still send (`Unsent`) stay within what the spent units allow. A sum over
callers would need induction over them, so `Unsent` is a set of pairs of a caller and
the number of a send, and the sum is its cardinality. The refinement maps `left` to `remaining`, `paid` to the callers
inside `spend` and `active` to the holders, and uses `IInv` for the guard of
`Start`.

`AuditRunProofs` proves for every set of scenes (`ScenesAssumption`: any zone,
options, name servers and budget), and for every pattern of lost queries:

- `NoFalsePass`: `ValidIsBacked`, a pass is never the product of lost queries, nor of
  copies that differ;
- `EvidenceIsReal`: `PositiveEvidence`, what a report says was seen was there: a
  signature, a TTL beyond the limit, an address in the registered range that the finding
  names.

`ValidIsBacked` speaks of the history `lost`, of the material and of findings made
at different steps, so it needs to know how they hang together before the DNSSEC
checks run: a DS was gathered only if its query was answered, a DNSKEY only if the
zone has one (`MaterialInv`); a DNSKEY query that was not lost has brought the key
(`AnswerInv`); no DNSSEC finding is made before the checks (`FoundInv`). After the
checks nothing touches the material or the fate of those two queries (`PassKept`).
`VerdictBacked` is the heart: it follows a "Valid" back through the branches of the
verdict, and through the merge over responses to a copy whose signatures are all sound.
`RecordEvidence` does the same for the record checks; its part on addresses
(`ClassifyRegistered`) shows for every address of four bytes, and every one of 128 bits,
that the cases of the switch agree with the intervals of the reference, but for the
misjudged ones. The proof does not look at the number of name servers and of apex types.

`AuditCountProofs` adds what depends on those numbers:

- `TypeCorrect`: `TypeOK`, the budget never goes negative, a loop step has work to do;
- `CallsCounted`: `QueryCount`, for every number of name servers.

`CountInv` gives the count at each place of the pipeline as a function of what the loop
has still to do. After the probes it is known only within bounds, because their number
depends on which of them were lost. Calls are counted whether or not the budget had a unit
left for them, so the bound is one of the loops and not of the budget.

`AuditExactProofs` adds what a whole report says:

- `ReportIsExact`: `LosslessIsExact`, a run that lost no query reports on DNSSEC exactly
  what a plainly signed zone calls for;
- `RecordReportIsExact`: `RecordsExact`, the same of addresses and TTLs;
- `OneVerdictEach`: `VerdictPerServer`, for any number of name servers and any pattern
  of lost queries.

A zone is plainly signed (`PlainlySigned`) if all copies of an RRset carry the same
signatures, its algorithms are handled as their RFCs say and, where there are keys,
every signature is by one of them. `Reference` is stated from the zone alone: it knows
neither responses nor what was gathered. On other zones the documents contradict the code
or leave the answer open, and what still holds there is `ValidIsBacked` and
`PositiveEvidence`.

`ExactInv` encloses the material from both sides: it holds nothing but what zone and
parent publish (`WithinZone`) and, as long as nothing was lost, all that was asked for,
step by step and, inside a loop, for what the loop has behind it (`Complete`). When the
checks run both sides meet (`GatheredAll`, `MergedAll`): the signatures seen are those of
the zone (`AllSigs`), each was judged with the key at hand (`AllJudged`, `FailuresExact`),
and what the checks make of it is the reference (`DnssecExact`, `RecordsExactly`);
`RecordsInv` and `DnssecInv` carry that to the end, across steps that add findings of
other kinds. `AxfrInv` says which servers have their verdict while the loop runs. It
needs that no server comes twice, which `SceneOK` takes from `NSNames`
(`internal/dns/util.go`), where a map drops repeated names.

`CliProofs` proves for every set of command lines (`CommandsAssumption`):

- `ExitStatus`: `ExitTells`;
- `LateDomains`: `LateIsAnError`.

`CliInv` has three parts: every domain is in a report,
under audit or ahead (`ListInv`); the exit code is 1 exactly if a report so far reaches
the threshold (`CodeInv`); an audit begun after the deadline is at its first query or
has failed, with that one finding (`LateInv`).

`CliCountProofs` brings in the rest of what is known of one audit:

- `CallsAddUp`: `CallsAccounted`, the reports account for the calls of all Runners;
- `AuditsAreSeparate`: `TypeOK`, `QueryCount` and `VerdictPerServer` hold of every audit
  of a list.

A step of an audit in a list is a step of `AuditRun`, and a new Runner is an initial
state of it (`EveryAudit`), so `AuditInv` holds of each. `CallInvariant` says that the
calls are those of the reports so far and of the audit under way. The sum over reports is
a recursive function; `SumIs(list, n)` says that there is a function that satisfies its
equations and that every such function comes to `n`. A report more needs one equation
more (`SumOfMore`), and no induction.

`CnameProofs` proves for every finite set of names (`NamesAssumption`; a Go map is
finite) and every limit:

- `CnameTypes`: `TypeOK`, for graphs of any size;
- `LoopsReported`, `DanglingReported`, `LongChainsReported`: `LoopsExact`,
  `DanglingExact` and `LongChainsCovered`, for graphs with at most 100 names.

The condition is needed: `walk` and `loopRoots` give up after 100 links, so in a larger
graph a loop may go unreported, and the name at which a walk was cut is looked up as if
the chain ended there. The proof has two halves. The first says what the loop of `walk`
computes: by induction over its rounds (`Induction`, stated with a set because the
provers cannot instantiate an operator) the chain is a path of the graph without
repetitions, hence no longer than the graph is large (`PathBound`), hence the loop
ended for one of its first two reasons, and the names on it are exactly those behind
its start (`WalkIsBehind`). From this follow which starts loop (`LoopsAreCycles`) and how
long a chain is (`HopsAreLinks`). The second half is `CheckInv`, which is about the
order: there is a set `W` of names that were walked, `visited` is what those walks met,
each name of the graph is in `W`, is visited or is still to come, and the findings are
those of `W` (`VisitInv`). Which set it is depends on the order; at the end any such `W`
gives the same dangling targets, because a skipped name lies behind a walked one and
ends where that ends.

**Only model-checked:** `EveryCallReturns`, `Terminates` and `CliTerminates`. They are
liveness under fairness, which needs `ENABLED` and is out of the prover's reach. Every
invariant of a passing run is stated by a theorem. The runs that end in a violation are
counterexamples, and there is nothing to prove about them.

## Deviations

What the models keep because the code does it, although documents, comments or standards
say otherwise. Where a property would have had to bless such behaviour it makes no claim
instead; these places are named.

- `addrs`: all of 192.0.0.0/8 is "private", where the comments (`addrs.go:45`, `:80`) say
  192.168.0.0/16, and the cases for 192.0.0.2 and 192.0.2.0/24 cannot be reached or do not
  exist. `Misjudged` takes these addresses out of `PositiveEvidence` and `RecordsExact`.
  0.0.0.0/8, 100.64.0.0/10, 198.18.0.0/15 and 2001:db8::/32 count as public; the reference
  has the categories of the check and leaves them out, too.
- TTLs and the SOA are seen only in the answers to NS and ANY. A TTL of zero is passed
  over, while `docs/ttl.md:16` would have it reported as short: `ZeroTTL` takes such types
  out of `RecordsExact`.
- `soa`: a serial is compared with the date of eight digits, and any serial above
  2000010100 passes, those of the future included.
- `caa`: the critical flag is tested as bit 0 (0x01) and not as bit 7 (0x80); a malformed
  value is reported under the rule for unknown critical tags, with severity low
  (`docs/checks.md:94` has an id of its own for it). SOA and CAA findings are produced by
  the model and read by `Cli`, but no property compares them with anything.
- `nsec`: an NSEC3 with zero iterations and no salt is "malformed"; the parent's NSEC3
  records, which come with a negative DS answer, are judged as if they were the zone's,
  and hide that it has none, although `chain.go:283` says that they are no part of the
  zone's DNSSEC state. `LosslessIsExact` speaks of `NoNSEC` only where the parent's did not
  come in, and no property speaks of `MalformedNSEC3`.
- `dnssec`: RSA keys and algorithm 7 are dropped and P-384 signatures fail (run
  `algorithms`); `Supported` keeps the exact properties off them. An RRSIG by a key that is
  not published is skipped, and a pass may stand beside it (run `unverified_valid` for
  the case of a lost query); `PlainlySigned` excludes zones with such signatures. A pass
  in one response outweighs failures in all others: `ValidIsBacked` and `PositiveEvidence`
  are stated for that.
- Signatures in negative answers about name servers inside the zone are verified but not
  otherwise looked at: "Valid" can rest on them alone, beside `NoRRSIG` or over one that
  expired. The last conjunct of `ValidIsBacked` is therefore conditional, and its clause
  on periods is about merged signatures.
- `delegation`: glue is looked for in the answers to NS and ANY of the apex, so every
  name server inside the zone but the apex itself lacks it.
- Probes, transfers and recursion tests all go to the configured resolver, and the SOA
  probe stops at the first answer, where `docs/active-scans.md:10`, `docs/scope-safety.md:24`
  and `docs/architecture.md:81` speak of each authoritative server. `VerdictPerServer` says
  only that each server has one verdict, and `QueryCount` is an upper bound that the
  documented probing would keep as well.
- `docs/scope-safety.md:54` says that the run stops when the budget is spent. It does not:
  the pipeline goes on, its calls fail, and they are counted. No property asks for either.
- `--max-queries`, "max total queries", is per domain, and an aborted run reports none.
- `cname`: what resolves is what `buildResolveTarget` says. `DanglingExact` takes that
  as given and is about the walk, not about the lookup.
- An error that ends an audit (`GeneralError`) makes the command fail only with
  `--fail-on`; `ExitTells` follows the code there.

## Not modelled

- Message formats, digests and cryptography (`dnssec/parse.go`, `dns/util.go`):
  only the outcome for each algorithm is kept. They turn bytes into bytes, without state.
- Texts, sorting and layout (`findings`, `report`).
- Random names (`wildcard`, `active`): a probe meets a name that does not exist.
- The fake resolver and `version`: test support and a constant.

## State of the plan

Done, in the order of importance: the budget and the resolver, with their refinement and
proofs; the pipeline with its DNSSEC verdict and its record checks, and the proofs that
lost queries make neither a pass nor evidence, that calls are counted, and that a report
without losses on a plainly signed zone is exact; the CNAME check and its proofs; the command line with its
deadline, exit status and accounting, and their proofs.

Left: the answers of a server that the probe may meet besides a plain SOA answer, aliases
inside `AuditRun`, and what the CNAME check still guarantees in a graph beyond the cap.
