------------------------------ MODULE AuditRun ------------------------------
(***************************************************************************)
(* Runner.Run of internal/audit: the pipeline that queries a zone, gathers *)
(* what comes back and turns it into findings.                             *)
(*                                                                         *)
(* The pipeline is sequential; what makes it hard is that every query may  *)
(* fail (timeout, cancelled context, exhausted budget: Runner.query cannot *)
(* tell them apart) and that all but the first failure are skipped over.   *)
(* Each query is one action that either is answered, when the budget has a *)
(* unit left, or fails.                                                    *)
(*                                                                         *)
(* A response is the set of the copies of RRsets that it carries, see      *)
(* DnssecChecks.  The zones here have no aliases; the CNAME check is the   *)
(* subject of CnameCheck.                                                  *)
(***************************************************************************)
EXTENDS Integers, Sequences, FiniteSets, DnssecChecks, RecordChecks, ServerAddress

CONSTANT Scenes   \* zones and options: see SceneOK

\* The types that collectApexRecords asks for.
ApexTypes == <<"A", "AAAA", "MX", "CNAME", "TXT", "CAA">>

\* What the world looks like during a run.
SceneOK(s) ==
    /\ s.keys \subseteq Algorithms
    /\ s.ds \in {"none", "mismatch"} \cup s.keys
    /\ DOMAIN s.odd \subseteq Copies
    /\ \A sig \in Sigs(s, Copies) : IsSig(sig) /\ (sig.published => sig.alg \in s.keys)
    /\ IsDenial(s.denial)
    /\ IsDenial(s.parentDenial)     \* how the parent denies that there is a DS
    /\ s.types \subseteq {"A", "AAAA", "CAA"}  \* apex types that exist
    /\ s.ns \in Seq(STRING)         \* the names in the NS set, each once (NSNames)
    /\ \A i, j \in 1..Len(s.ns) : s.ns[i] = s.ns[j] => i = j
    /\ s.inZone \subseteq STRING    \* those inside the zone; "apex" is its own
    /\ RecordsOK(s)                 \* the contents of the records
    /\ DOMAIN s.hostAddrs = {s.ns[i] : i \in 1..Len(s.ns)}
    /\ s.anyFull \in BOOLEAN        \* ANY is answered with everything
    /\ s.wild \in BOOLEAN           \* the zone has a wildcard
    /\ s.sub \in {"none", "same", "other"}  \* the NS set at sub.<zone>
    /\ s.recursive \in BOOLEAN      \* the resolver sets RA; else it sets AA
    /\ s.resolver.port \in BOOLEAN  \* --resolver, see ServerAddress
    /\ s.axfr \in {"allowed", "refused", "error"}
    /\ s.active \in BOOLEAN         \* --active
    /\ s.budget \in Nat \ {0}       \* --max-queries, after Validated

ASSUME ScenesAssumption == \A s \in Scenes : SceneOK(s)

VARIABLES scene,     \* the zone and the options; never changes
          pc,        \* the step of the pipeline
          todo,      \* what the loop of that step still has to do
          left,      \* units left in the resolver's counter
          queries,   \* Runner.queries
          material,  \* what the responses brought, see DnssecChecks
          found,     \* the findings
          reported,  \* Result.Queries
          lost,      \* history: which queries failed
          dialled    \* history: the addresses that calls were sent to

vars == <<scene, pc, todo, left, queries, material, found, reported, lost, dialled>>

Init ==
    /\ scene \in Scenes
    /\ pc = "ns"
    /\ todo = <<>>
    /\ left = scene.budget
    /\ queries = 0
    /\ material = [initial |-> {}, rest |-> {}, units |-> {}, hosts |-> {}]
    /\ found = {}
    /\ reported = 0
    /\ lost = {}
    /\ dialled = {}

-----------------------------------------------------------------------------
(* Queries and responses *)

\* The failures that the properties tell apart.
Lost == lost \cup {IF pc \in {"dnskey", "ds"} THEN pc ELSE "other"}

\* Mutants: a call waits for a budget that is spent; it overdraws it.
CallBlocking(server, ok) ==
    /\ left > 0
    /\ ok => Dialable(server)
    /\ queries' = queries + 1
    /\ left' = left - 1
    /\ dialled' = dialled \cup {server}
    /\ lost' = IF ok THEN lost ELSE Lost
CallUnguarded(server, ok) ==
    /\ ok => Dialable(server)
    /\ queries' = queries + 1
    /\ left' = left - 1
    /\ dialled' = dialled \cup {server}
    /\ lost' = IF ok THEN lost ELSE Lost

\* Runner.query and Runner.transfer count the call and pass it to the
\* resolver, which fails it when the budget is spent or when the server
\* cannot be dialled, and may fail it at any time.
Call(server, ok) ==
    /\ ok => left > 0 /\ Dialable(server)
    /\ queries' = queries + 1
    /\ left' = IF left > 0 THEN left - 1 ELSE 0
    /\ dialled' = IF left > 0 THEN dialled \cup {server} ELSE dialled
    /\ lost' = IF ok THEN lost ELSE Lost

Ask(ok) == Call(QueryServer(scene.resolver), ok)

\* The authority section of a negative answer.
Negative == {"SOA"} \cup {x \in {"NSEC"} : scene.denial.kind # "none"}

\* The copies in the answer to a query of the zone.
NSAnswer     == Of(IF scene.ns # <<>> THEN {"NS"} ELSE Negative, "ns")
ANYAnswer    == Of(IF scene.anyFull
                     THEN {"SOA"} \cup scene.types
                            \cup {x \in {"NS"} : scene.ns # <<>>}
                            \cup {x \in {"DNSKEY"} : scene.keys # {}}
                     ELSE {}, "any")
TypeAnswer(t) == Of(IF t \in scene.types THEN {t} ELSE Negative, "apex")
KeyAnswer    == Of(IF scene.keys # {} THEN {"DNSKEY"} ELSE Negative, "dnskey")
DSAnswer     == Of(IF scene.ds # "none" THEN {"DS"}
                   ELSE {x \in {"PNSEC"} : scene.parentDenial.kind # "none"}, "ds")
RandomAnswer == Of(IF scene.wild THEN {"WILD"} \cup (Negative \ {"SOA"}) ELSE Negative,
                   "random")

\* The answer section for an address of a name server inside the zone.
HostAnswer(host, t) ==
    Of(IF host = "apex" THEN scene.types \cap {t}
       ELSE {x \in {"HOST"} : t = "A" /\ scene.hostAddrs[host] # {}}, "host")

Gather(copies) == material' = [material EXCEPT !.rest = @ \cup copies]

Goto(step, list) == pc' = step /\ todo' = list

\* Mutant: the map `seen` is not consulted, and another section lists the
\* name servers again.
AddressQueriesRepeated == [i \in 1..(4 * Len(scene.ns)) |->
                     <<scene.ns[1 + (((i - 1) \div 2) % Len(scene.ns))],
                       IF i % 2 = 1 THEN "A" ELSE "AAAA">>]
\* A and AAAA of every name server.
AddressQueries == [i \in 1..(2 * Len(scene.ns)) |->
                     <<scene.ns[(i + 1) \div 2], IF i % 2 = 1 THEN "A" ELSE "AAAA">>]

-----------------------------------------------------------------------------
(* Steps 1 and 2: the apex, the delegation *)

\* Mutant: the run goes on without an answer to its first query.
QueryNSGoingOn(ok) ==
    /\ pc = "ns"
    /\ Ask(ok)
    /\ material' = IF ok THEN [material EXCEPT !.initial = NSAnswer] ELSE material
    /\ Goto("any", <<>>)
    /\ UNCHANGED <<scene, found, reported>>

\* The first query is the only one whose failure ends the run.  The early
\* return leaves Result.Queries at zero.
QueryNS(ok) ==
    /\ pc = "ns"
    /\ Ask(ok)
    /\ IF ok THEN /\ material' = [material EXCEPT !.initial = NSAnswer]
                  /\ Goto("any", <<>>)
                  /\ UNCHANGED found
             ELSE /\ found' = {F("GeneralError", "zone")}
                  /\ Goto("done", <<>>)
                  /\ UNCHANGED material
    /\ UNCHANGED <<scene, reported>>

QueryANY(ok) ==
    /\ pc = "any"
    /\ Ask(ok)
    /\ material' = IF ok THEN [material EXCEPT !.initial = @ \cup ANYAnswer]
                         ELSE material
    /\ Goto("apex", ApexTypes)
    /\ UNCHANGED <<scene, found, reported>>

\* collectApexRecords: six types at the apex, ...
QueryApex(ok) ==
    /\ pc = "apex"
    /\ Ask(ok)
    /\ IF ok THEN Gather(TypeAnswer(Head(todo))) ELSE UNCHANGED material
    /\ IF Tail(todo) # <<>> THEN Goto("apex", Tail(todo))
       ELSE IF scene.ns # <<>> THEN Goto("addresses", AddressQueries)
       ELSE Goto("child", <<>>)
    /\ UNCHANGED <<scene, found, reported>>

\* ... then the addresses of the name servers.  Of these responses only the
\* answer section joins the gathered records; all of it is kept as a unit for
\* the verification of signatures, where names outside the zone are skipped.
GatherAddress(host, t) ==
    LET answer == HostAnswer(host, t)
    IN  material' = [material EXCEPT
          !.hosts = @ \cup {h \in {host} \ {"apex"} : t = "A"},
          !.rest  = IF host \in scene.inZone THEN @ \cup answer ELSE @,
          !.units = IF host \in scene.inZone /\ answer = {}
                      THEN @ \cup Of(Negative, "host") ELSE @]

QueryAddress(ok) ==
    /\ pc = "addresses"
    /\ Ask(ok)
    /\ IF ok THEN GatherAddress(Head(todo)[1], Head(todo)[2]) ELSE UNCHANGED material
    /\ IF Tail(todo) # <<>> THEN Goto("addresses", Tail(todo)) ELSE Goto("child", <<>>)
    /\ UNCHANGED <<scene, found, reported>>

\* delegation.Compare of the zone's NS set with the one at sub.<zone>.  Glue
\* is taken from the merged first response, which has addresses of the apex
\* at best.
Hosts == {scene.ns[i] : i \in 1..Len(scene.ns)}
ChildNS == IF scene.sub = "same" THEN Hosts ELSE {"elsewhere"}
Glue == {h \in {"apex"} : Has(material.initial, "A") \/ Has(material.initial, "AAAA")}
Compare ==
       {f \in {F("InconsistentNS", "zone")} : Hosts # ChildNS}
  \cup {f \in {F("Lame", "zone")} : scene.recursive /\ ChildNS # {}}
  \cup {F("NonAuthNS", h) : h \in Hosts \ ChildNS}
  \cup {F("MissingGlue", h) : h \in (Hosts \cap scene.inZone) \ Glue}

\* Compared only when the query brought an answer.  Afterwards the name
\* servers are probed, if the first response was authoritative.
QueryChild(ok) ==
    /\ pc = "child"
    /\ Ask(ok)
    /\ found' = found \cup IF ok /\ scene.sub # "none" THEN Compare ELSE {}
    /\ IF ~scene.recursive /\ scene.ns # <<>> THEN Goto("probe", scene.ns)
                                              ELSE Goto("records", <<>>)
    /\ UNCHANGED <<scene, material, reported>>

\* authserver.ProbeResponse of an authoritative SOA answer.  TCPReachable,
\* Consistent and, for an answer that holds only the SOA, HasNS stay false.
ProbeResponse == [UDPReachable |-> TRUE, TCPReachable |-> FALSE,
                  AA |-> ~scene.recursive, HasSOA |-> TRUE, HasNS |-> FALSE,
                  HasEDNS |-> TRUE, Consistent |-> FALSE]
CheckServer(host, r) ==
       {f \in {F("AuthUDPFail", host)} : ~r.UDPReachable}
  \cup {f \in {F("AuthTCPFail", host)} : ~r.TCPReachable}
  \cup {f \in {F("AuthNoAA", host)} : r.UDPReachable /\ ~r.AA}
  \cup {f \in {F("AuthNoSOA", host)} : r.UDPReachable /\ ~r.HasSOA}
  \cup {f \in {F("AuthNoNS", host)} : r.UDPReachable /\ ~r.HasNS}
  \cup {f \in {F("AuthNoEDNS", host)} : r.UDPReachable /\ ~r.HasEDNS}
  \cup {f \in {F("AuthInconsistent", host)} : ~r.Consistent}

\* The loop over the name servers stops at the first answer.
Probe(ok) ==
    /\ pc = "probe"
    /\ Ask(ok)
    /\ found' = found \cup IF ok THEN CheckServer(Head(todo), ProbeResponse) ELSE {}
    /\ IF ok \/ Tail(todo) = <<>> THEN Goto("records", <<>>)
                                  ELSE Goto("probe", Tail(todo))
    /\ UNCHANGED <<scene, material, reported>>

-----------------------------------------------------------------------------
(* Steps 3 to 9: checks on what was gathered *)

\* SOA, TTL, CAA and address checks, see module RecordChecks.
CheckRecords ==
    /\ pc = "records"
    /\ found' = found \cup RecordFindings(scene, material)
    /\ Goto("dnskey", <<>>)
    /\ UNCHANGED <<scene, left, queries, material, reported, lost, dialled>>

\* collectDNSSEC: DNSKEY, DS, a name that does not exist.
QueryDNSKEY(ok) ==
    /\ pc = "dnskey"
    /\ Ask(ok)
    /\ IF ok THEN Gather(KeyAnswer) ELSE UNCHANGED material
    /\ Goto("ds", <<>>)
    /\ UNCHANGED <<scene, found, reported>>

QueryDS(ok) ==
    /\ pc = "ds"
    /\ Ask(ok)
    /\ IF ok THEN Gather(DSAnswer) ELSE UNCHANGED material
    /\ Goto("random", <<>>)
    /\ UNCHANGED <<scene, found, reported>>

QueryRandom(ok) ==
    /\ pc = "random"
    /\ Ask(ok)
    /\ IF ok THEN Gather(RandomAnswer) ELSE UNCHANGED material
    /\ Goto("dnssec", <<>>)
    /\ UNCHANGED <<scene, found, reported>>

\* Steps 8 and 9 proper.
CheckDNSSEC ==
    /\ pc = "dnssec"
    /\ found' = found \cup {F(id, "zone") : id \in DnssecFindings(scene, material)}
    /\ IF scene.active /\ scene.ns # <<>> THEN Goto("axfr", scene.ns)
                                          ELSE Goto("wildcard", <<>>)
    /\ UNCHANGED <<scene, left, queries, material, reported, lost, dialled>>

-----------------------------------------------------------------------------
(* Steps 10 to 12: zone transfer, wildcard, recursion *)

\* NetworkResolver.Transfer hands back the records of any response at all,
\* and makeTransferResp gives them the rcode of a success.
MakeTransferResp(ok) == IF ok THEN "success" ELSE "nil"
\* axfr.ParseTransferResult and axfr.Evaluate.
ParseTransferResult(resp) ==
    CASE resp = "nil"     -> "AXFRFailed"
      [] resp = "refused" -> "AXFRRefused"
      [] resp = "success" -> "AXFRAllowed"

\* Mutant: the first server that lets the zone go ends the loop.
TransferUntilAllowed(ok) ==
    /\ pc = "axfr"
    /\ Call(TransferServer(scene.resolver), ok)
    /\ ok => scene.axfr # "error"
    /\ found' = found \cup {F(ParseTransferResult(MakeTransferResp(ok)), Head(todo))}
    /\ IF Tail(todo) # <<>> /\ ~ok THEN Goto("axfr", Tail(todo)) ELSE Goto("wildcard", <<>>)
    /\ UNCHANGED <<scene, material, reported>>

\* One transfer per name server, sent to the configured resolver; without
\* one the address is empty.
Transfer(ok) ==
    /\ pc = "axfr"
    /\ Call(TransferServer(scene.resolver), ok)
    /\ ok => scene.axfr # "error"
    /\ found' = found \cup {F(ParseTransferResult(MakeTransferResp(ok)), Head(todo))}
    /\ IF Tail(todo) # <<>> THEN Goto("axfr", Tail(todo)) ELSE Goto("wildcard", <<>>)
    /\ UNCHANGED <<scene, material, reported>>

\* wildcard.IsWildcardResponse: a random name resolves.
IsWildcardResponse == scene.wild

\* active.CheckRecursion: RA is set and a random name resolves.
CheckRecursion == scene.recursive /\ scene.wild

\* Step 11.
QueryWildcard(ok) ==
    /\ pc = "wildcard"
    /\ Ask(ok)
    /\ found' = found \cup {f \in {F("WildcardPresent", "zone")} : ok /\ IsWildcardResponse}
    /\ IF scene.active /\ scene.ns # <<>> THEN Goto("recursion", scene.ns)
                                          ELSE Goto("report", <<>>)
    /\ UNCHANGED <<scene, material, reported>>

\* Step 12: one query per name server, all of them to the resolver.
QueryRecursion(ok) ==
    /\ pc = "recursion"
    /\ Ask(ok)
    /\ found' = found \cup {f \in {F("RecursionOpen", Head(todo))} : ok /\ CheckRecursion}
    /\ IF Tail(todo) # <<>> THEN Goto("recursion", Tail(todo)) ELSE Goto("report", <<>>)
    /\ UNCHANGED <<scene, material, reported>>

\* Sorting leaves the set of findings alone; the counters are filled in.
Report ==
    /\ pc = "report"
    /\ reported' = queries
    /\ Goto("done", <<>>)
    /\ UNCHANGED <<scene, left, queries, material, found, lost, dialled>>

-----------------------------------------------------------------------------

\* The steps that make a call, and those that do not.
QueryStep(ok) ==
    \/ QueryNS(ok) \/ QueryANY(ok) \/ QueryApex(ok) \/ QueryAddress(ok)
    \/ QueryChild(ok) \/ Probe(ok)
    \/ QueryDNSKEY(ok) \/ QueryDS(ok) \/ QueryRandom(ok)
    \/ Transfer(ok) \/ QueryWildcard(ok) \/ QueryRecursion(ok)
LocalStep == CheckRecords \/ CheckDNSSEC \/ Report

Next == (\E ok \in BOOLEAN : QueryStep(ok)) \/ LocalStep

Spec == Init /\ [][Next]_vars

\* The pipeline is one goroutine, and every query returns (EveryCallReturns
\* of NetworkResolver), so it takes its next step.
FairSpec == Spec /\ WF_vars(Next)

-----------------------------------------------------------------------------
(* Properties *)

Steps == {"ns", "any", "apex", "addresses", "child", "probe", "records", "dnskey",
          "ds", "random", "dnssec", "axfr", "wildcard", "recursion", "report", "done"}

\* Types; the budget never goes negative, a loop step always has an element
\* to work on, and nothing is gathered that the zone or its parent lacks.
TypeOK ==
    /\ pc \in Steps
    /\ pc \in {"apex", "addresses", "probe", "axfr", "recursion"} <=> todo # <<>>
    /\ left \in 0..scene.budget
    /\ queries \in Nat /\ reported \in Nat
    /\ material.initial \cup material.units \subseteq Copies
    /\ material.rest \subseteq Copies \cup Of({"DS", "PNSEC"}, "ds")
    /\ material.hosts \subseteq Hosts
    /\ lost \subseteq {"dnskey", "ds", "other"}

Ids == {f.id : f \in found}

\* A pass is never the product of lost queries: whatever subset of the
\* queries failed, "Valid" means that the DS was answered and was made from
\* a published key, that no merged signature is outside its validity period,
\* that a sound signature by a published key was seen, and that the findings
\* NoDNSKEY, SignExpired, SignNotYet, InvalidSig, BrokenChain and NoDS do not
\* stand beside it.  If the DNSKEY query was answered, every RRset that was
\* seen with a checkable signature, in whatever response, has a response in
\* which all of them are sound.  NoRRSIG is only ruled out if no response was
\* left unmerged: signatures in one are verified, and not counted.
Checkable(c) == {s \in SigsOf(scene, c) : s.published /\ ParseDNSKEY(s.alg)}
SoundCopy(c) == Checkable(c) # {} /\ \A s \in Checkable(c) : s.sound
ValidIsBacked ==
    LET seen == Seen(material)
    IN  "Valid" \in Ids =>
          /\ scene.ds \in scene.keys /\ "ds" \notin lost
          /\ \A s \in Sigs(scene, Combined(material)) : s.period = "current"
          /\ \E c \in seen : SoundCopy(c)
          /\ "dnskey" \notin lost =>
                \A c \in seen : Checkable(c) # {} => \E d \in seen : d[1] = c[1] /\ SoundCopy(d)
          /\ Ids \cap {"NoDNSKEY", "SignExpired", "SignNotYet",
                       "InvalidSig", "BrokenChain", "NoDS"} = {}
          /\ material.units = {} => "NoRRSIG" \notin Ids

\* The algorithms whose keys are read and whose signatures are checked as
\* their RFCs say: see SoundZoneIsValid for the others.
Supported == scene.keys \subseteq {"ed25519", "p256"}

\* Findings that rest on something that was seen are true of it, whichever
\* queries were lost.  A signature that is reported as invalid covers an RRset
\* that came with an unsound signature, in the response itself or in the
\* DNSKEY set attached to it, everywhere it could be checked; those reported
\* for their period or algorithm were seen; findings on addresses and TTLs
\* agree with the registries and the documented limits.
PositiveEvidence ==
    LET seen == Seen(material)
        bad(c) == \E d \in seen : /\ d[1] = c[1] /\ UnitOf(d) \in {UnitOf(c), "dnskey"}
                                 /\ \E s \in Checkable(d) : ~s.sound
    IN  /\ "InvalidSig" \in Ids /\ Supported =>
              \E x \in RRsets :
                 /\ \E c \in seen : c[1] = x /\ Checkable(c) # {} /\ bad(c)
                 /\ "dnskey" \notin lost =>
                       \A c \in seen : c[1] = x /\ Checkable(c) # {} => bad(c)
        /\ "SignExpired" \in Ids => \E s \in Sigs(scene, seen) : s.period = "past"
        /\ "SignNotYet" \in Ids => \E s \in Sigs(scene, seen) : s.period = "future"
        /\ "DeprecatedAlgo" \in Ids => \E s \in Sigs(scene, seen) : s.alg = "rsasha1"
        /\ \A f \in found : Judged(f) => CalledFor(scene, f)

\* The RRsets a zone has, as far as the queries of a run can show them, and
\* the signatures on any copy of them.
Visible == {x \in {"NS"} : scene.ns # <<>>} \cup scene.types
             \cup {x \in {"DNSKEY"} : scene.keys # {}}
             \cup Negative \cup {x \in {"WILD"} : scene.wild}
             \cup {x \in {"HOST"} : \E h \in Hosts \cap scene.inZone :
                                      h # "apex" /\ scene.hostAddrs[h] # {}}
ZoneSigs == Sigs(scene, Visible \X Queries)

\* Zones on which the documents leave no room: all responses carry the same
\* signatures, of algorithms that are handled right, and if there are keys
\* then every signature is by one of them.
Uniform == \A c, d \in Copies : c[1] = d[1] => SigsOf(scene, c) = SigsOf(scene, d)
PlainlySigned == /\ Supported /\ Uniform
                 /\ scene.keys # {} => \A s \in ZoneSigs : s.published

\* What a report should say about DNSSEC, from the zone alone.
Expected == scene.keys # {} \/ ZoneSigs # {} \/ scene.ds # "none"
Intact   == scene.ds \in scene.keys /\ \A s \in ZoneSigs : s.period = "current"
Reference ==
       {f \in {"NoDNSKEY"} : ZoneSigs # {} /\ scene.keys = {}}
  \cup {f \in {"NoRRSIG"} : scene.keys # {} /\ ZoneSigs = {}}
  \cup {f \in {"SignExpired"} : \E s \in ZoneSigs : s.period = "past"}
  \cup {f \in {"SignNotYet"} : \E s \in ZoneSigs : s.period = "future"}
  \cup {f \in {"DeprecatedAlgo"} : \E s \in ZoneSigs : s.alg = "rsasha1"}
  \cup {f \in {"InvalidSig"} : scene.keys # {} /\ \E s \in ZoneSigs : ~s.sound}
  \cup {f \in {"NoDS"} : Expected /\ scene.ds = "none"}
  \cup {f \in {"BrokenChain"} : scene.ds # "none" /\ ~Intact}
  \cup {f \in {"Valid"} : Intact /\ ZoneSigs # {} /\ \A s \in ZoneSigs : s.sound}
DnssecIds == {"NoDNSKEY", "NoRRSIG", "SignExpired", "SignNotYet", "DeprecatedAlgo",
              "InvalidSig", "NoDS", "BrokenChain", "Valid"}

\* A run that lost no query reports on DNSSEC exactly what a plainly signed
\* zone calls for, however its material is spread over the responses.  That
\* the zone has no NSEC records is reported exactly, too, unless the parent's
\* came in with its proof that there is no DS.
LosslessIsExact ==
    pc = "done" /\ lost = {} =>
        /\ PlainlySigned => Ids \cap DnssecIds = Reference
        /\ PlainlySigned /\ (scene.ds # "none" \/ scene.parentDenial.kind = "none") =>
              ("NoNSEC" \in Ids <=> Expected /\ scene.denial.kind = "none")

\* What a report should say about addresses and TTLs, from the zone alone:
\* one finding for each address of the apex or of a name server that lies in
\* a special range, and for each type of which a copy is too short-lived, or
\* all copies are too long-lived.  TTLs are those in the answers to the NS
\* and ANY queries.
AddressReference ==
    LET atApex  == UNION {scene.addrs[x] : x \in scene.types \cap {"A", "AAAA"}}
        atHosts == UNION {scene.hostAddrs[h] : h \in Hosts \ {"apex"}}
    IN  {f \in {AddrFinding(id, a) : id \in AddrIds, a \in atApex \cup atHosts} :
            Registered(f.ip, f.id)}
TTLReference ==
    LET ttls(x) == {scene.ttl[c] : c \in {d \in NSAnswer \cup ANYAnswer : d[1] = x}}
        limits  == Limits(scene.profile)
    IN     {F("TTLShort", x) : x \in {y \in TTLTypes : \E t \in ttls(y) : t < limits.min}}
      \cup {F("TTLExtreme", x) : x \in {y \in TTLTypes :
                ttls(y) # {} /\ \A t \in ttls(y) : t > limits.extreme}}

\* A run that lost no query reports on addresses and TTLs exactly what the
\* registries and the documented limits call for, but for the addresses that
\* are misjudged and for types of which a copy with a TTL of zero was seen.
RecordsExact ==
    LET judged(S) == {f \in S : Judged(f) /\ (f.id \in TTLIds => ~ZeroTTL(scene, f.subject))}
    IN  pc = "done" /\ lost = {} => judged(found) = judged(AddressReference \cup TTLReference)

\* An active run that gets past its first query has one verdict on transfers
\* for every listed server, whichever queries were lost.
VerdictPerServer ==
    LET axfr    == {"AXFRAllowed", "AXFRRefused", "AXFRFailed"}
        of(h)   == {f.id : f \in {g \in found : g.subject = h /\ g.id \in axfr}}
    IN  pc = "done" /\ scene.active /\ "GeneralError" \notin Ids =>
          \A h \in Hosts : Cardinality(of(h)) = 1

\* docs/scope-safety.md: queries are bounded, whatever fails.  A completed run
\* reports the number of calls it made, and these are at most 13 and, for each
\* name server, two for its addresses, one probe and, if active, a transfer
\* and a recursion probe.
QueryCount ==
    pc = "done" /\ "GeneralError" \notin Ids =>
        /\ reported = queries
        /\ queries <= 13 + (IF scene.active THEN 5 ELSE 3) * Len(scene.ns)

\* Every run ends, whichever queries fail.
Terminates == <>(pc = "done")

\* axfr.go documents the status "refused" and docs/checks.md DNS-AXFR-002
\* "Transfer refused (good default)": a refused transfer is not one that
\* was allowed.
RefusedIsNotAllowed ==
    \A f \in found : f.id = "AXFRAllowed" => scene.axfr = "allowed"

\* docs/scope-safety.md: "prefers info/pass over high when evidence is
\* ambiguous".  The high DNSSEC findings that rest on something being absent
\* are true of the zone, not of the queries that failed.
HighMeansCertain ==
    PlainlySigned => Ids \cap {"NoDNSKEY", "BrokenChain"} \subseteq Reference

\* The text of the Valid finding: "all in-zone RRSIGs verify against the
\* zone DNSKEY".
ValidMeansAllVerify ==
    "Valid" \in Ids => \A c \in Combined(material) \cap Copies :
                          SigsOf(scene, c) # {} => c[1] \in Verified(scene, material)

\* docs/dnssec.md lists RSA-SHA1, RSA-SHA256, RSA-SHA512, ECDSA P-256 and
\* P-384 and Ed25519 under "Algorithm support", and says that "a zone whose
\* chain validates and whose in-zone signatures verify is reported with
\* DNS-DNSSEC-011 (pass)".  A run that lost nothing passes a zone whose keys
\* are all chained and whose signatures are all sound and current.
SoundZoneIsValid ==
    /\ pc = "done" /\ lost = {}
    /\ Intact /\ ZoneSigs # {} /\ \A s \in ZoneSigs : s.sound /\ s.published
    => "Valid" \in Ids

\* README.md: "zonelint example.com --resolver 1.1.1.1".  Every address that
\* is dialled names one host and a port.
DialsAreDialable == \A a \in dialled : Dialable(a)
=============================================================================
