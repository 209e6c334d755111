--------------------------- MODULE AuditRunProofs ---------------------------
(***************************************************************************)
(* Proofs about AuditRun for every set of scenes: whichever queries fail,  *)
(* a pass is backed by evidence and the evidence that is reported is real. *)
(***************************************************************************)
EXTENDS AuditRun, TLAPS

\* Steps up to the answer of the DNSKEY query, up to that of the DS query,
\* and up to the DNSSEC checks.
ToKey    == {"ns", "any", "apex", "addresses", "child", "probe", "records", "dnskey"}
ToDS     == ToKey \cup {"ds"}
ToDnssec == ToDS \cup {"random", "dnssec"}

\* The findings that only the DNSSEC checks make.
Guarded == {"NoDNSKEY", "NoRRSIG", "SignExpired", "SignNotYet", "DeprecatedAlgo",
            "InvalidSig", "BrokenChain", "NoDS", "Valid", "NoNSEC", "MalformedNSEC3"}
\* Those of the steps before and after them.
Plainly == {"GeneralError", "InconsistentNS", "Lame", "NonAuthNS", "MissingGlue", "AuthUDPFail",
            "AuthTCPFail", "AuthNoAA", "AuthNoSOA", "AuthNoNS", "AuthNoEDNS",
            "AuthInconsistent", "AXFRFailed", "AXFRRefused", "AXFRAllowed",
            "WildcardPresent", "RecursionOpen"}

SceneInv ==
    /\ \A sig \in Sigs(scene, Copies) :
          /\ sig.published => sig.alg \in scene.keys
          /\ sig.period \in {"current", "past", "future"}
    /\ scene.types \subseteq {"A", "AAAA", "CAA"}
    /\ scene.ns \in Seq(STRING)
    /\ RecordsOK(scene)
    /\ DOMAIN scene.hostAddrs = Hosts

\* The DS as it comes, and the DNSKEY set that is attached to every unit.
DSCopy  == <<"DS", "ds">>
KeyCopy == <<"DNSKEY", "dnskey">>

MaterialInv ==
    /\ material \in [initial : SUBSET Copies, units : SUBSET Copies, hosts : SUBSET Hosts,
                     rest : SUBSET (Copies \cup Of({"DS", "PNSEC"}, "ds"))]
    /\ \A c \in material.initial : c[2] \in {"ns", "any"}
    /\ DSCopy \in material.rest => "ds" \notin lost

\* What is known of an answer before and after its query.
AnswerInv ==
    /\ pc \in ToDS => "ds" \notin lost /\ DSCopy \notin material.rest
    /\ pc \in {"ds", "random", "dnssec"} /\ scene.keys # {} /\ "dnskey" \notin lost
         => KeyCopy \in material.rest

\* The loop over the addresses of the name servers.
LoopInv == pc = "addresses" => todo # <<>> /\ todo \in Seq(Hosts \X {"A", "AAAA"})

FoundInv == pc \in ToDnssec => Ids \cap Guarded = {}

IInv == /\ SceneInv /\ MaterialInv /\ AnswerInv /\ LoopInv /\ FoundInv
        /\ ValidIsBacked /\ PositiveEvidence

-----------------------------------------------------------------------------
(* Facts about single steps *)

\* It holds before the first query.
LEMMA InitIInv == Init => IInv
  <1> SUFFICES ASSUME Init PROVE IInv
    OBVIOUS
  <1>1. SceneOK(scene)
    BY ScenesAssumption DEF Init
  <1>2. SceneInv
    BY <1>1 DEF SceneOK, SceneInv, Hosts, IsSig
  <1>3. MaterialInv /\ AnswerInv /\ LoopInv
    BY DEF Init, MaterialInv, AnswerInv, LoopInv
  <1>4. Ids = {}
    BY DEF Init, Ids
  <1>5. found = {}
    BY DEF Init
  <1> QED
    BY <1>2, <1>3, <1>4, <1>5 DEF IInv, FoundInv, ValidIsBacked, PositiveEvidence

\* A call that is answered loses nothing; one that fails is entered in the
\* history under the name of its step.
LEMMA CallLoss ==
    ASSUME NEW server, NEW ok \in BOOLEAN, Call(server, ok)
    PROVE  /\ ok => lost' = lost
           /\ ~ok => lost' = lost \cup {IF pc \in {"dnskey", "ds"} THEN pc ELSE "other"}
  BY DEF Call, Lost

\* Findings are only ever added, and their identifiers with them.
LEMMA IdsGrow ==
    ASSUME NEW S, found' = found \cup S
    PROVE  Ids' = Ids \cup {f.id : f \in S}
  BY DEF Ids

\* A step that leaves the gathered material, the fate of the DNSKEY and DS
\* queries and the guarded findings alone keeps the evidence for a pass.
LEMMA PassKept ==
    ASSUME ValidIsBacked,
           UNCHANGED <<scene, material>>,
           "ds" \in lost' => "ds" \in lost,
           "dnskey" \in lost => "dnskey" \in lost',
           Ids' \cap Guarded = Ids \cap Guarded
    PROVE  ValidIsBacked'
  <1>1. \A i \in Guarded : i \in Ids' <=> i \in Ids
    OBVIOUS
  <1> QED
    BY <1>1 DEF ValidIsBacked, Guarded, SoundCopy, Checkable

\* The same of the evidence for what was seen.
LEMMA EvidenceKept ==
    ASSUME PositiveEvidence,
           UNCHANGED <<scene, material>>,
           "dnskey" \in lost => "dnskey" \in lost',
           Ids' \cap Guarded = Ids \cap Guarded,
           \A f \in found' \ found : Judged(f) => CalledFor(scene, f)
    PROVE  PositiveEvidence'
  <1>1. \A i \in Guarded : i \in Ids' <=> i \in Ids
    OBVIOUS
  <1>2. \A f \in found' : Judged(f) => CalledFor(scene, f)
    BY DEF PositiveEvidence
  <1> QED
    BY <1>1, <1>2 DEF PositiveEvidence, Guarded, Checkable, Supported

\* Findings that are made outside the DNSSEC checks.
Harmless(f) == \/ f.id \in Plainly
               \/ f.id \in RecordIds /\ (Judged(f) => CalledFor(scene, f))

\* The identifiers are what they seem to be.
LEMMA IdsDiffer ==
    /\ Plainly \cap Guarded = {} /\ RecordIds \cap Guarded = {} /\ Plainly \cap RecordIds = {}
    /\ TTLIds \subseteq RecordIds /\ AddrIds \subseteq RecordIds
  BY DEF Plainly, Guarded, RecordIds, SoaIds, CaaIds, AddrIds, TTLIds

\* Only findings on records are judged by the registries.
LEMMA JudgedAreRecords == \A f : Judged(f) => f.id \in RecordIds
  BY IdsDiffer DEF Judged

\* A step that gathers nothing and makes only harmless findings, outside the
\* window from the DNSKEY answer to the DNSSEC checks.
LEMMA QuietStep ==
    ASSUME IInv, UNCHANGED <<scene, material>>,
           NEW S, found' = found \cup S, \A f \in S : Harmless(f),
           lost' = lost \/ lost' = lost \cup {"other"},
           pc' \in ToDS => pc \in ToDS,
           pc' \in ToDnssec => pc \in ToDnssec,
           pc' \notin {"addresses", "ds", "random", "dnssec"}
    PROVE  IInv'
  <1>1. SceneInv' /\ MaterialInv' /\ LoopInv'
    BY DEF IInv, SceneInv, MaterialInv, LoopInv, Hosts
  <1>2. AnswerInv'
    BY DEF IInv, AnswerInv
  <1>3. Ids' = Ids \cup {f.id : f \in S}
    BY IdsGrow
  <1>4. \A f \in S : f.id \notin Guarded
    BY IdsDiffer DEF Harmless
  <1>5. Ids' \cap Guarded = Ids \cap Guarded
    BY <1>3, <1>4
  <1>6. FoundInv'
    BY <1>5 DEF IInv, FoundInv
  <1>7. ValidIsBacked'
    BY <1>5, PassKept DEF IInv
  <1>8. PositiveEvidence'
    <2>1. \A f \in found' \ found : Judged(f) => CalledFor(scene, f)
      BY IdsDiffer, JudgedAreRecords DEF Harmless
    <2> QED
      BY <1>5, <2>1, EvidenceKept DEF IInv
  <1> QED
    BY <1>1, <1>2, <1>6, <1>7, <1>8 DEF IInv

\* A step before the DNSSEC checks that only gathers.
LEMMA GatherStep ==
    ASSUME IInv, pc \in ToDnssec, UNCHANGED <<scene, found>>,
           MaterialInv', AnswerInv', LoopInv'
    PROVE  IInv'
  <1>1. SceneInv'
    BY DEF IInv, SceneInv, Hosts
  <1>2. Ids' = Ids
    BY DEF Ids
  <1>3. Ids \cap Guarded = {}
    BY DEF IInv, FoundInv
  <1>4. FoundInv' /\ ValidIsBacked'
    BY <1>2, <1>3 DEF FoundInv, ValidIsBacked, Guarded
  <1>5. PositiveEvidence'
    BY <1>2, <1>3 DEF IInv, PositiveEvidence, Guarded
  <1> QED
    BY <1>1, <1>4, <1>5 DEF IInv

\* The copies that a set of RRsets gives.
LEMMA OfCopies ==
    /\ \A S, q : S \subseteq RRsets /\ q \in Queries => Of(S, q) \subseteq Copies
    /\ \A S, q, x : <<x, q>> \in Of(S, q) <=> x \in S
  BY DEF Of, Copies

\* The answers of the zone hold copies of its RRsets; the DS and the NSEC of
\* the parent come with the DS query only.
LEMMA AnswersOK ==
    ASSUME SceneInv
    PROVE  /\ NSAnswer \subseteq Copies /\ ANYAnswer \subseteq Copies
           /\ \A c \in NSAnswer \cup ANYAnswer : c[2] \in {"ns", "any"}
           /\ \A t : TypeAnswer(t) \subseteq Copies
           /\ RandomAnswer \subseteq Copies
           /\ KeyAnswer \subseteq Copies
           /\ scene.keys # {} => KeyCopy \in KeyAnswer
           /\ Of(Negative, "host") \subseteq Copies
           /\ \A h, t : HostAnswer(h, t) \subseteq Copies
           /\ DSAnswer \subseteq Of({"DS", "PNSEC"}, "ds")
           /\ DSCopy \in DSAnswer <=> scene.ds # "none"
  <1>1. Negative \subseteq RRsets
    BY DEF Negative, RRsets
  <1>2. {"ns", "any", "apex", "host", "dnskey", "ds", "random"} \subseteq Queries
    BY DEF Queries
  <1>3. NSAnswer \subseteq Copies /\ Of(Negative, "host") \subseteq Copies
    BY <1>1, <1>2, OfCopies DEF NSAnswer, RRsets
  <1>4. \A t : TypeAnswer(t) \subseteq Copies
    BY <1>1, <1>2, OfCopies DEF TypeAnswer, SceneInv, RRsets
  <1>5. ANYAnswer \subseteq Copies
    BY <1>2, OfCopies DEF ANYAnswer, RRsets, SceneInv
  <1>6. RandomAnswer \subseteq Copies
    BY <1>1, <1>2, OfCopies DEF RandomAnswer, RRsets
  <1>7. KeyAnswer \subseteq Copies /\ (scene.keys # {} => KeyCopy \in KeyAnswer)
    BY <1>1, <1>2, OfCopies DEF KeyAnswer, RRsets, KeyCopy
  <1>8. DSAnswer \subseteq Of({"DS", "PNSEC"}, "ds") /\ (DSCopy \in DSAnswer <=> scene.ds # "none")
    BY DEF DSAnswer, DSCopy, Of
  <1>9. \A h, t : HostAnswer(h, t) \subseteq Copies
    BY <1>2, OfCopies DEF HostAnswer, SceneInv, RRsets
  <1>10. \A c \in NSAnswer \cup ANYAnswer : c[2] \in {"ns", "any"}
    BY DEF NSAnswer, ANYAnswer, Of
  <1> QED
    BY <1>3, <1>4, <1>5, <1>6, <1>7, <1>8, <1>9, <1>10

\* The queries for the addresses of the name servers.
LEMMA AddressQueriesOK ==
    ASSUME SceneInv, scene.ns # <<>>
    PROVE  AddressQueries # <<>> /\ AddressQueries \in Seq(Hosts \X {"A", "AAAA"})
  <1>1. Len(scene.ns) \in Nat /\ Len(scene.ns) > 0
    BY DEF SceneInv
  <1>2. \A i \in 1..(2 * Len(scene.ns)) : (i + 1) \div 2 \in 1..Len(scene.ns)
    BY <1>1
  <1>3. \A i \in 1..(2 * Len(scene.ns)) :
           <<scene.ns[(i + 1) \div 2], IF i % 2 = 1 THEN "A" ELSE "AAAA">>
             \in Hosts \X {"A", "AAAA"}
    BY <1>2 DEF Hosts
  <1>4. AddressQueries \in [1..(2 * Len(scene.ns)) -> Hosts \X {"A", "AAAA"}]
    BY <1>3 DEF AddressQueries
  <1>5. 2 * Len(scene.ns) \in Nat /\ 2 * Len(scene.ns) > 0
    BY <1>1
  <1> QED
    BY <1>4, <1>5

\* DS is not the name of an RRset of the zone.
LEMMA NamesDiffer == DSCopy \notin Copies /\ KeyCopy \in Copies
  BY DEF Copies, RRsets, Queries, DSCopy, KeyCopy

\* A DS that is among the records came with the DS query.
LEMMA DSPresent ==
    ASSUME MaterialInv, HasDS(material)
    PROVE  DSCopy \in material.rest
  <1>1. PICK c \in material.rest : c[1] = "DS"
    BY DEF HasDS, Has
  <1>2. c \in Copies \/ c \in Of({"DS", "PNSEC"}, "ds")
    BY DEF MaterialInv
  <1>3. c \notin Copies
    BY <1>1 DEF Copies, RRsets
  <1> QED
    BY <1>1, <1>2, <1>3 DEF Of, DSCopy

-----------------------------------------------------------------------------
(* The signatures *)

\* The signatures that are tried on the RRset of a copy are the checkable ones
\* of the copies of that RRset in its unit, if there is a DNSKEY.
LEMMA TriedMeans ==
    ASSUME NEW c \in Seen(material), NEW s
    PROVE  s \in Tried(scene, material, c) <=>
              /\ Has(Unit(material, c), "DNSKEY")
              /\ \E d \in Unit(material, c) : d[1] = c[1] /\ s \in Checkable(d)
  <1> DEFINE same == {d \in Unit(material, c) : d[1] = c[1]}
  <1>1. same \cap Copies = same
    BY DEF Unit, Seen
  <1>2. s \in Sigs(scene, same) <=> \E d \in same : s \in SigsOf(scene, d)
    BY <1>1 DEF Sigs
  <1> QED
    BY <1>2 DEF Tried, Checkable

\* A copy is in its own unit, and units are parts of what was seen.
LEMMA UnitSeen ==
    ASSUME NEW c \in Seen(material)
    PROVE  /\ c \in Unit(material, c)
           /\ \A d \in Unit(material, c) : /\ d \in Seen(material) /\ d \in Copies
                                           /\ UnitOf(d) \in {UnitOf(c), "dnskey"}
  BY DEF Unit, Seen, UnitOf

\* With the answer to the DNSKEY query at hand everything checkable is tried.
LEMMA AllTried ==
    ASSUME KeyCopy \in material.rest, NEW c \in Seen(material), Checkable(c) # {}
    PROVE  Tried(scene, material, c) # {}
  <1>1. KeyCopy \in Unit(material, c) /\ KeyCopy[1] = "DNSKEY"
    BY NamesDiffer DEF Unit, Seen, KeyCopy
  <1>2. PICK s : s \in Checkable(c)
    OBVIOUS
  <1> QED
    BY <1>1, <1>2, UnitSeen, TriedMeans DEF Has

\* Where an RRset passes there is a copy of it that is sound.
LEMMA PassIsSound ==
    ASSUME NEW c \in Seen(material), Passes(scene, material, c)
    PROVE  \E d \in Seen(material) : d[1] = c[1] /\ SoundCopy(d)
  <1>1. PICK s : s \in Tried(scene, material, c)
    BY DEF Passes
  <1>2. PICK d \in Unit(material, c) : d[1] = c[1] /\ s \in Checkable(d)
    BY <1>1, TriedMeans
  <1>3. \A t \in Checkable(d) : t \in Tried(scene, material, c)
    BY <1>1, <1>2, TriedMeans
  <1>4. \A t \in Checkable(d) : t.sound
    BY <1>3 DEF Passes, Verify
  <1> QED
    BY <1>2, <1>4, UnitSeen DEF SoundCopy

\* Where an RRset was tried and does not pass there is an unsound signature,
\* if the keys are of algorithms that are handled right.
LEMMA FailIsUnsound ==
    ASSUME SceneInv, Supported, NEW c \in Seen(material),
           Tried(scene, material, c) # {}, ~Passes(scene, material, c)
    PROVE  \E d \in Unit(material, c) : d[1] = c[1] /\ \E s \in Checkable(d) : ~s.sound
  <1>1. PICK s \in Tried(scene, material, c) : ~Verify(s)
    BY DEF Passes
  <1>2. PICK d \in Unit(material, c) : d[1] = c[1] /\ s \in Checkable(d)
    BY <1>1, TriedMeans
  <1>3. s \in Sigs(scene, Copies) /\ s.published
    BY <1>2, UnitSeen DEF Checkable, Sigs
  <1>4. s.alg # "p384"
    BY <1>3 DEF SceneInv, Supported
  <1> QED
    BY <1>1, <1>2, <1>4 DEF Verify

-----------------------------------------------------------------------------
(* The DNSSEC checks *)

\* The alarms that never stand beside a pass.
Alarms == {"NoDNSKEY", "SignExpired", "SignNotYet", "InvalidSig", "BrokenChain", "NoDS"}

\* The verdict is a pass only over matching keys and signatures of which
\* none is outside its period, and of which those that could be checked
\* verify; if all signatures were merged NoRRSIG is not reported.
LEMMA VerdictBacked ==
    ASSUME MaterialInv, "Valid" \in DnssecFindings(scene, material)
    PROVE  /\ HasDS(material) /\ scene.ds \in scene.keys
           /\ \A s \in Sigs(scene, Combined(material)) :
                 ~SignatureExpired(s) /\ ~SignatureNotYetValid(s)
           /\ Verified(scene, material) # {} /\ SigFailures(scene, material) = {}
           /\ DnssecFindings(scene, material) \cap Alarms = {}
           /\ material.units = {} => "NoRRSIG" \notin DnssecFindings(scene, material)
  <1>1. "Valid" \in Verdict(scene, material)
    BY DEF DnssecFindings, CheckZone, NsecCheck
  <1>2. /\ HasDS(material) /\ ValidateChain(scene, material)
        /\ Verified(scene, material) # {}
        /\ SigFailures(scene, material) = {}
        /\ Verdict(scene, material) = {"Valid"}
    BY <1>1 DEF Verdict
  <1>3. /\ HasDNSKEY(scene, material) /\ scene.ds \in scene.keys
        /\ \A s \in Sigs(scene, Combined(material)) :
              ~SignatureExpired(s) /\ ~SignatureNotYetValid(s)
    BY <1>2 DEF ValidateChain, DSMatches
  <1>4. CheckZone(scene, material) \subseteq {"DeprecatedAlgo", "NoRRSIG"}
    BY <1>3 DEF CheckZone
  <1>5. NsecCheck(scene, material) \subseteq {"NoNSEC", "MalformedNSEC3"}
    BY DEF NsecCheck
  <1>6. DnssecFindings(scene, material) \subseteq
           {"Valid", "DeprecatedAlgo", "NoRRSIG", "NoNSEC", "MalformedNSEC3"}
    BY <1>2, <1>4, <1>5 DEF DnssecFindings
  <1>7. ASSUME material.units = {} PROVE "NoRRSIG" \notin DnssecFindings(scene, material)
    <2>1. PICK c \in Seen(material) : Passes(scene, material, c)
      BY <1>2 DEF Verified
    <2>2. PICK d \in Seen(material) : SoundCopy(d)
      BY <2>1, PassIsSound
    <2>3. d \in Combined(material) \cap Copies /\ SigsOf(scene, d) # {}
      BY <1>7, <2>2 DEF Seen, Combined, SoundCopy, Checkable
    <2>4. HasRRSIG(scene, material)
      BY <2>3 DEF HasRRSIG, Sigs
    <2>5. "NoRRSIG" \notin CheckZone(scene, material)
      BY <2>4 DEF CheckZone
    <2> QED
      BY <1>2, <1>5, <2>5 DEF DnssecFindings
  <1> QED
    BY <1>2, <1>3, <1>6, <1>7 DEF Alarms

\* The signatures that were merged are among those that were seen.
LEMMA MergedSeen == Sigs(scene, Combined(material)) \subseteq Sigs(scene, Seen(material))
  BY DEF Sigs, Combined, Seen

\* What the DNSSEC checks say they saw was seen.
LEMMA DnssecEvidence ==
    LET found0 == DnssecFindings(scene, material) IN
    /\ found0 \subseteq Guarded
    /\ "InvalidSig" \in found0 => SigFailures(scene, material) # {}
    /\ "SignExpired" \in found0 => \E s \in Sigs(scene, Seen(material)) : s.period = "past"
    /\ "SignNotYet" \in found0 => \E s \in Sigs(scene, Seen(material)) : s.period = "future"
    /\ "DeprecatedAlgo" \in found0 => \E s \in Sigs(scene, Seen(material)) : s.alg = "rsasha1"
  <1>1. DnssecFindings(scene, material) \subseteq Guarded
    BY DEF DnssecFindings, CheckZone, Verdict, NsecCheck, Guarded
  <1>2. "InvalidSig" \in DnssecFindings(scene, material) => SigFailures(scene, material) # {}
    BY DEF DnssecFindings, CheckZone, Verdict, NsecCheck
  <1>3. "SignExpired" \in DnssecFindings(scene, material) =>
           \E s \in Sigs(scene, Combined(material)) : s.period = "past"
    BY DEF DnssecFindings, CheckZone, Verdict, NsecCheck, SignatureExpired
  <1>4. "SignNotYet" \in DnssecFindings(scene, material) =>
           \E s \in Sigs(scene, Combined(material)) : s.period = "future"
    BY DEF DnssecFindings, CheckZone, Verdict, NsecCheck, SignatureNotYetValid
  <1>5. "DeprecatedAlgo" \in DnssecFindings(scene, material) =>
           \E s \in Sigs(scene, Combined(material)) : s.alg = "rsasha1"
    BY DEF DnssecFindings, CheckZone, Verdict, NsecCheck
  <1> QED
    BY <1>1, <1>2, <1>3, <1>4, <1>5, MergedSeen

\* What stands behind a signature that is reported as invalid, as in
\* PositiveEvidence.
Unsound(c) ==
    \E d \in Seen(material) : /\ d[1] = c[1] /\ UnitOf(d) \in {UnitOf(c), "dnskey"}
                              /\ \E s \in Checkable(d) : ~s.sound
LEMMA FailureIsReal ==
    ASSUME SceneInv, Supported, SigFailures(scene, material) # {},
           scene.keys # {} /\ "dnskey" \notin lost => KeyCopy \in material.rest
    PROVE  \E x \in RRsets :
              /\ \E c \in Seen(material) : c[1] = x /\ Checkable(c) # {} /\ Unsound(c)
              /\ "dnskey" \notin lost =>
                    \A c \in Seen(material) : c[1] = x /\ Checkable(c) # {} => Unsound(c)
  <1>1. PICK c \in Seen(material) :
           Tried(scene, material, c) # {} /\ c[1] \notin Verified(scene, material)
    BY DEF SigFailures
  <1>2. \A d \in Seen(material) : d[1] = c[1] => ~Passes(scene, material, d)
    BY <1>1 DEF Verified
  <1>3. c[1] \in RRsets
    BY DEF Seen, Copies
  <1>4. ASSUME NEW d \in Seen(material), d[1] = c[1], Tried(scene, material, d) # {}
        PROVE  Unsound(d)
    <2>1. PICK e \in Unit(material, d) : e[1] = d[1] /\ \E s \in Checkable(e) : ~s.sound
      BY <1>2, <1>4, FailIsUnsound
    <2> QED
      BY <2>1, UnitSeen DEF Unsound
  <1>5. \E d \in Seen(material) : d[1] = c[1] /\ Checkable(d) # {} /\ Unsound(d)
    <2>1. PICK e \in Unit(material, c) : e[1] = c[1] /\ \E s \in Checkable(e) : ~s.sound
      BY <1>1, <1>2, FailIsUnsound
    <2>2. e \in Seen(material) /\ Unsound(e) /\ Checkable(e) # {}
      BY <2>1, UnitSeen DEF Unsound
    <2> QED
      BY <2>1, <2>2
  <1>6. ASSUME "dnskey" \notin lost, NEW d \in Seen(material), d[1] = c[1], Checkable(d) # {}
        PROVE  Unsound(d)
    <2>1. PICK s \in Checkable(d) : TRUE
      BY <1>6
    <2>2. s \in Sigs(scene, Copies) /\ s.published
      BY <2>1 DEF Checkable, Sigs, Seen
    <2>3. KeyCopy \in material.rest
      BY <1>6, <2>2 DEF SceneInv
    <2> QED
      BY <1>4, <1>6, <2>3, AllTried
  <1> QED
    BY <1>3, <1>5, <1>6

\* The step that runs the DNSSEC checks.
LEMMA DnssecStep == IInv /\ CheckDNSSEC => IInv'
  <1> SUFFICES ASSUME IInv, CheckDNSSEC PROVE IInv'
    OBVIOUS
  <1> DEFINE new == {F(id, "zone") : id \in DnssecFindings(scene, material)}
  <1>1. /\ pc = "dnssec" /\ pc' \in {"axfr", "wildcard"}
        /\ found' = found \cup new
        /\ UNCHANGED <<scene, material, lost>>
    BY DEF CheckDNSSEC, Goto
  <1>2. Ids \cap Guarded = {}
    BY <1>1 DEF IInv, FoundInv, ToDnssec
  <1>3. {f.id : f \in new} = DnssecFindings(scene, material)
    <2>1. \A id : F(id, "zone").id = id
      BY DEF F
    <2>2. \A f \in new : f.id \in DnssecFindings(scene, material)
      BY <2>1
    <2>3. \A id \in DnssecFindings(scene, material) : \E f \in new : id = f.id
      BY <2>1
    <2> HIDE DEF new
    <2> QED
      BY <2>2, <2>3
  <1>4. Ids' = Ids \cup DnssecFindings(scene, material)
    BY <1>1, <1>3, IdsGrow
  <1>5. SceneInv' /\ MaterialInv'
    BY <1>1 DEF IInv, SceneInv, MaterialInv, Hosts
  <1>6. AnswerInv' /\ LoopInv' /\ FoundInv'
    BY <1>1 DEF AnswerInv, LoopInv, FoundInv, ToDnssec, ToDS, ToKey
  <1>7. ValidIsBacked'
    <2>1. SUFFICES ASSUME "Valid" \in Ids' PROVE ValidIsBacked'
      BY DEF ValidIsBacked
    <2>2. "Valid" \in DnssecFindings(scene, material)
      BY <2>1, <1>2, <1>4 DEF Guarded
    <2>3. /\ HasDS(material) /\ scene.ds \in scene.keys
          /\ \A s \in Sigs(scene, Combined(material)) :
                ~SignatureExpired(s) /\ ~SignatureNotYetValid(s)
          /\ Verified(scene, material) # {} /\ SigFailures(scene, material) = {}
          /\ DnssecFindings(scene, material) \cap Alarms = {}
          /\ material.units = {} => "NoRRSIG" \notin DnssecFindings(scene, material)
      BY <2>2, VerdictBacked DEF IInv
    <2>4. "ds" \notin lost
      BY <2>3, DSPresent DEF IInv, MaterialInv
    <2>5. \A s \in Sigs(scene, Combined(material)) : s.period = "current"
      <3>1. \A s \in Sigs(scene, Combined(material)) : s.period \in {"current", "past", "future"}
        BY DEF IInv, SceneInv, Sigs
      <3> QED
        BY <2>3, <3>1 DEF SignatureExpired, SignatureNotYetValid
    <2>6. \E c \in Seen(material) : SoundCopy(c)
      <3>1. PICK c \in Seen(material) : Passes(scene, material, c)
        BY <2>3 DEF Verified
      <3> QED
        BY <3>1, PassIsSound
    <2>7. ASSUME "dnskey" \notin lost, NEW c \in Seen(material), Checkable(c) # {}
          PROVE  \E d \in Seen(material) : d[1] = c[1] /\ SoundCopy(d)
      <3>1. KeyCopy \in material.rest
        BY <1>1, <2>3, <2>7 DEF IInv, AnswerInv
      <3>2. c[1] \in Verified(scene, material)
        BY <2>3, <2>7, <3>1, AllTried DEF SigFailures
      <3>3. PICK e \in Seen(material) : e[1] = c[1] /\ Passes(scene, material, e)
        BY <3>2 DEF Verified
      <3> QED
        BY <3>3, PassIsSound
    <2>8. /\ Ids' \cap Alarms = {}
          /\ "NoRRSIG" \in Ids' => "NoRRSIG" \in DnssecFindings(scene, material)
      BY <2>3, <1>2, <1>4 DEF Guarded, Alarms
    <2>9. /\ \A c : SoundCopy(c)' = SoundCopy(c) /\ Checkable(c)' = Checkable(c)
          /\ Seen(material)' = Seen(material) /\ Combined(material)' = Combined(material)
          /\ \A C : Sigs(scene', C) = Sigs(scene, C)
      BY <1>1 DEF SoundCopy, Checkable
    <2> QED
      BY <2>3, <2>4, <2>5, <2>6, <2>7, <2>8, <2>9, <1>1 DEF ValidIsBacked, Alarms
  <1>8. PositiveEvidence'
    <2>1. \A i \in Guarded : i \in Ids' => i \in DnssecFindings(scene, material)
      BY <1>2, <1>4
    <2>2. \A f \in new : ~Judged(f)
      BY <1>3, DnssecEvidence, IdsDiffer, JudgedAreRecords
    <2>3. \A f \in found' : Judged(f) => CalledFor(scene, f)
      BY <1>1, <2>2 DEF IInv, PositiveEvidence
    <2>4. scene.keys # {} /\ "dnskey" \notin lost => KeyCopy \in material.rest
      BY <1>1 DEF IInv, AnswerInv
    <2>5. "InvalidSig" \in Ids' /\ Supported =>
             \E x \in RRsets :
                /\ \E c \in Seen(material) : c[1] = x /\ Checkable(c) # {} /\ Unsound(c)
                /\ "dnskey" \notin lost =>
                      \A c \in Seen(material) : c[1] = x /\ Checkable(c) # {} => Unsound(c)
      BY <2>1, <2>4, DnssecEvidence, FailureIsReal DEF Guarded, IInv
    <2>6. /\ Seen(material)' = Seen(material) /\ Supported' = Supported
          /\ \A c : Checkable(c)' = Checkable(c) /\ Unsound(c)' = Unsound(c)
          /\ \A C : Sigs(scene', C) = Sigs(scene, C)
      BY <1>1 DEF Supported, Checkable, Unsound
    <2>7. ASSUME "InvalidSig" \in Ids' /\ Supported'
          PROVE  \E x \in RRsets :
                    /\ \E c \in Seen(material)' :
                          c[1] = x /\ Checkable(c)' # {} /\ Unsound(c)'
                    /\ "dnskey" \notin lost' =>
                          \A c \in Seen(material)' : c[1] = x /\ Checkable(c)' # {} => Unsound(c)'
      BY <1>1, <2>5, <2>6, <2>7
    <2>8. /\ "SignExpired" \in Ids' => \E s \in Sigs(scene', Seen(material)') : s.period = "past"
          /\ "SignNotYet" \in Ids' => \E s \in Sigs(scene', Seen(material)') : s.period = "future"
          /\ "DeprecatedAlgo" \in Ids' => \E s \in Sigs(scene', Seen(material)') : s.alg = "rsasha1"
      BY <2>1, <2>6, DnssecEvidence DEF Guarded
    <2>9. \A f \in found' : Judged(f) => CalledFor(scene', f)
      BY <1>1, <2>3
    <2> QED
      BY <2>7, <2>8, <2>9 DEF PositiveEvidence, Unsound
  <1> QED
    BY <1>5, <1>6, <1>7, <1>8 DEF IInv

-----------------------------------------------------------------------------
(* The checks on records *)

\* What ClassifyV4 says of the bytes of an address.
LEMMA BytesV4 ==
    ASSUME NEW a
    PROVE  /\ ClassifyV4(a) \in AddrIds \cup {"public"}
           /\ ClassifyV4(a) = "AddrLoopback" => a[1] = 127
           /\ ClassifyV4(a) = "AddrPrivate" =>
                 \/ a[1] = 10 \/ a[1] = 192
                 \/ a[1] = 172 /\ a[2] >= 16 /\ a[2] <= 31
           /\ ClassifyV4(a) = "AddrLocal" => a[1] = 169 /\ a[2] = 254
           /\ ClassifyV4(a) = "AddrDocumentation" => IsDocV4(a)
           /\ ClassifyV4(a) = "AddrReserved" => a[1] = 192 \/ a[1] >= 224
           /\ a[1] = 192 => ClassifyV4(a) = "AddrPrivate"
  <1> DEFINE private == \E first \in {10, 172, 192} : IsPrivateV4(a, first)
  <1>1. ClassifyV4(a) =
           IF a[1] = 127 THEN "AddrLoopback"
           ELSE IF private THEN "AddrPrivate"
           ELSE IF a[1] = 169 /\ a[2] = 254 THEN "AddrLocal"
           ELSE IF IsDocV4(a) THEN "AddrDocumentation"
           ELSE IF a[1] = 192 /\ a[2] = 0 /\ a[3] = 0 /\ a[4] = 2 THEN "AddrReserved"
           ELSE IF a[1] >= 224 THEN "AddrReserved"
           ELSE "public"
    BY DEF ClassifyV4
  <1>2. private => \/ a[1] = 10 \/ a[1] = 192
                   \/ a[1] = 172 /\ a[2] >= 16 /\ a[2] <= 31
    BY DEF IsPrivateV4
  <1>3. a[1] = 192 => private /\ a[1] # 127
    BY DEF IsPrivateV4
  <1> HIDE DEF private
  <1> QED
    BY <1>1, <1>2, <1>3 DEF AddrIds

\* The ranges of IPv4, one by one.
LEMMA RangesV4 ==
    ASSUME NEW p
    PROVE  /\ Between(p, Prefix(127, 0, 0), Prefix(127, 255, 255)) => InRangeV4(p, "AddrLoopback")
           /\ Between(p, Prefix(10, 0, 0), Prefix(10, 255, 255)) => InRangeV4(p, "AddrPrivate")
           /\ Between(p, Prefix(172, 16, 0), Prefix(172, 31, 255)) => InRangeV4(p, "AddrPrivate")
           /\ Between(p, Prefix(192, 168, 0), Prefix(192, 168, 255)) => InRangeV4(p, "AddrPrivate")
           /\ Between(p, Prefix(169, 254, 0), Prefix(169, 254, 255)) => InRangeV4(p, "AddrLocal")
           /\ p = Prefix(198, 51, 100) => InRangeV4(p, "AddrDocumentation")
           /\ p = Prefix(203, 0, 113) => InRangeV4(p, "AddrDocumentation")
           /\ Between(p, Prefix(224, 0, 0), Prefix(255, 255, 255)) => InRangeV4(p, "AddrReserved")
  BY DEF InRangeV4

\* ClassifyV4 names a range that the address lies in, unless it is misjudged.
LEMMA RegisteredV4 ==
    ASSUME NEW a \in [1..4 -> 0..255], Classify(a) # "public", ~Misjudged(a)
    PROVE  Classify(a) \in AddrIds /\ Registered(a, Classify(a))
  <1>1. /\ a[1] \in 0..255 /\ a[2] \in 0..255 /\ a[3] \in 0..255
        /\ To4(a) /\ Classify(a) = ClassifyV4(a)
    BY DEF To4, Classify
  <1>2. CASE a[1] = 192
    <2>1. a[2] = 168 /\ ClassifyV4(a) = "AddrPrivate"
      BY <1>1, <1>2, BytesV4 DEF Misjudged
    <2>2. PICK b \in 0..255 : b = a[3]
      BY <1>1
    <2>3. Between(Prefix(192, 168, b), Prefix(192, 168, 0), Prefix(192, 168, 255))
      BY DEF Between, Prefix
    <2>4. InRangeV4(Prefix(a[1], a[2], a[3]), "AddrPrivate")
      BY <1>2, <2>1, <2>2, <2>3, RangesV4
    <2> QED
      BY <1>1, <2>1, <2>4 DEF Registered, AddrIds
  <1>3. CASE a[1] # 192
    <2>1. InRangeV4(Prefix(a[1], a[2], a[3]), ClassifyV4(a))
      <3> DEFINE P == Prefix(a[1], a[2], a[3])
      <3>1. /\ a[1] = 127 => Between(P, Prefix(127, 0, 0), Prefix(127, 255, 255))
            /\ a[1] = 10 => Between(P, Prefix(10, 0, 0), Prefix(10, 255, 255))
            /\ a[1] = 172 /\ a[2] >= 16 /\ a[2] <= 31 =>
                  Between(P, Prefix(172, 16, 0), Prefix(172, 31, 255))
            /\ a[1] = 169 /\ a[2] = 254 => Between(P, Prefix(169, 254, 0), Prefix(169, 254, 255))
            /\ a[1] >= 224 => Between(P, Prefix(224, 0, 0), Prefix(255, 255, 255))
        <4>1. PICK b1 \in 0..255, b2 \in 0..255, b3 \in 0..255 :
                 b1 = a[1] /\ b2 = a[2] /\ b3 = a[3]
          BY <1>1, Zenon
        <4>2. /\ b1 = 127 => Between(Prefix(b1, b2, b3), Prefix(127, 0, 0), Prefix(127, 255, 255))
              /\ b1 = 10 => Between(Prefix(b1, b2, b3), Prefix(10, 0, 0), Prefix(10, 255, 255))
              /\ b1 = 172 /\ b2 >= 16 /\ b2 <= 31 =>
                    Between(Prefix(b1, b2, b3), Prefix(172, 16, 0), Prefix(172, 31, 255))
              /\ b1 = 169 /\ b2 = 254 =>
                    Between(Prefix(b1, b2, b3), Prefix(169, 254, 0), Prefix(169, 254, 255))
              /\ b1 >= 224 => Between(Prefix(b1, b2, b3), Prefix(224, 0, 0), Prefix(255, 255, 255))
          BY DEF Between, Prefix
        <4>3. P = Prefix(b1, b2, b3)
          BY <4>1
        <4> HIDE DEF P
        <4> QED
          BY <4>1, <4>2, <4>3
      <3>2. IsDocV4(a) => InRangeV4(P, "AddrDocumentation")
        BY RangesV4 DEF IsDocV4
      <3> HIDE DEF P
      <3>3. a[1] = 127 => InRangeV4(P, "AddrLoopback")
        BY <3>1, RangesV4
      <3>4. a[1] = 10 => InRangeV4(P, "AddrPrivate")
        BY <3>1, RangesV4
      <3>5. a[1] = 172 /\ a[2] >= 16 /\ a[2] <= 31 => InRangeV4(P, "AddrPrivate")
        BY <3>1, RangesV4
      <3>6. a[1] = 169 /\ a[2] = 254 => InRangeV4(P, "AddrLocal")
        BY <3>1, RangesV4
      <3>7. a[1] >= 224 => InRangeV4(P, "AddrReserved")
        BY <3>1, RangesV4
      <3>8. ClassifyV4(a) = "AddrLoopback" => InRangeV4(P, ClassifyV4(a))
        BY BytesV4, <3>2, <3>3, <3>4, <3>5, <3>6, <3>7
      <3>9. ClassifyV4(a) = "AddrPrivate" => InRangeV4(P, ClassifyV4(a))
        BY <1>3, BytesV4, <3>2, <3>3, <3>4, <3>5, <3>6, <3>7
      <3>10. ClassifyV4(a) = "AddrLocal" => InRangeV4(P, ClassifyV4(a))
        BY BytesV4, <3>2, <3>3, <3>4, <3>5, <3>6, <3>7
      <3>11. ClassifyV4(a) = "AddrDocumentation" => InRangeV4(P, ClassifyV4(a))
        BY BytesV4, <3>2, <3>3, <3>4, <3>5, <3>6, <3>7
      <3>12. ClassifyV4(a) = "AddrReserved" => InRangeV4(P, ClassifyV4(a))
        BY <1>3, BytesV4, <3>2, <3>3, <3>4, <3>5, <3>6, <3>7
      <3> QED
        BY <1>1, <3>8, <3>9, <3>10, <3>11, <3>12, BytesV4 DEF AddrIds, P
    <2> QED
      BY <1>1, <1>3, <2>1, BytesV4 DEF Registered
  <1> QED
    BY <1>2, <1>3

\* The two prefixes of IPv6 as ranges.
LEMMA DivV6 ==
    ASSUME NEW h \in Int
    PROVE  /\ h \div 512 = 126 => Between(h, 64512, 65023)
           /\ h \div 64 = 1018 => Between(h, 65152, 65215)
  BY DEF Between

\* ClassifyV6 names a range that the address lies in.
LEMMA RegisteredV6 ==
    ASSUME NEW hi \in Int, NEW low \in Int, Classify(<<hi, low>>) # "public"
    PROVE  Classify(<<hi, low>>) \in AddrIds /\ Registered(<<hi, low>>, Classify(<<hi, low>>))
  <1> DEFINE a == <<hi, low>>
             p == hi \div 512 = 126
             q == hi \div 64 = 1018
  <1>1. a[1] = hi /\ a[2] = low /\ a = IPv6(hi, low)
    BY DEF IPv6
  <1>2. ~To4(a)
    <2>1. DOMAIN a = 1..2 /\ 3 \in 1..4 /\ 3 \notin 1..2
      OBVIOUS
    <2> HIDE DEF a
    <2> QED
      BY <2>1 DEF To4
  <1>3. (p => Between(hi, 64512, 65023)) /\ (q => Between(hi, 65152, 65215))
    BY DivV6
  <1>4. Classify(a) =
           IF hi = 0 /\ low = 1 THEN "AddrLoopback"
           ELSE IF p THEN "AddrPrivate"
           ELSE IF q THEN "AddrLocal"
           ELSE IF hi = 0 /\ low = 0 THEN "AddrReserved"
           ELSE "public"
    <2> HIDE DEF a
    <2> QED
      BY <1>1, <1>2 DEF Classify, ClassifyV6
  <1> HIDE DEF a, p, q
  <1>5. /\ Classify(a) \in {"AddrLoopback", "AddrPrivate", "AddrLocal", "AddrReserved", "public"}
        /\ Classify(a) = "AddrLoopback" => hi = 0 /\ low = 1
        /\ Classify(a) = "AddrPrivate" => p
        /\ Classify(a) = "AddrLocal" => q
        /\ Classify(a) = "AddrReserved" => hi = 0 /\ low = 0
    BY <1>4
  <1>6. Classify(a) \in {"AddrLoopback", "AddrPrivate", "AddrLocal", "AddrReserved"}
    BY <1>5 DEF a
  <1>7. Registered(a, Classify(a))
    BY <1>1, <1>2, <1>3, <1>5, <1>6 DEF Registered
  <1> QED
    BY <1>6, <1>7 DEF a, AddrIds

\* addrs.Classify names a range that the address lies in, for every address
\* that is not misjudged.
LEMMA ClassifyRegistered ==
    ASSUME NEW a, IsAddress(a), Classify(a) # "public", ~Misjudged(a)
    PROVE  Classify(a) \in AddrIds /\ Registered(a, Classify(a))
  <1>1. CASE a \in [1..4 -> 0..255]
    BY <1>1, RegisteredV4
  <1>2. CASE a \in [1..2 -> Nat]
    <2>1. PICK hi \in Nat, low \in Nat : a = <<hi, low>>
      <3>1. a = <<a[1], a[2]>>
        BY <1>2
      <3> QED
        BY <1>2, <3>1
    <2> QED
      BY <2>1, RegisteredV6
  <1> QED
    BY <1>1, <1>2 DEF IsAddress

\* The categories are the identifiers of the findings.
LEMMA CategoriesAreIds == \A a : Classify(a) \in AddrIds \cup {"public"}
  <1>1. \A a : ClassifyV6(a) \in AddrIds \cup {"public"}
    BY DEF ClassifyV6, AddrIds
  <1> QED
    BY <1>1, BytesV4 DEF Classify

\* Whatever was gathered, the checks on records say of it what the zone calls
\* for, where they can be held against it.
LEMMA RecordEvidence ==
    ASSUME IInv
    PROVE  \A f \in RecordFindings(scene, material) :
              f.id \in RecordIds /\ (Judged(f) => CalledFor(scene, f))
  <1> DEFINE Good(f) == f.id \in RecordIds /\ (Judged(f) => CalledFor(scene, f))
  <1>1. \A f \in SoaCheck(scene.soa, scene.today) : Good(f)
    <2>1. \A f \in SoaCheck(scene.soa, scene.today) : f.id \in SoaIds
      BY DEF SoaCheck, When, F, SoaIds
    <2> QED
      BY <2>1 DEF RecordIds, SoaIds, Judged, TTLIds, AddrIds
  <1>2. \A f \in CaaCheck(scene.caa) : Good(f)
    <2>1. \A f \in CaaCheck(scene.caa) : f.id \in CaaIds
      BY DEF CaaCheck, When, F, CaaIds
    <2> QED
      BY <2>1 DEF RecordIds, CaaIds, Judged, TTLIds, AddrIds
  <1>3. ASSUME NEW f \in TtlCheck(scene, material) PROVE Good(f)
    <2>1. PICK x \in TTLTypes : \E t \in Least(scene, material, x) :
             \/ f = F("TTLExtreme", x) /\ t > Limits(scene.profile).extreme
             \/ f = F("TTLShort", x) /\ t < Limits(scene.profile).min
      BY <1>3 DEF TtlCheck
    <2>2. PICK t \in Least(scene, material, x) :
             \/ f = F("TTLExtreme", x) /\ t > Limits(scene.profile).extreme
             \/ f = F("TTLShort", x) /\ t < Limits(scene.profile).min
      BY <2>1
    <2>3. PICK c \in material.initial : c[1] = x /\ t = scene.ttl[c]
      BY <2>2 DEF Least, Collected
    <2>4. \E q \in {"ns", "any"} : c = <<x, q>>
      BY <2>3 DEF IInv, MaterialInv, Copies
    <2>5. f.subject = x /\ f.id \in TTLIds
      BY <2>2 DEF F, TTLIds
    <2>6. t \in {scene.ttl[<<f.subject, q>>] : q \in {"ns", "any"}}
      BY <2>3, <2>4, <2>5
    <2> QED
      BY <2>2, <2>5, <2>6 DEF F, CalledFor, RecordIds
  <1>4. ASSUME NEW f \in AddrCheck(scene, material) PROVE Good(f)
    <2>1. PICK a \in Gathered(scene, material) :
             Classify(a) # "public" /\ f = AddrFinding(Classify(a), a)
      BY <1>4 DEF AddrCheck
    <2>2. a \in ZoneAddresses(scene)
      <3>1. material.hosts \subseteq Hosts /\ DOMAIN scene.hostAddrs = Hosts
        BY DEF IInv, SceneInv, MaterialInv
      <3>2. CASE a \in UNION {scene.hostAddrs[h] : h \in material.hosts}
        BY <3>1, <3>2 DEF ZoneAddresses
      <3>3. CASE \E x \in {"A", "AAAA"} : a \in scene.addrs[x]
        BY <3>3 DEF ZoneAddresses
      <3>4. a \in UNION {scene.addrs[x] : x \in {y \in {"A", "AAAA"} : Has(Combined(material), y)}} =>
               \E x \in {"A", "AAAA"} : a \in scene.addrs[x]
        OBVIOUS
      <3> QED
        BY <2>1, <3>2, <3>3, <3>4 DEF Gathered
    <2>3. IsAddress(a)
      <3>1. AddressesOK(scene)
        BY DEF IInv, SceneInv, RecordsOK
      <3> QED
        BY <2>2, <3>1 DEF AddressesOK
    <2>4. f.id = Classify(a) /\ f.ip = a
      BY <2>1 DEF AddrFinding
    <2>5. Classify(a) \in AddrIds
      BY <2>1, CategoriesAreIds
    <2>6. ~Misjudged(a) => Registered(a, Classify(a))
      BY <2>1, <2>3, ClassifyRegistered
    <2>7. Judged(f) => ~Misjudged(a)
      BY <2>4, <2>5 DEF Judged, TTLIds, AddrIds
    <2> QED
      BY <2>2, <2>4, <2>5, <2>6, <2>7 DEF CalledFor, RecordIds
  <1> HIDE DEF Good
  <1>5. \A f \in RecordFindings(scene, material) : Good(f)
    BY <1>1, <1>2, <1>3, <1>4 DEF RecordFindings
  <1> QED
    BY <1>5 DEF Good

-----------------------------------------------------------------------------
(* The theorems *)

\* Every step of the pipeline preserves the invariant.
LEMMA StepIInv == IInv /\ [Next]_vars => IInv'
  <1> SUFFICES ASSUME IInv, [Next]_vars PROVE IInv'
    OBVIOUS
  <1> USE DEF Goto, Ask
  <1>1. ASSUME NEW ok \in BOOLEAN, QueryNS(ok) PROVE IInv'
    <2>1. CASE ok
      <3>1. /\ pc = "ns" /\ pc' = "any" /\ lost' = lost /\ UNCHANGED <<scene, found>>
            /\ material' = [material EXCEPT !.initial = NSAnswer]
        BY <1>1, <2>1, CallLoss DEF QueryNS
      <3>2. MaterialInv' /\ AnswerInv'
        BY <3>1, AnswersOK DEF IInv, MaterialInv, AnswerInv, Hosts, ToDS, ToKey
      <3> QED
        BY <3>1, <3>2, GatherStep DEF LoopInv, ToDnssec, ToDS, ToKey
    <2>2. CASE ~ok
      <3>1. /\ pc = "ns" /\ pc' = "done" /\ lost' = lost \cup {"other"}
            /\ UNCHANGED <<scene, material>> /\ found' = {F("GeneralError", "zone")}
        BY <1>1, <2>2, CallLoss DEF QueryNS
      <3>2. Ids' = {"GeneralError"}
        BY <3>1 DEF Ids, F
      <3>3. SceneInv' /\ MaterialInv'
        BY <3>1 DEF IInv, SceneInv, MaterialInv, Hosts
      <3>4. AnswerInv' /\ LoopInv' /\ FoundInv'
        BY <3>1 DEF AnswerInv, LoopInv, FoundInv, ToDnssec, ToDS, ToKey
      <3>5. ValidIsBacked' /\ PositiveEvidence'
        BY <3>1, <3>2 DEF ValidIsBacked, PositiveEvidence, F, Judged, TTLIds, AddrIds
      <3> QED
        BY <3>3, <3>4, <3>5 DEF IInv
    <2> QED
      BY <2>1, <2>2
  <1>2. ASSUME NEW ok \in BOOLEAN, QueryANY(ok) PROVE IInv'
    <2>1. /\ pc = "any" /\ pc' = "apex" /\ UNCHANGED <<scene, found>>
          /\ lost' = lost \/ lost' = lost \cup {"other"}
          /\ \/ material' = [material EXCEPT !.initial = @ \cup ANYAnswer]
             \/ material' = material
      BY <1>2, CallLoss DEF QueryANY
    <2>2. MaterialInv' /\ AnswerInv'
      BY <2>1, AnswersOK DEF IInv, MaterialInv, AnswerInv, Hosts, ToDS, ToKey
    <2> QED
      BY <2>1, <2>2, GatherStep DEF LoopInv, ToDnssec, ToDS, ToKey
  <1>3. ASSUME NEW ok \in BOOLEAN, QueryApex(ok) PROVE IInv'
    <2> DEFINE answer == TypeAnswer(Head(todo))
    <2>1. /\ pc = "apex" /\ pc' \in {"apex", "addresses", "child"}
          /\ pc' = "addresses" => scene.ns # <<>> /\ todo' = AddressQueries
          /\ UNCHANGED <<scene, found>>
          /\ lost' = lost \/ lost' = lost \cup {"other"}
          /\ \/ material' = [material EXCEPT !.rest = @ \cup answer]
             \/ material' = material
      BY <1>3, CallLoss DEF QueryApex, Gather
    <2>2. answer \subseteq Copies
      BY AnswersOK DEF IInv
    <2> HIDE DEF answer
    <2>3. MaterialInv' /\ AnswerInv'
      BY <2>1, <2>2, NamesDiffer DEF IInv, MaterialInv, AnswerInv, Hosts, ToDS, ToKey
    <2>4. LoopInv'
      <3>1. SUFFICES ASSUME pc' = "addresses"
                     PROVE  todo' # <<>> /\ todo' \in Seq(Hosts' \X {"A", "AAAA"})
        BY DEF LoopInv
      <3>2. Hosts' = Hosts /\ todo' = AddressQueries /\ scene.ns # <<>>
        BY <2>1, <3>1 DEF Hosts
      <3>3. AddressQueries # <<>> /\ AddressQueries \in Seq(Hosts \X {"A", "AAAA"})
        BY <3>2, AddressQueriesOK DEF IInv
      <3> QED
        BY <3>2, <3>3
    <2> QED
      BY <2>1, <2>3, <2>4, GatherStep DEF ToDnssec, ToDS, ToKey
  <1>4. ASSUME NEW ok \in BOOLEAN, QueryAddress(ok) PROVE IInv'
    <2> DEFINE host == Head(todo)[1]
               type == Head(todo)[2]
    <2>1. /\ pc = "addresses" /\ pc' \in {"addresses", "child"}
          /\ pc' = "addresses" => Tail(todo) # <<>> /\ todo' = Tail(todo)
          /\ UNCHANGED <<scene, found>>
          /\ lost' = lost \/ lost' = lost \cup {"other"}
          /\ GatherAddress(host, type) \/ material' = material
      BY <1>4, CallLoss DEF QueryAddress
    <2>2. /\ todo # <<>> /\ todo \in Seq(Hosts \X {"A", "AAAA"})
          /\ host \in Hosts /\ Hosts' = Hosts
      BY <2>1 DEF IInv, LoopInv, Hosts
    <2>3. HostAnswer(host, type) \subseteq Copies /\ Of(Negative, "host") \subseteq Copies
      BY AnswersOK DEF IInv
    <2> HIDE DEF host, type
    <2>4. MaterialInv' /\ AnswerInv'
      <3>1. CASE material' = material
        BY <2>1, <2>2, <3>1 DEF IInv, MaterialInv, AnswerInv, ToDS, ToKey
      <3>2. CASE GatherAddress(host, type)
        <4>1. /\ material'.initial = material.initial
              /\ material'.rest \subseteq material.rest \cup Copies
              /\ material.rest \subseteq material'.rest
              /\ material' \in [initial : SUBSET Copies, units : SUBSET Copies, hosts : SUBSET Hosts,
                               rest : SUBSET (Copies \cup Of({"DS", "PNSEC"}, "ds"))]
          BY <2>2, <2>3, <3>2 DEF GatherAddress, IInv, MaterialInv
        <4> QED
          BY <2>1, <2>2, <4>1, NamesDiffer DEF IInv, MaterialInv, AnswerInv, ToDS, ToKey
      <3> QED
        BY <2>1, <3>1, <3>2
    <2>5. LoopInv'
      <3>1. Tail(todo) \in Seq(Hosts \X {"A", "AAAA"})
        BY <2>2
      <3> QED
        BY <2>1, <2>2, <3>1 DEF LoopInv
    <2> QED
      BY <2>1, <2>4, <2>5, GatherStep DEF ToDnssec, ToDS, ToKey
  <1>5. ASSUME NEW ok \in BOOLEAN, QueryChild(ok) PROVE IInv'
    <2> DEFINE S == IF ok /\ scene.sub # "none" THEN Compare ELSE {}
    <2>1. /\ pc = "child" /\ pc' \in {"probe", "records"}
          /\ UNCHANGED <<scene, material>> /\ found' = found \cup S
          /\ lost' = lost \/ lost' = lost \cup {"other"}
      BY <1>5, CallLoss DEF QueryChild
    <2>2. \A f \in S : Harmless(f)
      BY DEF Compare, F, Harmless, Plainly
    <2> HIDE DEF S
    <2> QED
      BY <2>1, <2>2, QuietStep DEF ToDnssec, ToDS, ToKey
  <1>6. ASSUME NEW ok \in BOOLEAN, Probe(ok) PROVE IInv'
    <2> DEFINE S == IF ok THEN CheckServer(Head(todo), ProbeResponse) ELSE {}
    <2>1. /\ pc = "probe" /\ pc' \in {"probe", "records"}
          /\ UNCHANGED <<scene, material>> /\ found' = found \cup S
          /\ lost' = lost \/ lost' = lost \cup {"other"}
      BY <1>6, CallLoss DEF Probe
    <2>2. \A f \in S : Harmless(f)
      BY DEF CheckServer, F, Harmless, Plainly
    <2> HIDE DEF S
    <2> QED
      BY <2>1, <2>2, QuietStep DEF ToDnssec, ToDS, ToKey
  <1>7. ASSUME CheckRecords PROVE IInv'
    <2> DEFINE S == RecordFindings(scene, material)
    <2>1. /\ pc = "records" /\ pc' = "dnskey"
          /\ UNCHANGED <<scene, material, lost>> /\ found' = found \cup S
      BY <1>7 DEF CheckRecords
    <2>2. \A f \in S : Harmless(f)
      BY RecordEvidence DEF Harmless
    <2> HIDE DEF S
    <2> QED
      BY <2>1, <2>2, QuietStep DEF ToDnssec, ToDS, ToKey
  <1>8. ASSUME NEW ok \in BOOLEAN, QueryDNSKEY(ok) PROVE IInv'
    <2>1. /\ pc = "dnskey" /\ pc' = "ds" /\ UNCHANGED <<scene, found>>
          /\ \/ /\ lost' = lost
                /\ material' = [material EXCEPT !.rest = @ \cup KeyAnswer]
             \/ /\ lost' = lost \cup {"dnskey"}
                /\ material' = material
      BY <1>8, CallLoss DEF QueryDNSKEY, Gather
    <2>2. MaterialInv' /\ AnswerInv'
      BY <2>1, AnswersOK, NamesDiffer DEF IInv, MaterialInv, AnswerInv, Hosts, ToDS, ToKey
    <2> QED
      BY <2>1, <2>2, GatherStep DEF LoopInv, ToDnssec, ToDS, ToKey
  <1>9. ASSUME NEW ok \in BOOLEAN, QueryDS(ok) PROVE IInv'
    <2>1. /\ pc = "ds" /\ pc' = "random" /\ UNCHANGED <<scene, found>>
          /\ \/ /\ lost' = lost
                /\ material' = [material EXCEPT !.rest = @ \cup DSAnswer]
             \/ /\ lost' = lost \cup {"ds"}
                /\ material' = material
      BY <1>9, CallLoss DEF QueryDS, Gather
    <2>2. MaterialInv' /\ AnswerInv'
      BY <2>1, AnswersOK, NamesDiffer DEF IInv, MaterialInv, AnswerInv, Hosts, ToDS, ToKey
    <2> QED
      BY <2>1, <2>2, GatherStep DEF LoopInv, ToDnssec, ToDS, ToKey
  <1>10. ASSUME NEW ok \in BOOLEAN, QueryRandom(ok) PROVE IInv'
    <2>1. /\ pc = "random" /\ pc' = "dnssec" /\ UNCHANGED <<scene, found>>
          /\ lost' = lost \/ lost' = lost \cup {"other"}
          /\ \/ material' = [material EXCEPT !.rest = @ \cup RandomAnswer]
             \/ material' = material
      BY <1>10, CallLoss DEF QueryRandom, Gather
    <2>2. MaterialInv' /\ AnswerInv'
      BY <2>1, AnswersOK, NamesDiffer DEF IInv, MaterialInv, AnswerInv, Hosts, ToDS, ToKey
    <2> QED
      BY <2>1, <2>2, GatherStep DEF LoopInv, ToDnssec, ToDS, ToKey
  <1>11. ASSUME NEW ok \in BOOLEAN, Transfer(ok) PROVE IInv'
    <2> DEFINE S == {F(ParseTransferResult(MakeTransferResp(ok)), Head(todo))}
    <2>1. /\ pc = "axfr" /\ pc' \in {"axfr", "wildcard"}
          /\ UNCHANGED <<scene, material>> /\ found' = found \cup S
          /\ lost' = lost \/ lost' = lost \cup {"other"}
      BY <1>11, CallLoss DEF Transfer
    <2>2. ParseTransferResult(MakeTransferResp(ok)) \in Plainly
      BY DEF ParseTransferResult, MakeTransferResp, Plainly
    <2>3. \A f \in S : Harmless(f)
      BY <2>2 DEF F, Harmless
    <2> HIDE DEF S
    <2> QED
      BY <2>1, <2>3, QuietStep DEF ToDnssec, ToDS, ToKey
  <1>12. ASSUME NEW ok \in BOOLEAN, QueryWildcard(ok) PROVE IInv'
    <2> DEFINE S == {f \in {F("WildcardPresent", "zone")} : ok /\ IsWildcardResponse}
    <2>1. /\ pc = "wildcard" /\ pc' \in {"recursion", "report"}
          /\ UNCHANGED <<scene, material>> /\ found' = found \cup S
          /\ lost' = lost \/ lost' = lost \cup {"other"}
      BY <1>12, CallLoss DEF QueryWildcard
    <2>2. \A f \in S : Harmless(f)
      BY DEF F, Harmless, Plainly
    <2> HIDE DEF S
    <2> QED
      BY <2>1, <2>2, QuietStep DEF ToDnssec, ToDS, ToKey
  <1>13. ASSUME NEW ok \in BOOLEAN, QueryRecursion(ok) PROVE IInv'
    <2> DEFINE S == {f \in {F("RecursionOpen", Head(todo))} : ok /\ CheckRecursion}
    <2>1. /\ pc = "recursion" /\ pc' \in {"recursion", "report"}
          /\ UNCHANGED <<scene, material>> /\ found' = found \cup S
          /\ lost' = lost \/ lost' = lost \cup {"other"}
      BY <1>13, CallLoss DEF QueryRecursion
    <2>2. \A f \in S : Harmless(f)
      BY DEF F, Harmless, Plainly
    <2> HIDE DEF S
    <2> QED
      BY <2>1, <2>2, QuietStep DEF ToDnssec, ToDS, ToKey
  <1>14. ASSUME Report PROVE IInv'
    <2> DEFINE S == {}
    <2>1. /\ pc = "report" /\ pc' = "done"
          /\ UNCHANGED <<scene, material, lost>> /\ found' = found \cup S
      BY <1>14 DEF Report
    <2>2. \A f \in S : Harmless(f)
      OBVIOUS
    <2> HIDE DEF S
    <2> QED
      BY <2>1, <2>2, QuietStep DEF ToDnssec, ToDS, ToKey
  <1>15. ASSUME UNCHANGED vars PROVE IInv'
    <2>1. UNCHANGED <<scene, pc, todo, material, found, lost>>
      BY <1>15 DEF vars
    <2>2. Ids' = Ids /\ Hosts' = Hosts
      BY <2>1 DEF Ids, Hosts
    <2>3. SceneInv' /\ MaterialInv' /\ AnswerInv' /\ LoopInv' /\ FoundInv'
      BY <2>1, <2>2 DEF IInv, SceneInv, MaterialInv, AnswerInv, LoopInv, FoundInv
    <2>4. ValidIsBacked'
      BY <2>1, <2>2, PassKept DEF IInv
    <2>5. PositiveEvidence'
      BY <2>1, <2>2, EvidenceKept DEF IInv
    <2> QED
      BY <2>3, <2>4, <2>5 DEF IInv
  <1> QED
    BY <1>1, <1>2, <1>3, <1>4, <1>5, <1>6, <1>7, <1>8, <1>9, <1>10, <1>11, <1>12,
       <1>13, <1>14, <1>15, DnssecStep
    DEF Next, QueryStep, LocalStep

\* The invariant holds in every run, for any zones, options and losses.
THEOREM Invariance == Spec => []IInv
  BY InitIInv, StepIInv, PTL DEF Spec

\* A "Valid" verdict of Runner.Run is never the product of lost queries.
THEOREM NoFalsePass == Spec => []ValidIsBacked
  <1>1. IInv => ValidIsBacked
    BY DEF IInv
  <1> QED
    BY <1>1, Invariance, PTL

\* What a report says was seen is true of the zone, whichever queries failed.
THEOREM EvidenceIsReal == Spec => []PositiveEvidence
  <1>1. IInv => PositiveEvidence
    BY DEF IInv
  <1> QED
    BY <1>1, Invariance, PTL
=============================================================================
