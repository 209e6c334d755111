-------------------------- MODULE AuditExactProofs --------------------------
(***************************************************************************)
(* Proofs about AuditRun for every set of scenes: a run that loses no      *)
(* query reports on DNSSEC, addresses and TTLs exactly what the zone calls *)
(* for, and a run that completes has one verdict on transfers per server.  *)
(***************************************************************************)
EXTENDS AuditCountProofs, FiniteSetTheorems

\* Steps up to the checks on records, and the last steps.
ToRecords == {"ns", "any", "apex", "addresses", "child", "probe", "records"}
Closing   == {"wildcard", "recursion", "report", "done"}

\* The material holds nothing but what the zone and its parent publish, ...
WithinZone ==
    /\ material.initial \subseteq NSAnswer \cup ANYAnswer
    /\ material.rest \subseteq (Visible \X Queries) \cup DSAnswer
    /\ material.units \subseteq Of(Negative, "host")
    /\ material.hosts \subseteq Hosts \ {"apex"}

\* What the answer to the A query of a name server brings.
AddressKnown(h) ==
    /\ h # "apex" => h \in material.hosts
    /\ h \in scene.inZone => HostAnswer(h, "A") \subseteq material.rest

\* ... and, as long as no query is lost, all that was asked for: before, ...
EarlyMaterial ==
    /\ pc # "ns" => NSAnswer \subseteq material.initial
    /\ pc \notin {"ns", "any"} => ANYAnswer \subseteq material.initial
    /\ pc = "apex" =>
          \A t \in ApexSet \ Range(todo) : TypeAnswer(t) \subseteq material.rest
    /\ pc \notin {"ns", "any", "apex"} =>
          \A t \in ApexSet : TypeAnswer(t) \subseteq material.rest
    /\ pc = "addresses" =>
          \A h \in Hosts : <<h, "A">> \notin Range(todo) => AddressKnown(h)
    /\ pc \notin {"ns", "any", "apex", "addresses"} => \A h \in Hosts : AddressKnown(h)
\* ... and in the DNSSEC part.
LateMaterial ==
    /\ pc \notin ToKey => KeyAnswer \subseteq material.rest
    /\ pc \notin ToDS => DSAnswer \subseteq material.rest
    /\ pc \notin ToDS \cup {"random"} => RandomAnswer \subseteq material.rest
Complete == lost = {} => EarlyMaterial /\ LateMaterial

\* The findings on records, and those among some findings that RecordsExact
\* is about.
OfRecords  == {f \in found : f.id \in RecordIds}
Watched(S) == {f \in S : Judged(f) /\ (f.id \in TTLIds => ~ZeroTTL(scene, f.subject))}
RecordsInv ==
    /\ pc \in ToRecords => OfRecords = {}
    /\ pc \notin ToRecords /\ lost = {} =>
          Watched(found) = Watched(AddressReference \cup TTLReference)
DnssecInv ==
    pc \notin ToDnssec /\ lost = {} =>
        /\ PlainlySigned => Ids \cap DnssecIds = Reference
        /\ PlainlySigned /\ (scene.ds # "none" \/ scene.parentDenial.kind = "none") =>
              ("NoNSEC" \in Ids <=> Expected /\ scene.denial.kind = "none")

\* The verdicts on transfers in the name of a server.
AxfrIds == {"AXFRAllowed", "AXFRRefused", "AXFRFailed"}
About(h, ids) == {f.id : f \in {g \in found : g.subject = h /\ g.id \in ids}}
OneVerdict(h) == \E v \in AxfrIds : About(h, AxfrIds) = {v}
AxfrInv ==
    /\ pc \in ToDnssec => \A h \in Hosts : About(h, AxfrIds) = {}
    /\ pc = "axfr" =>
          /\ \A i, j \in 1..Len(todo) : todo[i] = todo[j] => i = j
          /\ \A h \in Range(todo) : About(h, AxfrIds) = {}
          /\ \A h \in Hosts \ Range(todo) : OneVerdict(h)
    /\ pc \in Closing /\ scene.active /\ "GeneralError" \notin Ids =>
          \A h \in Hosts : OneVerdict(h)

\* A run that its first query ends reports that no call was made.
AbortInv ==
    /\ pc = "ns" => reported = 0
    /\ "GeneralError" \in Ids => pc = "done" /\ queries = 1 /\ reported = 0

ExactInv == /\ WithinZone /\ Complete /\ RecordsInv /\ DnssecInv
            /\ AxfrInv /\ AbortInv

\* All that is known of an audit.
AuditInv == IInv /\ CountInv /\ TypeInv /\ ExactInv
-----------------------------------------------------------------------------
(* Facts about the answers of a zone *)

\* A sequence that is not empty holds its head and what its tail holds; if
\* nothing is in it twice, the head is not in the tail.
LEMMA HeadAndTail ==
    ASSUME NEW S, NEW s \in Seq(S), s # <<>>
    PROVE  /\ Range(s) = {Head(s)} \cup Range(Tail(s))
           /\ Tail(s) = <<>> => Range(Tail(s)) = {}
           /\ (\A i, j \in 1..Len(s) : s[i] = s[j] => i = j) =>
                 /\ Head(s) \notin Range(Tail(s))
                 /\ \A i, j \in 1..Len(Tail(s)) : Tail(s)[i] = Tail(s)[j] => i = j
  <1>1. /\ Len(s) \in Nat /\ Len(s) >= 1 /\ Head(s) = s[1]
        /\ Tail(s) \in Seq(S) /\ Len(Tail(s)) = Len(s) - 1
        /\ \A i \in 1..Len(Tail(s)) : Tail(s)[i] = s[i + 1]
    BY HeadTailProperties, LenProperties, EmptySeq
  <1>2. DOMAIN s = 1..Len(s) /\ DOMAIN Tail(s) = 1..Len(Tail(s))
    BY <1>1, LenProperties
  <1>3. Range(s) \subseteq {Head(s)} \cup Range(Tail(s))
    <2> SUFFICES ASSUME NEW i \in 1..Len(s), i # 1 PROVE s[i] \in Range(Tail(s))
      BY <1>1, <1>2 DEF Range
    <2>1. i - 1 \in 1..Len(Tail(s)) /\ Tail(s)[i - 1] = s[(i - 1) + 1] /\ (i - 1) + 1 = i
      BY <1>1
    <2> QED
      BY <1>2, <2>1 DEF Range
  <1>4. {Head(s)} \cup Range(Tail(s)) \subseteq Range(s)
    <2>1. \A i \in 1..Len(Tail(s)) : i + 1 \in 1..Len(s)
      BY <1>1
    <2>2. 1 \in 1..Len(s)
      BY <1>1
    <2> QED
      BY <1>1, <1>2, <2>1, <2>2 DEF Range
  <1>5. ASSUME \A i, j \in 1..Len(s) : s[i] = s[j] => i = j
        PROVE  /\ Head(s) \notin Range(Tail(s))
               /\ \A i, j \in 1..Len(Tail(s)) : Tail(s)[i] = Tail(s)[j] => i = j
    <2>1. \A i \in 1..Len(Tail(s)) : i + 1 \in 1..Len(s) /\ i + 1 # 1
      BY <1>1
    <2>2. 1 \in 1..Len(s)
      BY <1>1
    <2>3. Head(s) \notin Range(Tail(s))
      BY <1>1, <1>2, <1>5, <2>1, <2>2 DEF Range
    <2>4. ASSUME NEW i \in 1..Len(Tail(s)), NEW j \in 1..Len(Tail(s)), Tail(s)[i] = Tail(s)[j]
          PROVE  i = j
      <3>1. i + 1 = j + 1
        BY <1>1, <1>5, <2>1, <2>4
      <3> QED
        BY <1>1, <3>1
    <2> QED
      BY <2>3, <2>4
  <1>6. Tail(s) = <<>> => Range(Tail(s)) = {}
    BY <1>1, <1>2 DEF Range
  <1> QED
    BY <1>3, <1>4, <1>5, <1>6

\* The name servers are the elements of the NS set, each once.
LEMMA HostsOnce ==
    ASSUME SceneOK(scene)
    PROVE  /\ scene.ns \in Seq(STRING) /\ Range(scene.ns) = Hosts
           /\ \A i, j \in 1..Len(scene.ns) : scene.ns[i] = scene.ns[j] => i = j
           /\ scene.ns = <<>> => Hosts = {}
  BY DEF SceneOK, Range, Hosts

\* Every name server is asked for its A set.
LEMMA AllAsked ==
    ASSUME SceneInv, scene.ns # <<>>
    PROVE  \A h \in Hosts : <<h, "A">> \in Range(AddressQueries)
  <1>1. Len(scene.ns) \in Nat
    BY DEF SceneInv
  <1>2. SUFFICES ASSUME NEW i \in 1..Len(scene.ns)
                 PROVE  <<scene.ns[i], "A">> \in Range(AddressQueries)
    BY DEF Hosts
  <1>3. /\ 2 * i - 1 \in 1..(2 * Len(scene.ns))
        /\ ((2 * i - 1) + 1) \div 2 = i /\ (2 * i - 1) % 2 = 1
    BY <1>1
  <1>4. DOMAIN AddressQueries = 1..(2 * Len(scene.ns))
    BY DEF AddressQueries
  <1>5. AddressQueries[2 * i - 1] = <<scene.ns[i], "A">>
    BY <1>3 DEF AddressQueries
  <1> QED
    BY <1>3, <1>4, <1>5 DEF Range

\* As long as no query is lost every call is answered.
LEMMA CallLossless ==
    ASSUME NEW server, NEW ok \in BOOLEAN, Call(server, ok)
    PROVE  lost' = {} => lost = {} /\ ok
  BY DEF Call, Lost

\* What depends on the zone alone does not change.
LEMMA ZoneKept ==
    ASSUME UNCHANGED scene
    PROVE  /\ UNCHANGED <<Negative, NSAnswer, ANYAnswer, KeyAnswer, DSAnswer, RandomAnswer,
                          Hosts, Visible, PlainlySigned, Expected, Reference>>
           /\ UNCHANGED <<AddressReference, TTLReference>>
           /\ \A t : TypeAnswer(t)' = TypeAnswer(t)
           /\ \A h, t : HostAnswer(h, t)' = HostAnswer(h, t)
  <1>1. UNCHANGED <<Negative, Hosts>>
    BY DEF Negative, Hosts
  <1>2. UNCHANGED <<NSAnswer, ANYAnswer, KeyAnswer, DSAnswer, RandomAnswer>>
    BY <1>1 DEF NSAnswer, ANYAnswer, KeyAnswer, DSAnswer, RandomAnswer
  <1>3. /\ \A t : TypeAnswer(t)' = TypeAnswer(t)
        /\ \A h, t : HostAnswer(h, t)' = HostAnswer(h, t)
    BY <1>1 DEF TypeAnswer, HostAnswer
  <1>4. UNCHANGED Visible
    BY <1>1 DEF Visible
  <1>5. UNCHANGED <<ZoneSigs, Supported, Uniform>>
    BY <1>4 DEF ZoneSigs, Supported, Uniform
  <1>6. UNCHANGED <<PlainlySigned, Expected, Intact>>
    BY <1>5 DEF PlainlySigned, Expected, Intact
  <1>7. UNCHANGED Reference
    BY <1>5, <1>6 DEF Reference
  <1>8. UNCHANGED AddressReference
    BY <1>1 DEF AddressReference
  <1>9. UNCHANGED TTLReference
    BY <1>2 DEF TTLReference
  <1> QED
    BY <1>1, <1>2, <1>3, <1>4, <1>6, <1>7, <1>8, <1>9

\* No answer holds more than the zone has.
LEMMA AnswersVisible ==
    ASSUME SceneInv
    PROVE  /\ \A t \in ApexSet : TypeAnswer(t) \subseteq Visible \X Queries
           /\ KeyAnswer \subseteq Visible \X Queries /\ RandomAnswer \subseteq Visible \X Queries
           /\ Of(Negative, "host") \subseteq Visible \X Queries
           /\ NSAnswer \cup ANYAnswer \subseteq Visible \X Queries
           /\ \A h \in Hosts \cap scene.inZone : \A t \in {"A", "AAAA"} :
                 HostAnswer(h, t) \subseteq Visible \X Queries
  <1>1. \A S, q : S \subseteq Visible /\ q \in Queries => Of(S, q) \subseteq Visible \X Queries
    BY DEF Of
  <1>2. {"ns", "any", "apex", "host", "dnskey", "random"} \subseteq Queries
    BY DEF Queries
  <1>3. /\ Negative \subseteq Visible /\ scene.types \subseteq Visible
        /\ scene.ns # <<>> => "NS" \in Visible
        /\ scene.keys # {} => "DNSKEY" \in Visible
        /\ scene.wild => "WILD" \in Visible
    BY DEF Visible
  <1>4. "SOA" \in Visible
    BY <1>3 DEF Negative
  <1>5. \A h \in Hosts \cap scene.inZone :
           h # "apex" /\ scene.hostAddrs[h] # {} => "HOST" \in Visible
    BY DEF Visible
  <1>6. \A t \in ApexSet : TypeAnswer(t) \subseteq Visible \X Queries
    BY <1>1, <1>2, <1>3 DEF TypeAnswer
  <1>7. KeyAnswer \subseteq Visible \X Queries /\ RandomAnswer \subseteq Visible \X Queries
    BY <1>1, <1>2, <1>3 DEF KeyAnswer, RandomAnswer
  <1>8. NSAnswer \subseteq Visible \X Queries /\ ANYAnswer \subseteq Visible \X Queries
    BY <1>1, <1>2, <1>3, <1>4 DEF NSAnswer, ANYAnswer
  <1>9. \A h \in Hosts \cap scene.inZone : \A t \in {"A", "AAAA"} :
           HostAnswer(h, t) \subseteq Visible \X Queries
    BY <1>1, <1>2, <1>3, <1>5 DEF HostAnswer
  <1>10. Of(Negative, "host") \subseteq Visible \X Queries
    BY <1>1, <1>2, <1>3
  <1> QED
    BY <1>6, <1>7, <1>8, <1>9, <1>10

-----------------------------------------------------------------------------
(* The material *)

\* Every step keeps to what the zone and its parent publish.
LEMMA StepWithin ==
    ASSUME IInv, CountInv, WithinZone, [Next]_vars
    PROVE  WithinZone'
  <1> USE DEF Goto, Ask
  <1>0. SceneInv
    BY DEF IInv
  <1>1. ASSUME UNCHANGED <<scene, material>> PROVE WithinZone'
    BY <1>1, ZoneKept DEF WithinZone
  <1>2. ASSUME NEW ok \in BOOLEAN, QueryNS(ok) \/ QueryANY(ok) PROVE WithinZone'
    <2>1. /\ UNCHANGED scene
          /\ \/ material' = [material EXCEPT !.initial = NSAnswer]
             \/ material' = [material EXCEPT !.initial = @ \cup ANYAnswer]
             \/ material' = material
      BY <1>2 DEF QueryNS, QueryANY
    <2> QED
      BY <2>1, ZoneKept DEF WithinZone, IInv, MaterialInv
  <1>3. ASSUME NEW ok \in BOOLEAN, QueryApex(ok) PROVE WithinZone'
    <2>1. /\ UNCHANGED scene /\ pc = "apex"
          /\ \/ material' = [material EXCEPT !.rest = @ \cup TypeAnswer(Head(todo))]
             \/ material' = material
      BY <1>3 DEF QueryApex, Gather
    <2>2. Head(todo) \in ApexSet
      BY <2>1 DEF CountInv, EarlyCount, Ahead
    <2> QED
      BY <1>0, <2>1, <2>2, ZoneKept, AnswersVisible DEF WithinZone, IInv, MaterialInv
  <1>4. ASSUME NEW ok \in BOOLEAN, QueryAddress(ok) PROVE WithinZone'
    <2> DEFINE host == Head(todo)[1]
               type == Head(todo)[2]
    <2>1. /\ UNCHANGED scene /\ pc = "addresses"
          /\ GatherAddress(host, type) \/ material' = material
      BY <1>4 DEF QueryAddress
    <2>2. host \in Hosts /\ type \in {"A", "AAAA"}
      BY <2>1 DEF IInv, LoopInv
    <2> HIDE DEF host, type
    <2>3. host \in scene.inZone => HostAnswer(host, type) \subseteq Visible \X Queries
      BY <1>0, <2>2, AnswersVisible
    <2>4. CASE GatherAddress(host, type)
      <3>1. /\ material'.initial = material.initial
            /\ material'.rest \subseteq material.rest \cup (Visible \X Queries)
            /\ material'.units \subseteq material.units \cup Of(Negative, "host")
            /\ material'.hosts \subseteq material.hosts \cup ({host} \ {"apex"})
        BY <2>3, <2>4 DEF GatherAddress, IInv, MaterialInv
      <3> QED
        BY <2>1, <2>2, <3>1, ZoneKept DEF WithinZone
    <2> QED
      BY <1>1, <2>1, <2>4
  <1>5. ASSUME NEW ok \in BOOLEAN, QueryDNSKEY(ok) \/ QueryDS(ok) \/ QueryRandom(ok)
        PROVE  WithinZone'
    <2>1. /\ UNCHANGED scene
          /\ \/ material' = [material EXCEPT !.rest = @ \cup KeyAnswer]
             \/ material' = [material EXCEPT !.rest = @ \cup DSAnswer]
             \/ material' = [material EXCEPT !.rest = @ \cup RandomAnswer]
             \/ material' = material
      BY <1>5 DEF QueryDNSKEY, QueryDS, QueryRandom, Gather
    <2> QED
      BY <1>0, <2>1, ZoneKept, AnswersVisible DEF WithinZone, IInv, MaterialInv
  <1>6. ASSUME NEW ok \in BOOLEAN,
               QueryChild(ok) \/ Probe(ok) \/ Transfer(ok) \/ QueryWildcard(ok) \/ QueryRecursion(ok)
        PROVE  UNCHANGED <<scene, material>>
    BY <1>6 DEF QueryChild, Probe, Transfer, QueryWildcard, QueryRecursion
  <1>7. LocalStep \/ UNCHANGED vars => UNCHANGED <<scene, material>>
    BY DEF LocalStep, CheckRecords, CheckDNSSEC, Report, vars
  <1> QED
    BY <1>1, <1>2, <1>3, <1>4, <1>5, <1>6, <1>7 DEF Next, QueryStep

\* A step after the address queries that gathers nothing.
LEMMA StillComplete ==
    ASSUME Complete, UNCHANGED <<scene, material>>, lost' = {} => lost = {},
           pc \notin {"ns", "any", "apex", "addresses"},
           pc' \notin {"ns", "any", "apex", "addresses"},
           pc' \notin ToKey => pc \notin ToKey,
           pc' \notin ToDS => pc \notin ToDS,
           pc' \notin ToDS \cup {"random"} => pc \notin ToDS \cup {"random"}
    PROVE  Complete'
  BY ZoneKept DEF Complete, EarlyMaterial, LateMaterial, AddressKnown

\* Every answer is taken in.
LEMMA StepComplete ==
    ASSUME IInv, CountInv, Complete, [Next]_vars
    PROVE  Complete'
  <1> USE DEF Goto, Ask
  <1>0. SceneInv
    BY DEF IInv
  <1>1. ASSUME NEW ok \in BOOLEAN, QueryNS(ok), lost' = {} PROVE Complete'
    <2>1. /\ UNCHANGED scene /\ pc' = "any"
          /\ material' = [material EXCEPT !.initial = NSAnswer]
      BY <1>1, CallLossless DEF QueryNS
    <2> QED
      BY <2>1, ZoneKept DEF Complete, EarlyMaterial, LateMaterial, IInv, MaterialInv, ToKey, ToDS
  <1>2. ASSUME NEW ok \in BOOLEAN, QueryANY(ok), lost' = {} PROVE Complete'
    <2>1. /\ UNCHANGED scene /\ pc = "any" /\ pc' = "apex" /\ todo' = ApexTypes /\ lost = {}
          /\ material' = [material EXCEPT !.initial = @ \cup ANYAnswer]
      BY <1>2, CallLossless DEF QueryANY
    <2>2. ApexSet \subseteq Range(ApexTypes)
      <3>1. DOMAIN ApexTypes = 1..6
        BY DEF ApexTypes
      <3>2. /\ ApexTypes[1] = "A" /\ ApexTypes[2] = "AAAA" /\ ApexTypes[3] = "MX"
            /\ ApexTypes[4] = "CNAME" /\ ApexTypes[5] = "TXT" /\ ApexTypes[6] = "CAA"
        BY DEF ApexTypes
      <3> QED
        BY <3>1, <3>2 DEF Range, ApexSet
    <2> QED
      BY <2>1, <2>2, ZoneKept
      DEF Complete, EarlyMaterial, LateMaterial, IInv, MaterialInv, ToKey, ToDS
  <1>3. ASSUME NEW ok \in BOOLEAN, QueryApex(ok), lost' = {} PROVE Complete'
    <2>1. /\ UNCHANGED scene /\ pc = "apex" /\ lost = {}
          /\ material' = [material EXCEPT !.rest = @ \cup TypeAnswer(Head(todo))]
          /\ \/ pc' = "apex" /\ todo' = Tail(todo)
             \/ pc' = "addresses" /\ Tail(todo) = <<>> /\ scene.ns # <<>> /\ todo' = AddressQueries
             \/ pc' = "child" /\ Tail(todo) = <<>> /\ scene.ns = <<>>
      BY <1>3, CallLossless DEF QueryApex, Gather
    <2>2. todo \in Seq(ApexSet) /\ todo # <<>>
      BY <2>1 DEF CountInv, EarlyCount, Ahead
    <2>3. /\ Range(todo) = {Head(todo)} \cup Range(Tail(todo))
          /\ Tail(todo) = <<>> => Range(Tail(todo)) = {}
      BY <2>2, HeadAndTail
    <2>4. \A t \in ApexSet \ Range(Tail(todo)) : TypeAnswer(t) \subseteq material'.rest
      BY <2>1, <2>3 DEF Complete, EarlyMaterial, IInv, MaterialInv
    <2>5. NSAnswer \subseteq material'.initial /\ ANYAnswer \subseteq material'.initial
      BY <2>1 DEF Complete, EarlyMaterial, IInv, MaterialInv
    <2>6. pc' = "addresses" => \A h \in Hosts : <<h, "A">> \in Range(todo')
      BY <1>0, <2>1, AllAsked
    <2>7. pc' = "child" => Hosts = {}
      BY <1>0, <2>1 DEF Hosts, SceneInv
    <2> QED
      BY <2>1, <2>3, <2>4, <2>5, <2>6, <2>7, ZoneKept
      DEF Complete, EarlyMaterial, LateMaterial, ToKey, ToDS
  <1>4. ASSUME NEW ok \in BOOLEAN, QueryAddress(ok), lost' = {} PROVE Complete'
    <2> DEFINE host == Head(todo)[1]
               type == Head(todo)[2]
    <2>1. /\ UNCHANGED scene /\ pc = "addresses" /\ lost = {}
          /\ GatherAddress(host, type)
          /\ \/ pc' = "addresses" /\ todo' = Tail(todo)
             \/ pc' = "child" /\ Tail(todo) = <<>>
      BY <1>4, CallLossless DEF QueryAddress
    <2>2. todo \in Seq(Hosts \X {"A", "AAAA"}) /\ todo # <<>>
      BY <2>1 DEF IInv, LoopInv
    <2>3. /\ Range(todo) = {Head(todo)} \cup Range(Tail(todo))
          /\ Tail(todo) = <<>> => Range(Tail(todo)) = {}
      BY <2>2, HeadAndTail
    <2>4. Head(todo) = <<host, type>> /\ host \in Hosts
      BY <2>2
    <2> HIDE DEF host, type
    <2>5. /\ material'.initial = material.initial
          /\ material.rest \subseteq material'.rest /\ material.hosts \subseteq material'.hosts
          /\ type = "A" => /\ host # "apex" => host \in material'.hosts
                           /\ host \in scene.inZone =>
                                 HostAnswer(host, "A") \subseteq material'.rest
      BY <2>1 DEF GatherAddress, IInv, MaterialInv
    <2>6. ASSUME NEW h \in Hosts, <<h, "A">> \notin Range(Tail(todo)) PROVE AddressKnown(h)'
      <3>1. CASE h = host /\ type = "A"
        BY <2>1, <2>5, <3>1, ZoneKept DEF AddressKnown
      <3>2. CASE ~(h = host /\ type = "A")
        <4>1. <<h, "A">> \notin Range(todo)
          BY <2>3, <2>4, <2>6, <3>2
        <4>2. AddressKnown(h)
          BY <2>1, <4>1 DEF Complete, EarlyMaterial
        <4> QED
          BY <2>1, <2>5, <4>2, ZoneKept DEF AddressKnown
      <3> QED
        BY <3>1, <3>2
    <2>7. /\ NSAnswer \subseteq material'.initial /\ ANYAnswer \subseteq material'.initial
          /\ \A t \in ApexSet : TypeAnswer(t) \subseteq material'.rest
      BY <2>1, <2>5 DEF Complete, EarlyMaterial
    <2> QED
      BY <2>1, <2>3, <2>6, <2>7, ZoneKept
      DEF Complete, EarlyMaterial, LateMaterial, ToKey, ToDS
  <1>5. ASSUME NEW ok \in BOOLEAN, QueryDNSKEY(ok) \/ QueryDS(ok) \/ QueryRandom(ok), lost' = {}
        PROVE  Complete'
    <2>1. /\ UNCHANGED scene /\ lost = {}
          /\ \/ /\ pc = "dnskey" /\ pc' = "ds"
                /\ material' = [material EXCEPT !.rest = @ \cup KeyAnswer]
             \/ /\ pc = "ds" /\ pc' = "random"
                /\ material' = [material EXCEPT !.rest = @ \cup DSAnswer]
             \/ /\ pc = "random" /\ pc' = "dnssec"
                /\ material' = [material EXCEPT !.rest = @ \cup RandomAnswer]
      BY <1>5, CallLossless DEF QueryDNSKEY, QueryDS, QueryRandom, Gather
    <2>2. EarlyMaterial /\ LateMaterial
      BY <2>1 DEF Complete
    <2>3. /\ material'.initial = material.initial /\ material'.hosts = material.hosts
          /\ material.rest \subseteq material'.rest
          /\ pc = "dnskey" => KeyAnswer \subseteq material'.rest
          /\ pc = "ds" => DSAnswer \subseteq material'.rest
          /\ pc = "random" => RandomAnswer \subseteq material'.rest
      BY <2>1 DEF IInv, MaterialInv
    <2>4. \A h \in Hosts : AddressKnown(h)'
      BY <2>1, <2>2, <2>3, ZoneKept DEF EarlyMaterial, AddressKnown
    <2>5. EarlyMaterial'
      BY <2>1, <2>2, <2>3, <2>4, ZoneKept DEF EarlyMaterial
    <2>6. LateMaterial'
      BY <2>1, <2>2, <2>3, ZoneKept DEF LateMaterial, ToKey, ToDS
    <2> QED
      BY <2>5, <2>6 DEF Complete
  <1>6. ASSUME NEW ok \in BOOLEAN,
               QueryChild(ok) \/ Probe(ok) \/ Transfer(ok) \/ QueryWildcard(ok) \/ QueryRecursion(ok),
               lost' = {}
        PROVE  Complete'
    <2>1. /\ UNCHANGED <<scene, material>> /\ lost = {}
          /\ \/ pc = "child" /\ pc' \in {"probe", "records"}
             \/ pc = "probe" /\ pc' \in {"probe", "records"}
             \/ pc = "axfr" /\ pc' \in {"axfr", "wildcard"}
             \/ pc = "wildcard" /\ pc' \in {"recursion", "report"}
             \/ pc = "recursion" /\ pc' \in {"recursion", "report"}
      BY <1>6, CallLossless DEF QueryChild, Probe, Transfer, QueryWildcard, QueryRecursion
    <2> QED
      BY <2>1, StillComplete DEF ToKey, ToDS
  <1>7. ASSUME LocalStep PROVE Complete'
    <2>1. /\ UNCHANGED <<scene, material, lost>>
          /\ \/ pc = "records" /\ pc' = "dnskey"
             \/ pc = "dnssec" /\ pc' \in {"axfr", "wildcard"}
             \/ pc = "report" /\ pc' = "done"
      BY <1>7 DEF LocalStep, CheckRecords, CheckDNSSEC, Report
    <2> QED
      BY <2>1, StillComplete DEF ToKey, ToDS
  <1>8. ASSUME UNCHANGED vars PROVE Complete'
    <2>1. UNCHANGED <<scene, material, lost, pc, todo>>
      BY <1>8 DEF vars
    <2> QED
      BY <2>1, ZoneKept DEF Complete, EarlyMaterial, LateMaterial, AddressKnown
  <1>9. lost' # {} => Complete'
    BY DEF Complete
  <1> QED
    BY <1>1, <1>2, <1>3, <1>4, <1>5, <1>6, <1>7, <1>8, <1>9 DEF Next, QueryStep

-----------------------------------------------------------------------------
(* The DNSSEC checks on complete material *)

\* What the queries can show is made of RRsets; beside the apex types that
\* exist it holds none of them.
LEMMA VisibleSets ==
    ASSUME SceneInv
    PROVE  /\ Visible \subseteq RRsets /\ Visible \X Queries \subseteq Copies
           /\ Visible \cap {"A", "AAAA", "CAA"} = scene.types
           /\ "NSEC" \in Visible <=> scene.denial.kind # "none"
           /\ "DNSKEY" \in Visible <=> scene.keys # {}
  <1>1. scene.types \subseteq {"A", "AAAA", "CAA"}
    BY DEF SceneInv
  <1>2. Negative \subseteq {"SOA", "NSEC"} /\ ("NSEC" \in Negative <=> scene.denial.kind # "none")
    BY DEF Negative
  <1>3. Visible \subseteq RRsets
    BY <1>1, <1>2 DEF Visible, RRsets
  <1>4. Visible \cap {"A", "AAAA", "CAA"} = scene.types
    BY <1>1, <1>2 DEF Visible
  <1>5. /\ "NSEC" \in Visible <=> scene.denial.kind # "none"
        /\ "DNSKEY" \in Visible <=> scene.keys # {}
    BY <1>1, <1>2 DEF Visible
  <1> QED
    BY <1>3, <1>4, <1>5 DEF Copies

\* The answer to the DS query is not of the zone.
LEMMA DSApart ==
    ASSUME SceneInv
    PROVE  /\ DSAnswer \cap Copies = {}
           /\ Has(DSAnswer, "DS") <=> scene.ds # "none"
           /\ Has(DSAnswer, "PNSEC") <=> scene.ds = "none" /\ scene.parentDenial.kind # "none"
           /\ \A x \in RRsets : ~Has(DSAnswer, x)
  <1>1. \A c \in DSAnswer : c[1] \in {"DS", "PNSEC"}
    BY DEF DSAnswer, Of
  <1>2. "DS" \notin RRsets /\ "PNSEC" \notin RRsets
    BY DEF RRsets
  <1>3. DSAnswer \cap Copies = {}
    BY <1>1, <1>2 DEF Copies
  <1>4. \A x \in RRsets : ~Has(DSAnswer, x)
    BY <1>1, <1>2 DEF Has
  <1>5. CASE scene.ds # "none"
    <2>1. DSAnswer = {<<"DS", "ds">>}
      BY <1>5 DEF DSAnswer, Of
    <2> QED
      BY <1>3, <1>4, <1>5, <2>1 DEF Has
  <1>6. CASE scene.ds = "none" /\ scene.parentDenial.kind # "none"
    <2>1. DSAnswer = {<<"PNSEC", "ds">>}
      BY <1>6 DEF DSAnswer, Of
    <2> QED
      BY <1>3, <1>4, <1>6, <2>1 DEF Has
  <1>7. CASE scene.ds = "none" /\ scene.parentDenial.kind = "none"
    <2>1. DSAnswer = {}
      BY <1>7 DEF DSAnswer, Of
    <2> QED
      BY <1>3, <1>4, <1>7, <2>1 DEF Has
  <1> QED
    BY <1>5, <1>6, <1>7

\* With no query lost, there is a merged copy of everything that can be seen,
\* and nothing else but the answer to the DS query.
LEMMA MergedAll ==
    ASSUME IInv, WithinZone, lost = {}, Complete, pc = "dnssec"
    PROVE  /\ \A x \in Visible : \E c \in Combined(material) \cap Copies : c[1] = x
           /\ Combined(material) \subseteq (Visible \X Queries) \cup DSAnswer
           /\ Seen(material) \subseteq Visible \X Queries
           /\ DSAnswer \subseteq material.rest
           /\ scene.keys # {} => KeyCopy \in material.rest
  <1>0. SceneInv /\ EarlyMaterial /\ LateMaterial /\ MaterialInv
    BY DEF IInv, Complete
  <1>1. /\ KeyAnswer \subseteq material.rest /\ DSAnswer \subseteq material.rest
        /\ RandomAnswer \subseteq material.rest
        /\ NSAnswer \subseteq material.initial
        /\ \A t \in ApexSet : TypeAnswer(t) \subseteq material.rest
        /\ \A h \in Hosts : AddressKnown(h)
    BY <1>0 DEF EarlyMaterial, LateMaterial, ToKey, ToDS
  <1>2. scene.keys # {} => KeyCopy \in material.rest
    BY <1>0, <1>1, AnswersOK
  <1>3. Visible \X Queries \subseteq Copies /\ DSAnswer \cap Copies = {}
    BY <1>0, VisibleSets, DSApart
  <1>4. Combined(material) \subseteq (Visible \X Queries) \cup DSAnswer
    BY <1>0, AnswersVisible DEF WithinZone, Combined
  <1>5. Seen(material) \subseteq Visible \X Queries
    BY <1>0, <1>3, <1>4, AnswersVisible DEF WithinZone, Combined, Seen
  <1> DEFINE Merged(x) == \E c \in Combined(material) : c[1] = x
  <1>6. \A S, q, x : x \in S => <<x, q>> \in Of(S, q) /\ <<x, q>>[1] = x
    BY DEF Of
  <1>7. \A S, q, x : Of(S, q) \subseteq Combined(material) /\ x \in S => Merged(x)
    BY <1>6
  <1> HIDE DEF Merged
  <1>8. scene.ns # <<>> => Merged("NS")
    <2>1. scene.ns # <<>> => Of({"NS"}, "ns") \subseteq Combined(material)
      BY <1>1 DEF NSAnswer, Combined
    <2> QED
      BY <1>7, <2>1
  <1>9. \A x \in scene.types : Merged(x)
    <2>1. \A x \in scene.types : x \in ApexSet /\ Of({x}, "apex") \subseteq Combined(material)
      BY <1>0, <1>1 DEF SceneInv, ApexSet, TypeAnswer, Combined
    <2> QED
      BY <1>7, <2>1
  <1>10. \A x \in Negative : Merged(x)
    <2>1. TypeAnswer("MX") = Of(Negative, "apex")
      BY <1>0 DEF SceneInv, TypeAnswer
    <2>2. Of(Negative, "apex") \subseteq Combined(material)
      BY <1>1, <2>1 DEF ApexSet, Combined
    <2> QED
      BY <1>7, <2>2
  <1>11. scene.keys # {} => Merged("DNSKEY")
    BY <1>2 DEF KeyCopy, Merged, Combined
  <1>12. scene.wild => Merged("WILD")
    <2>1. scene.wild => /\ Of({"WILD"} \cup (Negative \ {"SOA"}), "random") \subseteq Combined(material)
                        /\ "WILD" \in {"WILD"} \cup (Negative \ {"SOA"})
      BY <1>1 DEF RandomAnswer, Combined
    <2> QED
      BY <1>7, <2>1
  <1>13. ASSUME NEW h \in Hosts \cap scene.inZone, h # "apex", scene.hostAddrs[h] # {}
         PROVE  Merged("HOST")
    <2>1. HostAnswer(h, "A") \subseteq Combined(material)
      BY <1>1 DEF AddressKnown, Combined
    <2>2. HostAnswer(h, "A") = Of({"HOST"}, "host")
      BY <1>13 DEF HostAnswer
    <2> QED
      BY <1>7, <2>1, <2>2
  <1>14. \A x \in Visible : Merged(x)
    BY <1>8, <1>9, <1>10, <1>11, <1>12, <1>13 DEF Visible
  <1>15. ASSUME NEW x \in Visible PROVE \E c \in Combined(material) \cap Copies : c[1] = x
    <2>1. PICK c \in Combined(material) : c[1] = x
      BY <1>14 DEF Merged
    <2>2. x \in RRsets
      BY <1>0, VisibleSets
    <2>3. c \notin DSAnswer
      BY <1>0, <2>1, <2>2, DSApart DEF Has
    <2> QED
      BY <1>3, <1>4, <2>1, <2>3
  <1> QED
    BY <1>1, <1>2, <1>4, <1>5, <1>15

\* If every response carries the same signatures, all signatures of the zone
\* have been merged, and they are those on the RRsets that were seen.
LEMMA AllSigs ==
    ASSUME IInv, WithinZone, lost = {}, Complete, pc = "dnssec", PlainlySigned
    PROVE  /\ Sigs(scene, Combined(material)) = ZoneSigs
           /\ \A s : s \in ZoneSigs <=> \E c \in Seen(material) : s \in SigsOf(scene, c)
  <1>0. SceneInv
    BY DEF IInv
  <1>1. /\ \A x \in Visible : \E c \in Combined(material) \cap Copies : c[1] = x
        /\ Combined(material) \subseteq (Visible \X Queries) \cup DSAnswer
        /\ Seen(material) \subseteq Visible \X Queries
    BY MergedAll
  <1>2. Visible \X Queries \subseteq Copies /\ DSAnswer \cap Copies = {}
    BY <1>0, VisibleSets, DSApart
  <1>3. Combined(material) \cap Copies \subseteq Visible \X Queries
    BY <1>1, <1>2
  <1>4. \A C, s : s \in Sigs(scene, C) <=> \E c \in C \cap Copies : s \in SigsOf(scene, c)
    BY DEF Sigs
  <1>5. \A s : s \in ZoneSigs <=> \E c \in Visible \X Queries : s \in SigsOf(scene, c)
    BY <1>2, <1>4 DEF ZoneSigs
  <1>6. ASSUME NEW d \in Visible \X Queries
        PROVE  \E c \in Combined(material) \cap Copies : SigsOf(scene, c) = SigsOf(scene, d)
    <2>1. d[1] \in Visible
      OBVIOUS
    <2>2. PICK c \in Combined(material) \cap Copies : c[1] = d[1]
      BY <1>1, <2>1
    <2> QED
      BY <1>2, <2>2 DEF PlainlySigned, Uniform
  <1>7. \A s : s \in ZoneSigs <=> s \in Sigs(scene, Combined(material))
    BY <1>3, <1>4, <1>5, <1>6
  <1>8. Combined(material) \cap Copies \subseteq Seen(material)
    BY DEF Seen, Combined
  <1> QED
    BY <1>1, <1>5, <1>6, <1>7, <1>8

\* Every signature of a plainly signed zone that has keys is tried, and it is
\* found good if it is sound.
LEMMA AllJudged ==
    ASSUME IInv, WithinZone, lost = {}, Complete, pc = "dnssec", PlainlySigned,
           NEW c \in Seen(material)
    PROVE  /\ scene.keys = {} => Tried(scene, material, c) = {}
           /\ scene.keys # {} => Tried(scene, material, c) = SigsOf(scene, c)
           /\ scene.keys # {} => \A s \in SigsOf(scene, c) : Verify(s) <=> s.sound
  <1>0. SceneInv
    BY DEF IInv
  <1>1. Seen(material) \subseteq Visible \X Queries /\ Visible \X Queries \subseteq Copies
    BY <1>0, MergedAll, VisibleSets
  <1>2. ASSUME scene.keys = {} PROVE Tried(scene, material, c) = {}
    <2>1. "DNSKEY" \notin Visible
      BY <1>0, <1>2, VisibleSets
    <2>2. ~Has(Unit(material, c), "DNSKEY")
      BY <1>1, <2>1, UnitSeen DEF Has
    <2> QED
      BY <2>2, TriedMeans
  <1>3. ASSUME scene.keys # {}, NEW s \in SigsOf(scene, c)
        PROVE  s \in Checkable(c) /\ (Verify(s) <=> s.sound)
    <2>1. s \in ZoneSigs
      BY <1>3, AllSigs
    <2>2. s \in Sigs(scene, Copies)
      BY <1>1, <1>3 DEF Sigs
    <2>3. s.published /\ s.alg \in {"ed25519", "p256"}
      BY <1>0, <1>3, <2>1, <2>2 DEF PlainlySigned, Supported, SceneInv
    <2> QED
      BY <1>3, <2>3 DEF Checkable, ParseDNSKEY, Verify
  <1>4. ASSUME scene.keys # {} PROVE Tried(scene, material, c) = SigsOf(scene, c)
    <2>1. KeyCopy \in Unit(material, c) /\ KeyCopy[1] = "DNSKEY"
      BY <1>4, MergedAll, NamesDiffer DEF Unit, Seen, KeyCopy
    <2>2. Has(Unit(material, c), "DNSKEY")
      BY <2>1 DEF Has
    <2>3. \A d \in Unit(material, c) : d[1] = c[1] => SigsOf(scene, d) = SigsOf(scene, c)
      BY <1>1, UnitSeen DEF PlainlySigned, Uniform
    <2>4. \A s : s \in Tried(scene, material, c) => s \in SigsOf(scene, c)
      BY <2>3, TriedMeans DEF Checkable
    <2>5. \A s \in SigsOf(scene, c) : s \in Tried(scene, material, c)
      BY <1>3, <1>4, <2>2, UnitSeen, TriedMeans
    <2> QED
      BY <2>4, <2>5
  <1> QED
    BY <1>2, <1>3, <1>4

\* So the verification finds the unsound signatures, and only those.
LEMMA FailuresExact ==
    ASSUME IInv, WithinZone, lost = {}, Complete, pc = "dnssec", PlainlySigned
    PROVE  /\ SigFailures(scene, material) # {} <=>
                 scene.keys # {} /\ \E s \in ZoneSigs : ~s.sound
           /\ scene.keys # {} /\ ZoneSigs # {} /\ (\A s \in ZoneSigs : s.sound) =>
                 Verified(scene, material) # {}
           /\ Verified(scene, material) # {} => ZoneSigs # {}
  <1> DEFINE seen == Seen(material)
             all(c) == SigsOf(scene, c)
             sound(c) == all(c) # {} /\ \A s \in all(c) : s.sound
  <1>1. \A c \in seen : /\ scene.keys = {} => Tried(scene, material, c) = {}
                        /\ scene.keys # {} => Tried(scene, material, c) = all(c)
                        /\ scene.keys # {} => \A s \in all(c) : Verify(s) <=> s.sound
    BY AllJudged
  <1>2. \A c \in seen : Passes(scene, material, c) <=> scene.keys # {} /\ sound(c)
    BY <1>1 DEF Passes
  <1>3. \A c, d \in seen : c[1] = d[1] => all(c) = all(d)
    BY DEF Seen, PlainlySigned, Uniform
  <1>4. \A s : s \in ZoneSigs <=> \E c \in seen : s \in all(c)
    BY AllSigs
  <1>5. \A x : x \in Verified(scene, material) <=>
                 \E c \in seen : x = c[1] /\ Passes(scene, material, c)
    BY DEF Verified
  <1>6. \A x : x \in SigFailures(scene, material) <=>
                 /\ \E c \in seen : x = c[1] /\ Tried(scene, material, c) # {}
                 /\ x \notin Verified(scene, material)
    BY DEF SigFailures
  <1> HIDE DEF seen, all
  <1>7. ASSUME NEW x \in SigFailures(scene, material)
        PROVE  scene.keys # {} /\ \E s \in ZoneSigs : ~s.sound
    <2>1. PICK c \in seen : x = c[1] /\ Tried(scene, material, c) # {}
      BY <1>6, <1>7
    <2>2. scene.keys # {} /\ all(c) # {} /\ ~sound(c)
      BY <1>1, <1>2, <1>5, <1>6, <1>7, <2>1
    <2> QED
      BY <1>4, <2>2
  <1>8. ASSUME scene.keys # {}, NEW s \in ZoneSigs, ~s.sound
        PROVE  SigFailures(scene, material) # {}
    <2>1. PICK c \in seen : s \in all(c)
      BY <1>4
    <2>2. Tried(scene, material, c) # {}
      BY <1>1, <1>8, <2>1
    <2>3. \A d \in seen : d[1] = c[1] => ~Passes(scene, material, d)
      BY <1>2, <1>3, <1>8, <2>1
    <2>4. c[1] \in SigFailures(scene, material)
      BY <1>5, <1>6, <2>2, <2>3
    <2> QED
      BY <2>4
  <1>9. ASSUME scene.keys # {}, ZoneSigs # {}, \A s \in ZoneSigs : s.sound
        PROVE  Verified(scene, material) # {}
    <2>1. PICK c \in seen : all(c) # {}
      BY <1>4, <1>9
    <2>2. Passes(scene, material, c)
      BY <1>2, <1>4, <1>9, <2>1
    <2> QED
      BY <1>5, <2>2
  <1>10. Verified(scene, material) # {} => ZoneSigs # {}
    BY <1>2, <1>4, <1>5
  <1> QED
    BY <1>7, <1>8, <1>9, <1>10

\* The other facts about the zone that the checks look at are seen as they are.
LEMMA SeenAsIs ==
    ASSUME IInv, WithinZone, lost = {}, Complete, pc = "dnssec", PlainlySigned
    PROVE  /\ HasDNSKEY(scene, material) <=> scene.keys # {}
           /\ HasRRSIG(scene, material) <=> ZoneSigs # {}
           /\ HasDS(material) <=> scene.ds # "none"
           /\ Has(Combined(material), "NSEC") <=> scene.denial.kind # "none"
           /\ Has(Combined(material), "PNSEC") <=>
                 scene.ds = "none" /\ scene.parentDenial.kind # "none"
           /\ ValidateChain(scene, material) <=> Intact
  <1>0. SceneInv
    BY DEF IInv
  <1>1. /\ \A x \in Visible : \E c \in Combined(material) \cap Copies : c[1] = x
        /\ Combined(material) \subseteq (Visible \X Queries) \cup DSAnswer
        /\ DSAnswer \subseteq material.rest
    BY MergedAll
  <1>2. /\ Visible \subseteq RRsets /\ Visible \X Queries \subseteq Copies
        /\ "NSEC" \in Visible <=> scene.denial.kind # "none"
        /\ "DNSKEY" \in Visible <=> scene.keys # {}
    BY <1>0, VisibleSets
  <1>3. /\ Has(DSAnswer, "DS") <=> scene.ds # "none"
        /\ Has(DSAnswer, "PNSEC") <=> scene.ds = "none" /\ scene.parentDenial.kind # "none"
        /\ \A x \in RRsets : ~Has(DSAnswer, x)
    BY <1>0, DSApart
  <1>4. \A x \in RRsets : Has(Combined(material), x) <=> x \in Visible
    BY <1>1, <1>3 DEF Has
  <1>5. /\ {"NSEC", "DNSKEY"} \subseteq RRsets
        /\ "DS" \notin RRsets /\ "PNSEC" \notin RRsets
    BY DEF RRsets
  <1>6. \A x : x \notin RRsets => (Has(Combined(material), x) <=> Has(DSAnswer, x))
    BY <1>1, <1>2 DEF Has, Combined
  <1>7. scene.keys \subseteq {"ed25519", "p256"}
    BY DEF PlainlySigned, Supported
  <1>8. HasDNSKEY(scene, material) <=> scene.keys # {}
    BY <1>2, <1>4, <1>5, <1>7 DEF HasDNSKEY, ParseDNSKEY
  <1>9. HasDS(material) <=> scene.ds # "none"
    <2>1. HasDS(material) => Has(Combined(material), "DS")
      BY DEF HasDS, Has, Combined
    <2>2. Has(DSAnswer, "DS") => HasDS(material)
      BY <1>1 DEF HasDS, Has
    <2> QED
      BY <1>3, <1>5, <1>6, <2>1, <2>2
  <1>10. Sigs(scene, Combined(material)) = ZoneSigs
    BY AllSigs
  <1>11. \A s \in ZoneSigs : s.period \in {"current", "past", "future"}
    <2>1. ZoneSigs \subseteq Sigs(scene, Copies)
      BY <1>2 DEF ZoneSigs, Sigs
    <2> QED
      BY <1>0, <2>1 DEF SceneInv
  <1>12. DSMatches(scene, material) <=> scene.ds \in scene.keys
    BY <1>7, <1>8, <1>9 DEF DSMatches, ParseDNSKEY
  <1>13. ValidateChain(scene, material) <=> Intact
    BY <1>10, <1>11, <1>12 DEF ValidateChain, Intact, SignatureExpired, SignatureNotYetValid
  <1> QED
    BY <1>2, <1>3, <1>4, <1>5, <1>6, <1>8, <1>9, <1>10, <1>13 DEF HasRRSIG

\* So they say of it what it calls for.
LEMMA DnssecExact ==
    ASSUME IInv, WithinZone, lost = {}, Complete, pc = "dnssec", PlainlySigned
    PROVE  /\ DnssecFindings(scene, material) \cap DnssecIds = Reference
           /\ scene.ds # "none" \/ scene.parentDenial.kind = "none" =>
                 ("NoNSEC" \in DnssecFindings(scene, material) <=>
                     Expected /\ scene.denial.kind = "none")
  <1> DEFINE said    == DnssecFindings(scene, material)
             expired == \E s \in ZoneSigs : s.period = "past"
             early   == \E s \in ZoneSigs : s.period = "future"
             weak    == \E s \in ZoneSigs : s.alg = "rsasha1"
             bad     == \E s \in ZoneSigs : ~s.sound
             signed  == ZoneSigs # {}
             none    == scene.ds = "none"
             key     == scene.keys # {}
             intact  == Intact
  <1>1. /\ HasRRSIG(scene, material) <=> signed
        /\ HasDNSKEY(scene, material) <=> key
        /\ HasDS(material) <=> ~none
        /\ ValidateChain(scene, material) <=> intact
    BY SeenAsIs
  <1>2. /\ SigFailures(scene, material) # {} <=> key /\ bad
        /\ key /\ signed /\ ~bad => Verified(scene, material) # {}
        /\ Verified(scene, material) # {} => signed
    BY FailuresExact
  <1>3. Sigs(scene, Combined(material)) = ZoneSigs
    BY AllSigs
  <1>4. /\ expired \/ early \/ weak \/ bad => signed
        /\ intact => key /\ ~none
    BY DEF Intact, PlainlySigned, Supported
  <1>5. LooksSigned(scene, material) <=> Expected
    BY <1>1 DEF LooksSigned, Expected
  <1>6. Expected <=> key \/ signed \/ ~none
    BY DEF Expected
  <1>7. Reference =
             {f \in {"NoDNSKEY"} : signed /\ ~key} \cup {f \in {"NoRRSIG"} : key /\ ~signed}
        \cup {f \in {"SignExpired"} : expired} \cup {f \in {"SignNotYet"} : early}
        \cup {f \in {"DeprecatedAlgo"} : weak} \cup {f \in {"InvalidSig"} : key /\ bad}
        \cup {f \in {"NoDS"} : Expected /\ none} \cup {f \in {"BrokenChain"} : ~none /\ ~intact}
        \cup {f \in {"Valid"} : intact /\ signed /\ ~bad}
    BY DEF Reference
  <1>8. CheckZone(scene, material) =
             {f \in {"NoDNSKEY"} : signed /\ ~key} \cup {f \in {"NoRRSIG"} : key /\ ~signed}
        \cup {f \in {"SignExpired"} : expired} \cup {f \in {"SignNotYet"} : early}
        \cup {f \in {"DeprecatedAlgo"} : weak}
    BY <1>1, <1>3 DEF CheckZone, SignatureExpired, SignatureNotYetValid
  <1>9. Verdict(scene, material) =
           IF none THEN {"NoDS"} ELSE IF ~intact THEN {"BrokenChain"}
           ELSE IF Verified(scene, material) # {} /\ ~(key /\ bad) THEN {"Valid"} ELSE {}
    BY <1>1, <1>2 DEF Verdict
  <1>10. {f \in {"InvalidSig"} : SigFailures(scene, material) # {}} =
            {f \in {"InvalidSig"} : key /\ bad}
    BY <1>2
  <1>11. NsecCheck(scene, material) \subseteq {"NoNSEC", "MalformedNSEC3"}
    BY DEF NsecCheck
  <1>12. said = IF Expected
                  THEN CheckZone(scene, material) \cup {f \in {"InvalidSig"} : key /\ bad}
                         \cup Verdict(scene, material) \cup NsecCheck(scene, material)
                  ELSE {}
    BY <1>5, <1>10 DEF DnssecFindings
  <1>13. scene.ds # "none" \/ scene.parentDenial.kind = "none" =>
            ("NoNSEC" \in NsecCheck(scene, material) <=> scene.denial.kind = "none")
    BY SeenAsIs DEF NsecCheck
  <1> HIDE DEF none, key, bad, said, signed, expired, early, weak, intact
  <1>14. Verdict(scene, material) =
              {f \in {"NoDS"} : none} \cup {f \in {"BrokenChain"} : ~none /\ ~intact}
         \cup {f \in {"Valid"} : intact /\ signed /\ ~bad}
    BY <1>2, <1>4, <1>9
  <1>15. ~Expected => Reference = {}
    BY <1>4, <1>6, <1>7
  <1>16. /\ Reference \subseteq DnssecIds
         /\ "NoNSEC" \notin DnssecIds /\ "MalformedNSEC3" \notin DnssecIds
    BY <1>7 DEF DnssecIds
  <1>17. Expected => Reference = CheckZone(scene, material)
                       \cup {f \in {"InvalidSig"} : key /\ bad} \cup Verdict(scene, material)
    BY <1>7, <1>8, <1>14
  <1>18. said \cap DnssecIds = Reference
    BY <1>11, <1>12, <1>15, <1>16, <1>17
  <1>19. "NoNSEC" \in said <=> Expected /\ "NoNSEC" \in NsecCheck(scene, material)
    BY <1>12, <1>16, <1>17
  <1> QED
    BY <1>13, <1>18, <1>19 DEF said

-----------------------------------------------------------------------------
(* The checks on records on complete material *)

\* No range of IPv4 is classified as another, or as public, but for the
\* addresses that are misjudged.
LEMMA ClassifyV4Complete ==
    ASSUME NEW a \in [1..4 -> 0..255], NEW id \in AddrIds, Registered(a, id), ~Misjudged(a)
    PROVE  Classify(a) = id
  <1>1. To4(a) /\ Classify(a) = ClassifyV4(a)
    BY DEF To4, Classify
  <1>2. PICK b1 \in 0..255, b2 \in 0..255, b3 \in 0..255 : b1 = a[1] /\ b2 = a[2] /\ b3 = a[3]
    <2>1. a[1] \in 0..255 /\ a[2] \in 0..255 /\ a[3] \in 0..255
      OBVIOUS
    <2> QED
      BY <2>1, Zenon
  <1> DEFINE p == Prefix(b1, b2, b3)
  <1>3. InRangeV4(p, id)
    BY <1>1, <1>2 DEF Registered
  <1>4. b1 = 192 => b2 = 168
    BY <1>1, <1>2 DEF Misjudged
  <1>5. /\ Between(p, Prefix(127, 0, 0), Prefix(127, 255, 255)) => b1 = 127
        /\ Between(p, Prefix(10, 0, 0), Prefix(10, 255, 255)) => b1 = 10
        /\ Between(p, Prefix(172, 16, 0), Prefix(172, 31, 255)) =>
              b1 = 172 /\ b2 >= 16 /\ b2 <= 31
        /\ Between(p, Prefix(192, 168, 0), Prefix(192, 168, 255)) => b1 = 192
        /\ Between(p, Prefix(169, 254, 0), Prefix(169, 254, 255)) => b1 = 169 /\ b2 = 254
        /\ p # Prefix(192, 0, 2) /\ p # Prefix(192, 0, 0)
        /\ p = Prefix(198, 51, 100) => b1 = 198 /\ b2 = 51 /\ b3 = 100
        /\ p = Prefix(203, 0, 113) => b1 = 203 /\ b2 = 0 /\ b3 = 113
        /\ Between(p, Prefix(224, 0, 0), Prefix(255, 255, 255)) => b1 >= 224
    BY <1>4 DEF Between, Prefix
  <1> HIDE DEF p
  <1> DEFINE In(low, high) == Between(p, low, high)
  <1>6. /\ id = "AddrLoopback" => In(Prefix(127, 0, 0), Prefix(127, 255, 255))
        /\ id = "AddrPrivate" => \/ In(Prefix(10, 0, 0), Prefix(10, 255, 255))
                                 \/ In(Prefix(172, 16, 0), Prefix(172, 31, 255))
                                 \/ In(Prefix(192, 168, 0), Prefix(192, 168, 255))
        /\ id = "AddrLocal" => In(Prefix(169, 254, 0), Prefix(169, 254, 255))
        /\ id = "AddrDocumentation" =>
              p \in {Prefix(192, 0, 2), Prefix(198, 51, 100), Prefix(203, 0, 113)}
        /\ id = "AddrReserved" =>
              p = Prefix(192, 0, 0) \/ In(Prefix(224, 0, 0), Prefix(255, 255, 255))
    BY <1>3 DEF InRangeV4
  <1>7. /\ id = "AddrLoopback" => b1 = 127
        /\ id = "AddrPrivate" => b1 = 10 \/ (b1 = 172 /\ b2 >= 16 /\ b2 <= 31) \/ b1 = 192
        /\ id = "AddrLocal" => b1 = 169 /\ b2 = 254
        /\ id = "AddrDocumentation" => \/ b1 = 198 /\ b2 = 51 /\ b3 = 100
                                       \/ b1 = 203 /\ b2 = 0 /\ b3 = 113
        /\ id = "AddrReserved" => b1 >= 224
    BY <1>5, <1>6
  <1>8. b1 # 192 => ClassifyV4(a) =
           IF b1 = 127 THEN "AddrLoopback"
           ELSE IF b1 = 10 \/ (b1 = 172 /\ b2 >= 16 /\ b2 <= 31) THEN "AddrPrivate"
           ELSE IF b1 = 169 /\ b2 = 254 THEN "AddrLocal"
           ELSE IF \/ b1 = 198 /\ b2 = 51 /\ b3 = 100
                   \/ b1 = 203 /\ b2 = 0 /\ b3 = 113 THEN "AddrDocumentation"
           ELSE IF b1 >= 224 THEN "AddrReserved"
           ELSE "public"
    BY <1>2 DEF ClassifyV4, IsPrivateV4, IsDocV4
  <1>9. ASSUME b1 = 192 PROVE ClassifyV4(a) = "AddrPrivate"
    <2>1. a[1] = 192
      BY <1>2, <1>9
    <2> QED
      BY <2>1, BytesV4
  <1>10. ClassifyV4(a) = id
    <2>1. CASE b1 # 192
      BY <1>7, <1>8, <2>1 DEF AddrIds
    <2>2. CASE b1 = 192
      <3>1. id = "AddrPrivate"
        BY <1>7, <2>2 DEF AddrIds
      <3> QED
        BY <1>9, <2>2, <3>1
    <2> QED
      BY <2>1, <2>2
  <1> QED
    BY <1>1, <1>10

\* The prefixes of IPv6 as quotients.
LEMMA RangeV6 ==
    ASSUME NEW h \in Int
    PROVE  /\ Between(h, 64512, 65023) => h \div 512 = 126
           /\ Between(h, 65152, 65215) => h \div 64 = 1018 /\ h \div 512 # 126
           /\ h = 0 => h \div 512 # 126 /\ h \div 64 # 1018
  BY DEF Between

\* No range of IPv6 is classified as another, or as public.
LEMMA ClassifyV6Complete ==
    ASSUME NEW hi \in Nat, NEW low \in Nat, NEW id \in AddrIds, Registered(<<hi, low>>, id)
    PROVE  Classify(<<hi, low>>) = id
  <1> DEFINE a == <<hi, low>>
             p == hi \div 512 = 126
             q == hi \div 64 = 1018
  <1>1. a[1] = hi /\ a[2] = low /\ a = IPv6(hi, low)
    BY DEF IPv6
  <1>2. ~To4(a)
    <2>1. DOMAIN a = 1..2 /\ 3 \in 1..4 /\ 3 \notin 1..2
      OBVIOUS
    <2> HIDE DEF a
    <2> QED
      BY <2>1 DEF To4
  <1>3. /\ Between(hi, 64512, 65023) => p
        /\ Between(hi, 65152, 65215) => q /\ ~p
        /\ hi = 0 => ~p /\ ~q
    BY RangeV6
  <1>4. /\ Between(hi, 64512, 65023) => hi # 0
        /\ Between(hi, 65152, 65215) => hi # 0
    BY DEF Between
  <1>5. Classify(a) =
           IF hi = 0 /\ low = 1 THEN "AddrLoopback"
           ELSE IF p THEN "AddrPrivate"
           ELSE IF q THEN "AddrLocal"
           ELSE IF hi = 0 /\ low = 0 THEN "AddrReserved"
           ELSE "public"
    <2> HIDE DEF a
    <2> QED
      BY <1>1, <1>2 DEF Classify, ClassifyV6
  <1>6. /\ a = IPv6(0, 1) => hi = 0 /\ low = 1
        /\ a = IPv6(0, 0) => hi = 0 /\ low = 0
    BY DEF IPv6
  <1>7. Registered(a, id)
    OBVIOUS
  <1> HIDE DEF a, p, q
  <1>8. /\ id = "AddrLoopback" => hi = 0 /\ low = 1
        /\ id = "AddrPrivate" => Between(hi, 64512, 65023)
        /\ id = "AddrLocal" => Between(hi, 65152, 65215)
        /\ id = "AddrReserved" => hi = 0 /\ low = 0
        /\ id # "AddrDocumentation"
    BY <1>1, <1>2, <1>6, <1>7 DEF Registered
  <1>9. Classify(a) = id
    BY <1>3, <1>4, <1>5, <1>8 DEF AddrIds
  <1> QED
    BY <1>9 DEF a

\* addrs.Classify tells the ranges apart: an address lies in the range that
\* it names and in no other, unless it is misjudged.
LEMMA ClassifyExact ==
    ASSUME NEW a, IsAddress(a), ~Misjudged(a), NEW id \in AddrIds
    PROVE  Registered(a, id) <=> Classify(a) = id
  <1>1. Classify(a) = id => Registered(a, id)
    <2>1. id # "public"
      BY DEF AddrIds
    <2> QED
      BY <2>1, ClassifyRegistered
  <1>2. ASSUME Registered(a, id) PROVE Classify(a) = id
    <2>1. CASE a \in [1..4 -> 0..255]
      BY <1>2, <2>1, ClassifyV4Complete
    <2>2. CASE a \in [1..2 -> Nat]
      <3>1. a = <<a[1], a[2]>> /\ a[1] \in Nat /\ a[2] \in Nat
        BY <2>2
      <3> QED
        BY <1>2, <3>1, ClassifyV6Complete
    <2> QED
      BY <2>1, <2>2 DEF IsAddress
  <1> QED
    BY <1>1, <1>2

\* The smallest of at most two TTLs stands for both of them.
LEMMA SmallestTTL ==
    ASSUME NEW C, NEW u \in Nat, NEW v \in Nat, C \subseteq {u, v},
           NEW min \in Nat, NEW extreme \in Nat, min <= extreme
    PROVE  LET least == {t \in C : \A w \in C : t <= w} IN
           /\ (\E t \in least : t # 0 /\ t > extreme) <=>
                 C # {} /\ 0 \notin C /\ \A t \in C : t > extreme
           /\ (\E t \in least : t # 0 /\ t <= extreme /\ t < min) <=>
                 C # {} /\ 0 \notin C /\ \E t \in C : t < min
  <1>1. CASE C = {}
    BY <1>1
  <1>2. CASE C = {u}
    BY <1>2
  <1>3. CASE C = {v}
    BY <1>3
  <1>4. CASE C = {u, v} /\ u <= v
    BY <1>4
  <1>5. CASE C = {u, v} /\ v <= u
    BY <1>5
  <1>6. C = {} \/ C = {u} \/ C = {v} \/ C = {u, v}
    OBVIOUS
  <1>7. u <= v \/ v <= u
    OBVIOUS
  <1> QED
    BY <1>1, <1>2, <1>3, <1>4, <1>5, <1>6, <1>7

\* The limits of every profile are in order.
LEMMA LimitsOK ==
    ASSUME NEW profile
    PROVE  /\ Limits(profile).min \in Nat /\ Limits(profile).extreme \in Nat
           /\ Limits(profile).min <= Limits(profile).extreme
  <1> DEFINE l == Limits(profile)
  <1>1. \/ l = [min |-> 300, extreme |-> 86400]
        \/ l = [min |-> 10, extreme |-> 604800]
        \/ l = [min |-> 60, extreme |-> 604800]
    BY DEF Limits
  <1> HIDE DEF l
  <1>2. l.min \in Nat /\ l.extreme \in Nat /\ l.min <= l.extreme
    BY <1>1
  <1> QED
    BY <1>2 DEF l

\* With no query lost, the material of the checks on records is that of the
\* zone.
LEMMA GatheredAll ==
    ASSUME IInv, WithinZone, lost = {}, Complete, pc = "records"
    PROVE  /\ material.initial = NSAnswer \cup ANYAnswer
           /\ material.hosts = Hosts \ {"apex"}
           /\ \A x \in {"A", "AAAA"} : Has(Combined(material), x) <=> x \in scene.types
  <1>0. SceneInv /\ EarlyMaterial
    BY DEF IInv, Complete
  <1>1. material.initial = NSAnswer \cup ANYAnswer /\ material.hosts = Hosts \ {"apex"}
    BY <1>0 DEF WithinZone, EarlyMaterial, AddressKnown
  <1>2. ASSUME NEW x \in {"A", "AAAA"}, x \in scene.types PROVE Has(Combined(material), x)
    <2>1. Of({x}, "apex") \subseteq material.rest
      BY <1>0, <1>2 DEF EarlyMaterial, ApexSet, TypeAnswer
    <2>2. <<x, "apex">> \in material.rest /\ <<x, "apex">>[1] = x
      BY <2>1 DEF Of
    <2> QED
      BY <2>2 DEF Has, Combined
  <1>3. ASSUME NEW x \in {"A", "AAAA"}, Has(Combined(material), x) PROVE x \in scene.types
    <2>1. PICK c \in Combined(material) : c[1] = x
      BY <1>3 DEF Has
    <2>2. c \in (Visible \X Queries) \cup DSAnswer
      BY <1>0, AnswersVisible DEF WithinZone, Combined
    <2>3. x \in RRsets
      BY DEF RRsets
    <2>4. c \notin DSAnswer
      BY <1>0, <2>1, <2>3, DSApart DEF Has
    <2>5. x \in Visible
      BY <2>1, <2>2, <2>4
    <2> QED
      BY <1>0, <2>5, VisibleSets
  <1> QED
    BY <1>1, <1>2, <1>3

\* The TTL check says of the smallest TTLs what the reference says of all.
LEMMA TtlExact ==
    ASSUME SceneInv, NEW m, m.initial = NSAnswer \cup ANYAnswer
    PROVE  Watched(TtlCheck(scene, m)) = Watched(TTLReference)
  <1> DEFINE min     == Limits(scene.profile).min
             extreme == Limits(scene.profile).extreme
             ttls(x) == {scene.ttl[c] : c \in {d \in NSAnswer \cup ANYAnswer : d[1] = x}}
             extremeAt(x) == \E t \in Least(scene, m, x) : t # 0 /\ t > extreme
             shortAt(x)   == \E t \in Least(scene, m, x) : t # 0 /\ t <= extreme /\ t < min
             long(x)  == ttls(x) # {} /\ \A t \in ttls(x) : t > extreme
             short(x) == \E t \in ttls(x) : t < min
  <1>1. min \in Nat /\ extreme \in Nat /\ min <= extreme
    BY LimitsOK
  <1>2. \A x \in TTLTypes : scene.ttl[<<x, "ns">>] \in Nat /\ scene.ttl[<<x, "any">>] \in Nat
    BY DEF SceneInv, RecordsOK, TtlsOK
  <1>3. ASSUME NEW x PROVE ttls(x) \subseteq {scene.ttl[<<x, "ns">>], scene.ttl[<<x, "any">>]}
    <2>1. \A c \in NSAnswer \cup ANYAnswer : c[1] = x => c = <<x, "ns">> \/ c = <<x, "any">>
      BY DEF NSAnswer, ANYAnswer, Of
    <2> QED
      BY <2>1
  <1>4. \A x : Least(scene, m, x) = {t \in ttls(x) : \A u \in ttls(x) : t <= u}
    BY DEF Least, Collected
  <1>5. ASSUME NEW x \in TTLTypes, ~ZeroTTL(scene, x)
        PROVE  (extremeAt(x) <=> long(x)) /\ (shortAt(x) <=> short(x))
    <2>1. 0 \notin ttls(x)
      BY <1>3, <1>5 DEF ZeroTTL
    <2>2. /\ ttls(x) \subseteq {scene.ttl[<<x, "ns">>], scene.ttl[<<x, "any">>]}
          /\ scene.ttl[<<x, "ns">>] \in Nat /\ scene.ttl[<<x, "any">>] \in Nat
      BY <1>2, <1>3
    <2>3. Least(scene, m, x) = {t \in ttls(x) : \A u \in ttls(x) : t <= u}
      BY <1>4
    <2> HIDE DEF min, extreme, ttls
    <2>4. /\ extremeAt(x) <=> ttls(x) # {} /\ 0 \notin ttls(x) /\ \A t \in ttls(x) : t > extreme
          /\ shortAt(x) <=> ttls(x) # {} /\ 0 \notin ttls(x) /\ \E t \in ttls(x) : t < min
      BY <1>1, <2>2, <2>3, SmallestTTL
    <2> QED
      BY <2>1, <2>4
  <1>6. TtlCheck(scene, m) = {F("TTLExtreme", x) : x \in {y \in TTLTypes : extremeAt(y)}}
                               \cup {F("TTLShort", x) : x \in {y \in TTLTypes : shortAt(y)}}
    BY DEF TtlCheck
  <1>7. TTLReference = {F("TTLShort", x) : x \in {y \in TTLTypes : short(y)}}
                         \cup {F("TTLExtreme", x) : x \in {y \in TTLTypes : long(y)}}
    BY DEF TTLReference
  <1>8. \A id, x : F(id, x).id = id /\ F(id, x).subject = x
    BY DEF F
  <1> HIDE DEF min, extreme, ttls, extremeAt, shortAt, long, short
  <1>9. \A f : f \in TtlCheck(scene, m) <=>
                 \E x \in TTLTypes : \/ f = F("TTLExtreme", x) /\ extremeAt(x)
                                     \/ f = F("TTLShort", x) /\ shortAt(x)
    BY <1>6
  <1>10. \A f : f \in TTLReference <=>
                  \E x \in TTLTypes : \/ f = F("TTLExtreme", x) /\ long(x)
                                      \/ f = F("TTLShort", x) /\ short(x)
    BY <1>7
  <1>11. {"TTLExtreme", "TTLShort"} \subseteq TTLIds
    BY DEF TTLIds
  <1>12. \A f \in Watched(TtlCheck(scene, m)) : f \in Watched(TTLReference)
    BY <1>5, <1>8, <1>9, <1>10, <1>11 DEF Watched
  <1>13. \A f \in Watched(TTLReference) : f \in Watched(TtlCheck(scene, m))
    BY <1>5, <1>8, <1>9, <1>10, <1>11 DEF Watched
  <1> QED
    BY <1>12, <1>13 DEF Watched

\* The address check says of every address what the registries say, unless
\* it is misjudged.
LEMMA AddrExact ==
    ASSUME SceneInv, NEW m, m.hosts = Hosts \ {"apex"},
           \A x \in {"A", "AAAA"} : Has(Combined(m), x) <=> x \in scene.types
    PROVE  Watched(AddrCheck(scene, m)) = Watched(AddressReference)
  <1> DEFINE atApex  == UNION {scene.addrs[x] : x \in scene.types \cap {"A", "AAAA"}}
             atHosts == UNION {scene.hostAddrs[h] : h \in Hosts \ {"apex"}}
             all     == atApex \cup atHosts
  <1>1. Gathered(scene, m) = all
    <2>1. {y \in {"A", "AAAA"} : Has(Combined(m), y)} = scene.types \cap {"A", "AAAA"}
      OBVIOUS
    <2> QED
      BY <2>1 DEF Gathered
  <1>2. \A a \in all : IsAddress(a)
    <2>1. AddressesOK(scene) /\ DOMAIN scene.hostAddrs = Hosts
      BY DEF SceneInv, RecordsOK
    <2>2. atApex \subseteq ZoneAddresses(scene)
      BY DEF ZoneAddresses
    <2>3. atHosts \subseteq ZoneAddresses(scene)
      BY <2>1 DEF ZoneAddresses
    <2> QED
      BY <2>1, <2>2, <2>3 DEF AddressesOK
  <1>3. AddressReference = {f \in {AddrFinding(id, a) : id \in AddrIds, a \in all} :
                               Registered(f.ip, f.id)}
    BY DEF AddressReference
  <1> HIDE DEF all
  <1>4. \A a \in all : Classify(a) # "public" => Classify(a) \in AddrIds
    BY CategoriesAreIds
  <1>5. \A a \in all : ~Misjudged(a) =>
           \A id \in AddrIds : Registered(a, id) <=> Classify(a) = id
    BY <1>2, ClassifyExact
  <1>6. "public" \notin AddrIds /\ AddrIds \cap TTLIds = {}
    BY DEF AddrIds, TTLIds
  <1>7. \A id, a : AddrFinding(id, a).id = id /\ AddrFinding(id, a).ip = a
    BY DEF AddrFinding
  <1>8. ASSUME NEW f \in Watched(AddrCheck(scene, m)) PROVE f \in AddressReference
    <2>1. PICK a \in all : Classify(a) # "public" /\ f = AddrFinding(Classify(a), a)
      BY <1>1 DEF AddrCheck, Watched
    <2>2. f.id = Classify(a) /\ f.ip = a /\ Classify(a) \in AddrIds
      BY <1>4, <1>7, <2>1
    <2>3. ~Misjudged(a)
      BY <1>6, <2>2 DEF Watched, Judged
    <2>4. Registered(f.ip, f.id)
      BY <1>5, <2>2, <2>3
    <2> QED
      BY <1>3, <2>1, <2>2, <2>4
  <1>9. ASSUME NEW f \in Watched(AddressReference) PROVE f \in AddrCheck(scene, m)
    <2>1. f \in AddressReference /\ Judged(f)
      BY DEF Watched
    <2>2. PICK id \in AddrIds, a \in all : f = AddrFinding(id, a) /\ Registered(f.ip, f.id)
      BY <1>3, <2>1
    <2>3. f.id = id /\ f.ip = a
      BY <1>7, <2>2
    <2>4. ~Misjudged(a)
      BY <1>6, <2>1, <2>3 DEF Judged
    <2>5. Classify(a) = id
      BY <1>5, <2>2, <2>3, <2>4
    <2> QED
      BY <1>1, <1>6, <2>2, <2>5 DEF AddrCheck
  <1> QED
    BY <1>8, <1>9 DEF Watched

\* So the checks on records say of the zone what it calls for.
LEMMA RecordsExactly ==
    ASSUME IInv, WithinZone, lost = {}, Complete, pc = "records"
    PROVE  Watched(RecordFindings(scene, material)) = Watched(AddressReference \cup TTLReference)
  <1>0. SceneInv
    BY DEF IInv
  <1>1. /\ material.initial = NSAnswer \cup ANYAnswer
        /\ material.hosts = Hosts \ {"apex"}
        /\ \A x \in {"A", "AAAA"} : Has(Combined(material), x) <=> x \in scene.types
    BY GatheredAll
  <1>2. Watched(AddrCheck(scene, material)) = Watched(AddressReference)
    BY <1>0, <1>1, AddrExact
  <1>3. Watched(TtlCheck(scene, material)) = Watched(TTLReference)
    BY <1>0, <1>1, TtlExact
  <1>4. \A f \in SoaCheck(scene.soa, scene.today) : f.id \in SoaIds
    BY DEF SoaCheck, When, F, SoaIds
  <1>5. \A f \in CaaCheck(scene.caa) : f.id \in CaaIds
    BY DEF CaaCheck, When, F, CaaIds
  <1>6. \A f : f.id \in SoaIds \cup CaaIds => ~Judged(f)
    BY DEF Judged, SoaIds, CaaIds, TTLIds, AddrIds
  <1>7. Watched(RecordFindings(scene, material)) =
           Watched(TtlCheck(scene, material)) \cup Watched(AddrCheck(scene, material))
    BY <1>4, <1>5, <1>6 DEF RecordFindings, Watched
  <1>8. Watched(AddressReference \cup TTLReference) =
           Watched(AddressReference) \cup Watched(TTLReference)
    BY DEF Watched
  <1> QED
    BY <1>2, <1>3, <1>7, <1>8

-----------------------------------------------------------------------------
(* The findings *)

\* The findings that none of the invariants here is about.
Unwatched == Plainly \ (AxfrIds \cup {"GeneralError"})

\* Unless its first query is lost, a run keeps its findings, and each group
\* of findings is made by one step.
LEMMA NewFindings ==
    ASSUME IInv, [Next]_vars, pc = "ns" => pc' # "done"
    PROVE  /\ found \subseteq found'
           /\ \A f \in found' \ found :
                 \/ f.id \in Unwatched
                 \/ CheckRecords /\ f.id \in RecordIds
                 \/ CheckDNSSEC /\ f.id \in Guarded
                 \/ pc = "axfr" /\ f.id \in AxfrIds
  <1> USE DEF Goto
  <1>1. ASSUME NEW ok \in BOOLEAN,
               \/ QueryNS(ok) \/ QueryANY(ok) \/ QueryApex(ok) \/ QueryAddress(ok)
               \/ QueryDNSKEY(ok) \/ QueryDS(ok) \/ QueryRandom(ok)
        PROVE  found' = found
    BY <1>1 DEF QueryNS, QueryANY, QueryApex, QueryAddress, QueryDNSKEY, QueryDS, QueryRandom
  <1>2. ASSUME NEW ok \in BOOLEAN, QueryChild(ok)
        PROVE  found \subseteq found' /\ \A f \in found' \ found : f.id \in Unwatched
    <2>1. \A f \in Compare : f.id \in Unwatched
      BY DEF Compare, F, Unwatched, Plainly, AxfrIds
    <2> QED
      BY <1>2, <2>1 DEF QueryChild
  <1>3. ASSUME NEW ok \in BOOLEAN, Probe(ok)
        PROVE  found \subseteq found' /\ \A f \in found' \ found : f.id \in Unwatched
    <2>1. \A h : \A f \in CheckServer(h, ProbeResponse) : f.id \in Unwatched
      BY DEF CheckServer, F, Unwatched, Plainly, AxfrIds
    <2> QED
      BY <1>3, <2>1 DEF Probe
  <1>4. ASSUME CheckRecords
        PROVE  found \subseteq found' /\ \A f \in found' \ found : f.id \in RecordIds
    BY <1>4, RecordEvidence DEF CheckRecords
  <1>5. ASSUME CheckDNSSEC
        PROVE  found \subseteq found' /\ \A f \in found' \ found : f.id \in Guarded
    <2>1. DnssecFindings(scene, material) \subseteq Guarded
      BY DnssecEvidence
    <2> QED
      BY <1>5, <2>1 DEF CheckDNSSEC, F
  <1>6. ASSUME NEW ok \in BOOLEAN, Transfer(ok)
        PROVE  /\ pc = "axfr" /\ found \subseteq found'
               /\ \A f \in found' \ found : f.id \in AxfrIds
    BY <1>6 DEF Transfer, F, ParseTransferResult, MakeTransferResp, AxfrIds
  <1>7. ASSUME NEW ok \in BOOLEAN, QueryWildcard(ok) \/ QueryRecursion(ok)
        PROVE  found \subseteq found' /\ \A f \in found' \ found : f.id \in Unwatched
    BY <1>7 DEF QueryWildcard, QueryRecursion, F, Unwatched, Plainly, AxfrIds
  <1>8. Report \/ UNCHANGED vars => found' = found
    BY DEF Report, vars
  <1> QED
    BY <1>1, <1>2, <1>3, <1>4, <1>5, <1>6, <1>7, <1>8 DEF Next, QueryStep, LocalStep

\* The order of the steps.
LEMMA Moves ==
    ASSUME [Next]_vars
    PROVE  /\ UNCHANGED scene /\ (lost' = {} => lost = {})
           /\ \/ pc' = pc
              \/ pc = "ns" /\ pc' = "done" /\ lost' # {} /\ found' = {F("GeneralError", "zone")}
              \/ pc \in ToRecords /\ pc' \in ToRecords
              \/ CheckRecords
              \/ pc \in {"dnskey", "ds", "random"} /\ pc' \in {"ds", "random", "dnssec"}
              \/ CheckDNSSEC
              \/ pc = "axfr" /\ pc' = "wildcard"
              \/ pc = "wildcard" /\ pc' \in {"recursion", "report"}
              \/ pc = "recursion" /\ pc' = "report"
              \/ pc = "report" /\ pc' = "done"
  <1> USE DEF Goto, Ask
  <1>1. ASSUME NEW ok \in BOOLEAN, QueryStep(ok) PROVE UNCHANGED scene /\ (lost' = {} => lost = {} /\ ok)
    BY <1>1, CallLossless
    DEF QueryStep, QueryNS, QueryANY, QueryApex, QueryAddress, QueryChild, Probe,
        QueryDNSKEY, QueryDS, QueryRandom, Transfer, QueryWildcard, QueryRecursion
  <1>2. LocalStep \/ UNCHANGED vars => UNCHANGED <<scene, lost>>
    BY DEF LocalStep, CheckRecords, CheckDNSSEC, Report, vars
  <1>3. ASSUME NEW ok \in BOOLEAN, QueryNS(ok)
        PROVE  \/ pc \in ToRecords /\ pc' \in ToRecords
               \/ pc = "ns" /\ pc' = "done" /\ lost' # {} /\ found' = {F("GeneralError", "zone")}
    BY <1>3, CallLossless DEF QueryNS, ToRecords
  <1>4. ASSUME NEW ok \in BOOLEAN,
               QueryANY(ok) \/ QueryApex(ok) \/ QueryAddress(ok) \/ QueryChild(ok) \/ Probe(ok)
        PROVE  pc \in ToRecords /\ pc' \in ToRecords
    BY <1>4 DEF QueryANY, QueryApex, QueryAddress, QueryChild, Probe, ToRecords
  <1>5. ASSUME NEW ok \in BOOLEAN, QueryDNSKEY(ok) \/ QueryDS(ok) \/ QueryRandom(ok)
        PROVE  pc \in {"dnskey", "ds", "random"} /\ pc' \in {"ds", "random", "dnssec"}
    BY <1>5 DEF QueryDNSKEY, QueryDS, QueryRandom
  <1>6. ASSUME NEW ok \in BOOLEAN, Transfer(ok) \/ QueryWildcard(ok) \/ QueryRecursion(ok)
        PROVE  \/ pc' = pc
               \/ pc = "axfr" /\ pc' = "wildcard"
               \/ pc = "wildcard" /\ pc' \in {"recursion", "report"}
               \/ pc = "recursion" /\ pc' = "report"
    BY <1>6 DEF Transfer, QueryWildcard, QueryRecursion
  <1>7. Report => pc = "report" /\ pc' = "done"
    BY DEF Report
  <1>8. UNCHANGED vars => pc' = pc
    BY DEF vars
  <1> QED
    BY <1>1, <1>2, <1>3, <1>4, <1>5, <1>6, <1>7, <1>8 DEF Next, QueryStep, LocalStep

\* The identifiers of the groups are different.
LEMMA GroupsDiffer ==
    /\ RecordIds \cap (Unwatched \cup Guarded \cup AxfrIds) = {}
    /\ Guarded \cap (Unwatched \cup AxfrIds) = {}
    /\ AxfrIds \cap Unwatched = {}
    /\ "GeneralError" \notin Unwatched \cup RecordIds \cup Guarded \cup AxfrIds
    /\ DnssecIds \cup {"NoNSEC", "MalformedNSEC3"} = Guarded
    /\ "NoNSEC" \notin DnssecIds
  BY DEF RecordIds, SoaIds, CaaIds, AddrIds, TTLIds, Unwatched, Plainly, Guarded, AxfrIds, DnssecIds

\* The findings on records are complete from their check on.
LEMMA StepRecords ==
    ASSUME IInv, WithinZone, Complete, RecordsInv, [Next]_vars
    PROVE  RecordsInv'
  <1>1. CASE pc = "ns" /\ pc' = "done"
    <2>1. lost' # {}
      BY <1>1, Moves DEF ToRecords, CheckRecords, CheckDNSSEC
    <2> QED
      BY <1>1, <2>1 DEF RecordsInv, ToRecords
  <1>2. CASE CheckRecords
    <2>1. /\ pc = "records" /\ pc' = "dnskey" /\ UNCHANGED <<scene, lost>>
          /\ found' = found \cup RecordFindings(scene, material)
      BY <1>2 DEF CheckRecords, Goto
    <2>2. OfRecords = {}
      BY <2>1 DEF RecordsInv, ToRecords
    <2>3. \A f \in RecordFindings(scene, material) : f.id \in RecordIds
      BY RecordEvidence
    <2>4. Watched(found)' = Watched(RecordFindings(scene, material))
      BY <2>1, <2>2, <2>3, JudgedAreRecords DEF OfRecords, Watched
    <2>5. lost = {} => Watched(RecordFindings(scene, material)) =
                         Watched(AddressReference \cup TTLReference)
      BY <2>1, RecordsExactly
    <2>6. Watched(AddressReference \cup TTLReference)' = Watched(AddressReference \cup TTLReference)
      BY <2>1, ZoneKept DEF Watched
    <2> QED
      BY <2>1, <2>4, <2>5, <2>6 DEF RecordsInv, ToRecords
  <1>3. CASE ~(pc = "ns" /\ pc' = "done") /\ ~CheckRecords
    <2>1. /\ UNCHANGED scene /\ (lost' = {} => lost = {})
          /\ pc' \in ToRecords <=> pc \in ToRecords
      BY <1>3, Moves DEF ToRecords, CheckDNSSEC, Goto
    <2>2. OfRecords' = OfRecords
      BY <1>3, NewFindings, GroupsDiffer DEF OfRecords
    <2>3. Watched(found)' = Watched(found)
      BY <2>1, <2>2, JudgedAreRecords DEF OfRecords, Watched
    <2>4. Watched(AddressReference \cup TTLReference)' = Watched(AddressReference \cup TTLReference)
      BY <2>1, ZoneKept DEF Watched
    <2> QED
      BY <2>1, <2>2, <2>3, <2>4 DEF RecordsInv
  <1> QED
    BY <1>1, <1>2, <1>3

\* So are the findings on DNSSEC.
LEMMA StepDnssec ==
    ASSUME IInv, WithinZone, Complete, DnssecInv, [Next]_vars
    PROVE  DnssecInv'
  <1>1. CASE pc = "ns" /\ pc' = "done"
    <2>1. lost' # {}
      BY <1>1, Moves DEF ToRecords, CheckRecords, CheckDNSSEC
    <2> QED
      BY <2>1 DEF DnssecInv
  <1>2. CASE CheckDNSSEC
    <2> DEFINE said == DnssecFindings(scene, material)
    <2>1. /\ pc = "dnssec" /\ UNCHANGED <<scene, lost>>
          /\ found' = found \cup {F(id, "zone") : id \in said}
      BY <1>2 DEF CheckDNSSEC
    <2>2. Ids \cap Guarded = {}
      BY <2>1 DEF IInv, FoundInv, ToDnssec
    <2>3. Ids' = Ids \cup said
      <3>1. {f.id : f \in {F(id, "zone") : id \in said}} = said
        <4>1. \A id : F(id, "zone").id = id
          BY DEF F
        <4> HIDE DEF said
        <4> QED
          BY <4>1
      <3> QED
        BY <2>1, <3>1, IdsGrow
    <2>4. lost = {} /\ PlainlySigned =>
             /\ said \cap DnssecIds = Reference
             /\ scene.ds # "none" \/ scene.parentDenial.kind = "none" =>
                   ("NoNSEC" \in said <=> Expected /\ scene.denial.kind = "none")
      BY <2>1, DnssecExact
    <2> HIDE DEF said
    <2>5. Ids' \cap DnssecIds = said \cap DnssecIds /\ ("NoNSEC" \in Ids' <=> "NoNSEC" \in said)
      BY <2>2, <2>3, GroupsDiffer
    <2> QED
      BY <2>1, <2>4, <2>5, ZoneKept DEF DnssecInv
  <1>3. CASE ~(pc = "ns" /\ pc' = "done") /\ ~CheckDNSSEC
    <2>1. /\ UNCHANGED scene /\ (lost' = {} => lost = {})
          /\ pc' \notin ToDnssec => pc \notin ToDnssec
      BY <1>3, Moves DEF ToRecords, CheckRecords, Goto, ToDnssec, ToDS, ToKey
    <2>2. Ids' \cap Guarded = Ids \cap Guarded
      BY <1>3, NewFindings, GroupsDiffer DEF Ids
    <2>3. \A id \in DnssecIds \cup {"NoNSEC"} : id \in Ids' <=> id \in Ids
      BY <2>2, GroupsDiffer
    <2> QED
      BY <2>1, <2>3, ZoneKept DEF DnssecInv
  <1> QED
    BY <1>1, <1>2, <1>3

\* Verdicts stay as they are while no finding of their group is made.
LEMMA VerdictsKept ==
    ASSUME found \subseteq found', \A f \in found' \ found : f.id \notin AxfrIds
    PROVE  /\ \A h : About(h, AxfrIds)' = About(h, AxfrIds)
           /\ \A h : OneVerdict(h) => OneVerdict(h)'
  <1>1. \A h : About(h, AxfrIds)' = About(h, AxfrIds)
    BY DEF About
  <1> QED
    BY <1>1 DEF OneVerdict

\* One transfer, one verdict.
LEMMA TransferVerdict ==
    ASSUME NEW ok \in BOOLEAN, Transfer(ok), AxfrInv, CountInv
    PROVE  /\ \A h \in Hosts \ Range(Tail(todo)) : OneVerdict(h)'
           /\ \A h \in Range(Tail(todo)) : About(h, AxfrIds)' = {}
           /\ Tail(todo) = <<>> => Range(Tail(todo)) = {}
           /\ \A i, j \in 1..Len(Tail(todo)) : Tail(todo)[i] = Tail(todo)[j] => i = j
  <1> DEFINE v == ParseTransferResult(MakeTransferResp(ok))
             new == F(v, Head(todo))
  <1>1. pc = "axfr" /\ UNCHANGED scene /\ found' = found \cup {new}
    BY DEF Transfer
  <1>2. v \in AxfrIds /\ new.id = v /\ new.subject = Head(todo)
    BY DEF ParseTransferResult, MakeTransferResp, AxfrIds, F
  <1>3. todo \in Seq(STRING) /\ todo # <<>>
    BY <1>1 DEF CountInv, LateCount, ServerLoop, Ahead
  <1>4. /\ \A i, j \in 1..Len(todo) : todo[i] = todo[j] => i = j
        /\ \A h \in Range(todo) : About(h, AxfrIds) = {}
        /\ \A h \in Hosts \ Range(todo) : OneVerdict(h)
    BY <1>1 DEF AxfrInv
  <1>5. /\ Range(todo) = {Head(todo)} \cup Range(Tail(todo))
        /\ Tail(todo) = <<>> => Range(Tail(todo)) = {}
        /\ Head(todo) \notin Range(Tail(todo))
        /\ \A i, j \in 1..Len(Tail(todo)) : Tail(todo)[i] = Tail(todo)[j] => i = j
    BY <1>3, <1>4, HeadAndTail
  <1> HIDE DEF v, new
  <1>6. \A h : h # Head(todo) => About(h, AxfrIds)' = About(h, AxfrIds)
    BY <1>1, <1>2 DEF About
  <1>7. About(Head(todo), AxfrIds) = {}
    BY <1>4, <1>5
  <1>8. {f.id : f \in {g \in found' : g.subject = Head(todo) /\ g.id \in AxfrIds}} = {v}
    BY <1>1, <1>2, <1>7 DEF About
  <1>9. ASSUME NEW h, h = Head(todo) PROVE OneVerdict(h)'
    <2>1. About(h, AxfrIds)' = {v}
      BY <1>8, <1>9 DEF About
    <2> QED
      BY <1>1, <1>2, <2>1 DEF OneVerdict
  <1>10. ASSUME NEW h \in Hosts \ Range(todo) PROVE OneVerdict(h)'
    <2>1. About(h, AxfrIds)' = About(h, AxfrIds) /\ OneVerdict(h)
      BY <1>4, <1>5, <1>6, <1>10
    <2> QED
      BY <1>1, <2>1 DEF OneVerdict
  <1>11. \A h \in Range(Tail(todo)) : About(h, AxfrIds)' = {}
    BY <1>4, <1>5, <1>6
  <1> QED
    BY <1>5, <1>9, <1>10, <1>11

\* The servers that the loop over the transfers has left behind have their
\* verdict, and keep it.
LEMMA StepAxfr ==
    ASSUME IInv, TypeInv, CountInv, AxfrInv, [Next]_vars
    PROVE  AxfrInv'
  <1>0. SceneOK(scene) /\ UNCHANGED scene /\ (lost' = {} => lost = {})
    BY Moves DEF TypeInv
  <1>1. Hosts' = Hosts
    BY <1>0, ZoneKept
  <1>2. CASE pc = "ns" /\ pc' = "done"
    <2>1. found' = {F("GeneralError", "zone")}
      BY <1>2, Moves DEF ToRecords, CheckRecords, CheckDNSSEC
    <2>2. "GeneralError" \in Ids'
      BY <2>1 DEF Ids, F
    <2> QED
      BY <1>2, <2>2 DEF AxfrInv, ToDnssec, ToDS, ToKey
  <1>3. CASE CheckDNSSEC
    <2>1. /\ pc = "dnssec"
          /\ \/ pc' = "axfr" /\ todo' = scene.ns
             \/ pc' = "wildcard" /\ (scene.active => scene.ns = <<>>)
      BY <1>3 DEF CheckDNSSEC, Goto
    <2>2. \A h : About(h, AxfrIds)' = About(h, AxfrIds)
      BY <1>0, <1>3, <2>1, NewFindings, GroupsDiffer, VerdictsKept DEF CheckRecords
    <2>3. \A h \in Hosts : About(h, AxfrIds)' = {}
      BY <2>1, <2>2 DEF AxfrInv, ToDnssec
    <2> QED
      BY <1>0, <1>1, <2>1, <2>3, HostsOnce DEF AxfrInv, Closing, ToDnssec, ToDS, ToKey
  <1>4. ASSUME NEW ok \in BOOLEAN, Transfer(ok) PROVE AxfrInv'
    <2>1. \/ pc' = "axfr" /\ todo' = Tail(todo)
          \/ pc' = "wildcard" /\ Tail(todo) = <<>>
      BY <1>4 DEF Transfer, Goto
    <2>2. /\ \A h \in Hosts \ Range(Tail(todo)) : OneVerdict(h)'
          /\ \A h \in Range(Tail(todo)) : About(h, AxfrIds)' = {}
          /\ Tail(todo) = <<>> => Range(Tail(todo)) = {}
          /\ \A i, j \in 1..Len(Tail(todo)) : Tail(todo)[i] = Tail(todo)[j] => i = j
      BY <1>4, TransferVerdict
    <2> QED
      BY <1>1, <2>1, <2>2 DEF AxfrInv, Closing, ToDnssec, ToDS, ToKey
  <1>5. ASSUME UNCHANGED vars PROVE AxfrInv'
    <2>1. UNCHANGED <<scene, pc, todo, found, lost>>
      BY <1>5 DEF vars
    <2> QED
      BY <1>1, <2>1 DEF AxfrInv, OneVerdict, About, Ids
  <1>6. CASE /\ ~(pc = "ns" /\ pc' = "done") /\ ~CheckDNSSEC
             /\ ~(\E ok \in BOOLEAN : Transfer(ok)) /\ ~UNCHANGED vars
    <2>1. pc # "axfr"
      BY <1>6 DEF Next, QueryStep, LocalStep, QueryNS, QueryANY, QueryApex, QueryAddress,
         QueryChild, Probe, QueryDNSKEY, QueryDS, QueryRandom, QueryWildcard,
         QueryRecursion, CheckRecords, Report
    <2>2. /\ pc' \in ToDnssec => pc \in ToDnssec
          /\ pc' # "axfr"
          /\ pc' \in Closing => pc \in Closing
      BY <1>6, <2>1, Moves DEF ToRecords, CheckRecords, Goto, ToDnssec, ToDS, ToKey, Closing
    <2>3. found \subseteq found' /\ \A f \in found' \ found : f.id \notin AxfrIds
      BY <1>6, <2>1, NewFindings, GroupsDiffer
    <2>4. /\ \A h : About(h, AxfrIds)' = About(h, AxfrIds)
          /\ \A h : OneVerdict(h) => OneVerdict(h)'
      BY <1>0, <2>3, VerdictsKept
    <2>5. "GeneralError" \in Ids => "GeneralError" \in Ids'
      BY <2>3 DEF Ids
    <2> QED
      BY <1>0, <1>1, <2>2, <2>4, <2>5 DEF AxfrInv
  <1> QED
    BY <1>2, <1>3, <1>4, <1>5, <1>6

\* The early return of Run is the only source of GENERAL-ERROR, and ends it.
LEMMA StepAbort ==
    ASSUME IInv, CountInv, AbortInv, [Next]_vars
    PROVE  AbortInv'
  <1>1. CASE pc = "ns" /\ pc' = "done"
    <2>1. PICK ok \in BOOLEAN : QueryNS(ok)
      BY <1>1 DEF Next, QueryStep, LocalStep, QueryNS, QueryANY, QueryApex, QueryAddress,
         QueryChild, Probe, QueryDNSKEY, QueryDS, QueryRandom, Transfer, QueryWildcard,
         QueryRecursion, CheckRecords, CheckDNSSEC, Report, vars
    <2>2. queries' = queries + 1 /\ queries = 0 /\ UNCHANGED reported
      BY <1>1, <2>1, CallCount DEF QueryNS, Ask, CountInv, EarlyCount
    <2> QED
      BY <1>1, <2>2 DEF AbortInv
  <1>2. CASE ~(pc = "ns" /\ pc' = "done")
    <2>1. "GeneralError" \in Ids' => "GeneralError" \in Ids
      BY <1>2, NewFindings, GroupsDiffer DEF Ids
    <2>2. pc = "done" => UNCHANGED vars
      BY DEF Next, QueryStep, LocalStep, QueryNS, QueryANY, QueryApex, QueryAddress,
         QueryChild, Probe, QueryDNSKEY, QueryDS, QueryRandom, Transfer, QueryWildcard,
         QueryRecursion, CheckRecords, CheckDNSSEC, Report
    <2>3. pc' = "ns" => UNCHANGED vars
      BY DEF Next, QueryStep, LocalStep, QueryNS, QueryANY, QueryApex, QueryAddress,
         QueryChild, Probe, QueryDNSKEY, QueryDS, QueryRandom, Transfer, QueryWildcard,
         QueryRecursion, CheckRecords, CheckDNSSEC, Report, Goto
    <2> QED
      BY <2>1, <2>2, <2>3 DEF AbortInv, vars
  <1> QED
    BY <1>1, <1>2

-----------------------------------------------------------------------------
(* The theorems *)

\* The invariant holds when a Runner starts, ...
LEMMA InitAudit == Init => AuditInv
  <1> SUFFICES ASSUME Init PROVE AuditInv
    OBVIOUS
  <1>1. IInv /\ CountInv /\ TypeInv
    BY InitIInv, InitCount, InitTypes
  <1>2. /\ pc = "ns" /\ found = {} /\ lost = {} /\ reported = 0
        /\ material = [initial |-> {}, rest |-> {}, units |-> {}, hosts |-> {}]
    BY DEF Init
  <1>3. WithinZone /\ Complete
    BY <1>2 DEF WithinZone, Complete, EarlyMaterial, LateMaterial, ToKey, ToDS
  <1>4. RecordsInv /\ DnssecInv
    BY <1>2 DEF RecordsInv, OfRecords, DnssecInv, ToRecords, ToDnssec, ToDS, ToKey
  <1>5. AxfrInv
    BY <1>2 DEF AxfrInv, About, Closing
  <1>6. AbortInv
    BY <1>2 DEF AbortInv, Ids
  <1> QED
    BY <1>1, <1>3, <1>4, <1>5, <1>6 DEF AuditInv, ExactInv

\* ... and every step of it keeps it.
LEMMA StepAudit == AuditInv /\ [Next]_vars => AuditInv'
  BY StepIInv, StepCount, StepTypes, StepWithin, StepComplete, StepRecords, StepDnssec,
     StepAxfr, StepAbort
  DEF AuditInv, ExactInv

\* What the invariant says of the reports.
LEMMA AuditMeans ==
    AuditInv => /\ TypeOK /\ QueryCount
                /\ LosslessIsExact /\ RecordsExact /\ VerdictPerServer
  <1> SUFFICES ASSUME AuditInv
               PROVE  /\ TypeOK /\ QueryCount
                      /\ LosslessIsExact /\ RecordsExact /\ VerdictPerServer
    OBVIOUS
  <1>1. TypeOK /\ QueryCount
    BY TypesMean, CountMeans DEF AuditInv
  <1>2. LosslessIsExact
    BY DEF AuditInv, ExactInv, DnssecInv, LosslessIsExact, ToDnssec, ToDS, ToKey
  <1>3. RecordsExact
    BY DEF AuditInv, ExactInv, RecordsInv, RecordsExact, Watched, ToRecords
  <1>4. VerdictPerServer
    <2> SUFFICES ASSUME pc = "done", scene.active, "GeneralError" \notin Ids, NEW h \in Hosts
                 PROVE  Cardinality(About(h, AxfrIds)) = 1
      BY DEF VerdictPerServer, About, AxfrIds
    <2>1. OneVerdict(h)
      BY DEF AuditInv, ExactInv, AxfrInv, Closing
    <2> QED
      BY <2>1, FS_Singleton DEF OneVerdict
  <1> QED
    BY <1>1, <1>2, <1>3, <1>4

\* The invariant holds in every run.
LEMMA AuditInvariance == Spec => []AuditInv
  BY InitAudit, StepAudit, PTL DEF Spec

\* A run of Runner.Run that lost no query reports on DNSSEC exactly what a
\* plainly signed zone calls for, for any such zone, however its material is
\* spread over the responses; the lack of NSEC records is reported exactly,
\* too, where those of the parent do not come in.
THEOREM ReportIsExact == Spec => []LosslessIsExact
  BY AuditInvariance, AuditMeans, PTL

\* It reports on addresses and TTLs exactly what the registries and the
\* documented limits call for, but for the addresses that addrs.Classify
\* misjudges and for types of which a copy has a TTL of zero.
THEOREM RecordReportIsExact == Spec => []RecordsExact
  BY AuditInvariance, AuditMeans, PTL

\* An active run that gets past its first query has one verdict on transfers
\* for every name server, whichever queries were lost.
THEOREM OneVerdictEach == Spec => []VerdictPerServer
  BY AuditInvariance, AuditMeans, PTL
=============================================================================
