---------------------------- MODULE MCAuditRun ------------------------------
EXTENDS AuditRun

\* --resolver left out, as a host with and without a port, as a list.
NoResolver == Address(<<>>, FALSE)
WithPort   == Address(<<"r1">>, TRUE)
BareHost   == Address(<<"r1">>, FALSE)
HostList   == Address(<<"r1", "r2">>, TRUE)

Denial(kind, iterations, salt) == [kind |-> kind, iterations |-> iterations, salt |-> salt]
NoDenial == Denial("none", 0, 0)
NSEC     == Denial("nsec", 0, 0)
Odd3     == Denial("nsec3", 0, 0)
Fine3    == Denial("nsec3", 10000, 0)

\* An SOA record, a CAA record and addresses that nothing is wrong with.
PlainSOA == [Ns |-> "valid", Mbox |-> "valid", Serial |-> 2024050101, Refresh |-> 7200,
             Retry |-> 3600, Expire |-> <<18, 29952>>, Minttl |-> 300]
Value(issuer, rest, url) == [issuer |-> issuer, rest |-> rest, url |-> url]
Issue   == [Flag |-> 0, Tag |-> "issue", Value |-> Value("valid", "valid", FALSE)]
Public4 == IPv4(8, 8, 8, 8)
Public6 == IPv6(8193, 1)

\* RRSIGs, and no copies of RRsets with other ones.
Sig(alg) == [alg |-> alg, published |-> TRUE, sound |-> TRUE, period |-> "current"]
Good     == Sig("p256")
Bad      == [Good EXCEPT !.sound = FALSE]
Expired  == [Good EXCEPT !.period = "past"]
Early    == [Good EXCEPT !.period = "future"]
Orphan   == [Sig("rsasha1") EXCEPT !.published = FALSE]
NoOdd == [c \in {} |-> {}]

\* An unremarkable zone: signed, chained, one name server, behind a
\* recursive resolver that answers ANY with nothing.
Plain ==
    [ keys |-> {"p256"}, ds |-> "p256", usual |-> {Good}, odd |-> NoOdd,
      denial |-> NSEC, parentDenial |-> NSEC, types |-> {"A"},
      anyFull |-> FALSE, wild |-> FALSE, sub |-> "none", recursive |-> TRUE,
      resolver |-> WithPort, axfr |-> "refused", active |-> FALSE,
      ns |-> <<"h1">>, inZone |-> {}, hostAddrs |-> [h \in {"h1"} |-> {Public4}],
      today |-> 20240601, soa |-> PlainSOA,
      ttl |-> [c \in TTLTypes \X {"ns", "any"} |-> 3600],
      profile |-> "balanced", caa |-> {Issue},
      addrs |-> [A |-> {Public4}, AAAA |-> {Public6}], budget |-> 400 ]

\* A zone with the given name servers, each with the same addresses.
Served(zone, ns, addrs) ==
    [zone EXCEPT !.ns = ns,
                 !.hostAddrs = [h \in {ns[i] : i \in 1..Len(ns)} |-> addrs]]

\* Other signatures on all copies, or on all copies of some RRsets.
Signed(zone, sigs) == [zone EXCEPT !.usual = sigs]
But(zone, rrsets, sigs) ==
    [zone EXCEPT !.odd = [c \in {d \in Copies : d[1] \in rrsets} |-> sigs]]

\* The zone with its keys withdrawn: every RRSIG is an orphan.
Orphaned(sigs) == {[s EXCEPT !.published = FALSE] : s \in sigs}
Keyless(zone) ==
    [zone EXCEPT !.keys = {}, !.ds = "none", !.usual = Orphaned(@),
                 !.odd = [c \in DOMAIN @ |-> Orphaned(@[c])]]

\* One RRset is signed differently from all others, in all its copies: every
\* state of its RRSIG, none, or two of them.
Signings == {But(Signed(Plain, base), {x}, s) :
                x \in {"NS", "DNSKEY", "NSEC"},
                s \in {{}, {Bad}, {Expired}, {Early}, {Orphan}, {Good, Orphan}, {Bad, Good}},
                base \in {{}, {Good}}}

\* All DNSSEC states, with ANY answered in full and not.
SecurityScenes ==
    {[z EXCEPT !.anyFull = a] :
        z \in {[s EXCEPT !.ds = d] : s \in Signings, d \in {"none", "p256", "mismatch"}}
                 \cup {Keyless(s) : s \in Signings},
        a \in BOOLEAN}

\* Copies of one RRset that differ: bad in the answers to some queries and good,
\* or unsigned, in the others.
VariantScenes ==
    {[Plain EXCEPT !.anyFull = TRUE,
         !.odd = [c \in {d \in Copies : d[1] = x} |-> IF c[2] \in q THEN {Bad} ELSE s]] :
        x \in {"NS", "SOA", "NSEC", "DNSKEY"}, s \in {{}, {Good}},
        q \in {{"ns"}, {"any"}, {"apex"}, {"dnskey"}, {"random"}, {"apex", "random"},
               {"any", "apex", "random"}}}

\* Keys of the other algorithms, alone and beside one another.
AlgorithmScenes ==
    {[Plain EXCEPT !.keys = {k, l}, !.ds = k, !.usual = {Sig(k), Sig(g)}] :
        k, l \in Algorithms \ {"p256"}, g \in Algorithms \ {"p256"}}
AlgorithmScenesOK == {z \in AlgorithmScenes : \A s \in z.usual : s.alg \in z.keys}

\* A zone without name servers: the first answer is negative.
BareScenes ==
    {[z EXCEPT !.denial = n, !.anyFull = a,
         !.ttl = [c \in TTLTypes \X {"ns", "any"} |-> IF c[2] = "ns" THEN t ELSE 3600]] :
        z \in {Served(k, <<>>, {}) : k \in {Plain, Keyless(Plain), Signed(Plain, {Early})}},
        n \in {NoDenial, NSEC}, a \in BOOLEAN, t \in {59, 604801}}

\* All ways the delegation, the resolver and the options can be; the NS set at
\* sub.<zone> is compared before, and has no bearing on, the active checks.
DelegationScenes ==
  {s \in
    {[Served(Plain, ns, {Public4}) EXCEPT !.sub = u, !.recursive = r, !.active = a,
                   !.axfr = x, !.resolver = o, !.wild = w, !.types = {}] :
        ns \in {<<>>, <<"h1">>, <<"h1", "h2">>}, u \in {"none", "same", "other"},
        r \in BOOLEAN, a \in BOOLEAN, x \in {"allowed", "refused", "error"},
        o \in {NoResolver, WithPort}, w \in BOOLEAN} :
   /\ s.resolver = WithPort \/ s.axfr = "refused"
   /\ ~s.active => s.axfr = "refused" /\ ~s.wild
   /\ s.active => s.sub = "same"}

\* A budget that runs out in each part of the pipeline (15 queries suffice).
TightScenes == {[Plain EXCEPT !.budget = b, !.anyFull = a] : b \in 1..15, a \in BOOLEAN}

AddressScenes == {[Plain EXCEPT !.resolver = r] : r \in {NoResolver, BareHost, HostList}}

\* Name servers inside the zone, the zone as its own name server, and their
\* signatures; negative answers about them are not merged.
InZoneScenes ==
    {[Served(But(Signed(Plain, {}), {"HOST", "NSEC"}, s), ns, {Public4}) EXCEPT
         !.inZone = {"apex", "h2"}, !.sub = "same", !.types = t, !.anyFull = a] :
        ns \in {<<"h2">>, <<"apex">>, <<"h1", "h2">>}, t \in {{}, {"A"}}, a \in BOOLEAN,
        s \in {{}, {Good}, {Bad}, {Expired}}}

\* How the zone and how its parent deny names, without a DS and with one.
DenialScenes ==
    {[Plain EXCEPT !.ds = d, !.denial = n, !.parentDenial = p] :
        d \in {"none", "p256"}, n, p \in {NoDenial, NSEC, Odd3, Fine3, Denial("nsec3", 10001, 8)}}

\* An SOA record that each part of its check objects to.
SOAScenes ==
    {[Plain EXCEPT !.anyFull = TRUE, !.soa = s] : s \in
        {[PlainSOA EXCEPT !.Ns = "root"], [PlainSOA EXCEPT !.Mbox = "longlabel"],
         [PlainSOA EXCEPT !.Serial = 20240604], [PlainSOA EXCEPT !.Refresh = 3600],
         [PlainSOA EXCEPT !.Expire = <<32768, 0>>], [PlainSOA EXCEPT !.Minttl = 29]}}

\* TTLs at and around the limits of the profiles; a cache hands out the NS set
\* with a TTL of its own.
TTLScenes ==
    {[Plain EXCEPT !.anyFull = TRUE, !.profile = p,
                   !.ttl = [c \in TTLTypes \X {"ns", "any"} |->
                              IF c[2] = "ns" THEN n
                              ELSE IF c[1] \in {"NS", "A"} THEN t ELSE 3600]] :
        p \in {"conservative", "balanced", "agile"},
        n \in {0, 9, 300, 604801}, t \in {10, 59, 86401, 604801}}

\* CAA records that are and are not objected to.
CAAScenes ==
    {[Plain EXCEPT !.types = {"CAA"}, !.caa = {Issue, [Flag |-> 1, Tag |-> t, Value |-> v]}] :
        t \in {"issue", "iodef", "other"},
        v \in {Value("empty", "invalid", TRUE), Value("valid", "invalid", FALSE)}}

\* Addresses at both ends of every range, at the apex and of a name server.
Edges4 == {IPv4(b[1], b[2], b[3], 1) : b \in
    {<<9, 255, 255>>, <<10, 0, 0>>, <<10, 255, 255>>, <<11, 0, 0>>,
     <<126, 255, 255>>, <<127, 0, 0>>, <<127, 255, 255>>, <<128, 0, 0>>,
     <<169, 253, 255>>, <<169, 254, 0>>, <<169, 254, 255>>, <<169, 255, 0>>,
     <<172, 15, 255>>, <<172, 16, 0>>, <<172, 31, 255>>, <<172, 32, 0>>,
     <<191, 255, 255>>, <<192, 0, 0>>, <<192, 0, 2>>, <<192, 167, 255>>, <<192, 168, 0>>,
     <<192, 168, 255>>, <<192, 169, 0>>, <<193, 0, 0>>,
     <<198, 51, 99>>, <<198, 51, 100>>, <<198, 51, 101>>,
     <<203, 0, 112>>, <<203, 0, 113>>, <<203, 0, 114>>,
     <<223, 255, 255>>, <<224, 0, 0>>, <<255, 255, 255>>}}
Edges6 == {IPv6(0, 0), IPv6(0, 1), IPv6(0, 2), IPv6(64511, 1), IPv6(64512, 1), IPv6(65023, 1),
           IPv6(65024, 1), IPv6(65151, 1), IPv6(65152, 1), IPv6(65215, 1), IPv6(65216, 1)}
AddrScenes ==
    {[Served(Plain, <<"h1", "h2">>, Edges4) EXCEPT
         !.types = {"A", "AAAA"}, !.addrs = [A |-> a, AAAA |-> Edges6], !.inZone = z] :
        a \in {{Public4}, Edges4}, z \in {{}, {"h2"}}}

RecordScenes == SOAScenes \cup TTLScenes \cup CAAScenes \cup AddrScenes

MCScenes == SecurityScenes \cup VariantScenes \cup AlgorithmScenesOK \cup DenialScenes
              \cup DelegationScenes \cup BareScenes \cup InZoneScenes \cup AddressScenes
              \cup TightScenes \cup RecordScenes
=============================================================================
