---------------------------- MODULE RecordChecks ----------------------------
(***************************************************************************)
(* The checks on single records: soa.Check, ttl.Check, caa.Check and       *)
(* addrs.CheckAll, as functions of the zone z and of the material m that   *)
(* was gathered when they run (see AuditRun).  The fields of z:            *)
(*   z.today    the date as the number yyyymmdd                            *)
(*   z.soa      the fields of the SOA record                               *)
(*   z.ttl      the TTL of each copy of an RRset in the answers to the NS  *)
(*              and ANY queries (a cache may answer the two differently)   *)
(*   z.profile  --profile                                                  *)
(*   z.caa      the CAA records                                            *)
(*   z.addrs    the addresses in the A and the AAAA set of the apex        *)
(*   z.hostAddrs for each name server, the addresses in its A set          *)
(*                                                                         *)
(* A name that is checked label by label is reduced to the outcome of the  *)
(* check.  Expire, a uint32, is a pair of 16-bit words, and so is not cut  *)
(* off by the integers of TLC.                                             *)
(***************************************************************************)
EXTENDS Integers, Sequences, Findings, DnssecChecks

\* One finding with the given rule if the condition holds.
When(cond, id, subject) == {f \in {F(id, subject)} : cond}

-----------------------------------------------------------------------------
(* soa.Check *)

\* The root is no valid name here, nor is one with a label above 63 bytes.
Names == {"root", "longlabel", "valid"}
ValidName(n) == n = "valid"

\* The serial is compared with the date without its two last digits, ...
NearDate(serial, today) == serial \in (today - 2)..(today + 2)
\* ... so that serials of the form yyyymmddnn pass for being large.
SerialIssues(serial, today) == ~NearDate(serial, today) /\ ~(serial > 2000010100)

\* Expire is out of range if it is zero or above 0x7fffffff.
ScheduleIssues(soa) ==
    \/ soa.Retry >= soa.Refresh
    \/ soa.Expire = <<0, 0>> \/ soa.Expire[1] >= 2^15
    \/ soa.Refresh = 0

SoaCheck(soa, today) ==
         When(~ValidName(soa.Mbox), "SOAInvalidRNAME", "zone")
    \cup When(~ValidName(soa.Ns), "SOAInvalidMNAME", "zone")
    \cup When(SerialIssues(soa.Serial, today), "SOASerialFormat", "zone")
    \cup When(ScheduleIssues(soa), "SOASchedule", "zone")
    \cup When(soa.Minttl < 30, "SOANegativeTTL", "zone")

-----------------------------------------------------------------------------
(* ttl.Collector and ttl.Check *)

Limits(profile) ==
    CASE profile = "conservative" -> [min |-> 300, extreme |-> 86400]
      [] profile = "agile"        -> [min |-> 10, extreme |-> 604800]
      [] OTHER                    -> [min |-> 60, extreme |-> 604800]

\* The types of the apex that are looked at and that the models have.
TTLTypes == {"SOA", "NS", "A", "AAAA", "CAA", "DNSKEY"}

\* The collector saw the merged first response only, answer and authority
\* section.
Collected(z, m, x) == {z.ttl[c] : c \in {d \in m.initial : d[1] = x}}

\* Mutant: every TTL of a type is kept.
LeastIsAny(z, m, x) == Collected(z, m, x)
\* Collector.Add keeps the smallest TTL of a type.
Least(z, m, x) == {t \in Collected(z, m, x) : \A u \in Collected(z, m, x) : t <= u}

\* A TTL of zero is passed over.
TtlCheck(z, m) ==
    LET limits == Limits(z.profile)
    IN     {F("TTLExtreme", x) : x \in {y \in TTLTypes :
                \E t \in Least(z, m, y) : t # 0 /\ t > limits.extreme}}
      \cup {F("TTLShort", x) : x \in {y \in TTLTypes :
                \E t \in Least(z, m, y) : t # 0 /\ t <= limits.extreme /\ t < limits.min}}

-----------------------------------------------------------------------------
(* caa.Check *)

KnownTags == {"issue", "issuewild", "iodef", "validationmode"}

\* The text before and after the first semicolon of a value; without a
\* semicolon the whole text is both.  url: the value begins with mailto:,
\* http:// or https://.
Domains == {"empty", "valid", "invalid"}
ValidateIssue(v) == v.issuer = "empty" \/ (v.issuer = "valid" /\ v.rest # "invalid")
ValidateTag(tag, v) ==
    CASE tag \in {"issue", "issuewild"} -> ValidateIssue(v)
      [] tag = "iodef" -> v.url
      [] OTHER -> TRUE

CaaCheck(records) ==
         When(\E c \in records : c.Flag % 2 = 1 /\ c.Tag \notin KnownTags,
              "CAACriticalUnknown", "zone")
    \cup When(\E c \in records : ~ValidateTag(c.Tag, c.Value), "CAABadValue", "zone")

-----------------------------------------------------------------------------
(* addrs.Classify and addrs.CheckAll *)

\* An address is the four bytes of an IPv4 address (an IPv4-mapped IPv6
\* address is one too), or the first 16 bits of an IPv6 address and the rest
\* of it as a number.
IPv4(a, b, c, d) == <<a, b, c, d>>
IPv6(hi, low)    == <<hi, low>>
To4(a) == DOMAIN a = 1..4
IsAddress(a) == \/ a \in [1..4 -> 0..255]
                \/ a \in [1..2 -> Nat] /\ a[1] < 2^16

IsPrivateV4(ip, first) == ip[1] = first /\ (first = 172 => ip[2] >= 16 /\ ip[2] <= 31)

IsDocV4(ip) == \/ ip[1] = 198 /\ ip[2] = 51 /\ ip[3] = 100
               \/ ip[1] = 203 /\ ip[2] = 0 /\ ip[3] = 113

\* The switches take the first case that applies.
ClassifyV4(ip) ==
    IF ip[1] = 127 THEN "AddrLoopback"
    ELSE IF \E first \in {10, 172, 192} : IsPrivateV4(ip, first) THEN "AddrPrivate"
    ELSE IF ip[1] = 169 /\ ip[2] = 254 THEN "AddrLocal"
    ELSE IF IsDocV4(ip) THEN "AddrDocumentation"
    ELSE IF ip[1] = 192 /\ ip[2] = 0 /\ ip[3] = 0 /\ ip[4] = 2 THEN "AddrReserved"
    ELSE IF ip[1] >= 224 THEN "AddrReserved"
    ELSE "public"

\* net.IP: IsLoopback, IsPrivate, IsLinkLocalUnicast, IsUnspecified.
ClassifyV6(ip) ==
    IF ip[1] = 0 /\ ip[2] = 1 THEN "AddrLoopback"
    ELSE IF ip[1] \div 512 = 126 THEN "AddrPrivate"
    ELSE IF ip[1] \div 64 = 1018 THEN "AddrLocal"
    ELSE IF ip[1] = 0 /\ ip[2] = 0 THEN "AddrReserved"
    ELSE "public"

Classify(a) == IF To4(a) THEN ClassifyV4(a) ELSE ClassifyV6(a)

\* The addresses among the gathered records: those of the apex and those of
\* the name servers whose A query was answered.
Gathered(z, m) ==
         (UNION {z.addrs[x] : x \in {y \in {"A", "AAAA"} : Has(Combined(m), y)}})
    \cup (UNION {z.hostAddrs[h] : h \in m.hosts})

\* One finding per address.
AddrFinding(id, a) == [id |-> id, subject |-> "address", ip |-> a]
AddrCheck(z, m) ==
    {AddrFinding(Classify(a), a) : a \in {b \in Gathered(z, m) : Classify(b) # "public"}}

-----------------------------------------------------------------------------

\* The fields of a zone that are used here.
ZoneAddresses(z) == z.addrs["A"] \cup z.addrs["AAAA"]
                      \cup (UNION {z.hostAddrs[h] : h \in DOMAIN z.hostAddrs})
SoaOK(soa) ==
    /\ soa.Ns \in Names /\ soa.Mbox \in Names
    /\ soa.Expire \in (0..65535) \X (0..65535)
    /\ \A k \in {"Serial", "Refresh", "Retry", "Minttl"} : soa[k] \in Nat
CaaOK(records) ==
    \A c \in records : c.Flag \in 0..255 /\ {c.Value.issuer, c.Value.rest} \subseteq Domains
TtlsOK(z) == \A x \in TTLTypes, q \in {"ns", "any"} : z.ttl[<<x, q>>] \in Nat
AddressesOK(z) == \A a \in ZoneAddresses(z) : IsAddress(a)
RecordsOK(z) ==
    /\ z.today \in Nat /\ z.profile \in {"conservative", "balanced", "agile"}
    /\ SoaOK(z.soa) /\ CaaOK(z.caa) /\ TtlsOK(z) /\ AddressesOK(z)

\* Steps 3 to 6 of Runner.Run.  The SOA is taken from the answer section of
\* the merged first response, the CAA records from everything gathered.
RecordFindings(z, m) ==
         (IF <<"SOA", "any">> \in m.initial THEN SoaCheck(z.soa, z.today) ELSE {})
    \cup TtlCheck(z, m)
    \cup (IF Has(Combined(m), "CAA") THEN CaaCheck(z.caa) ELSE {})
    \cup AddrCheck(z, m)

SoaIds  == {"SOAInvalidRNAME", "SOAInvalidMNAME", "SOASerialFormat", "SOASchedule",
            "SOANegativeTTL"}
CaaIds  == {"CAACriticalUnknown", "CAABadValue"}
AddrIds == {"AddrLoopback", "AddrPrivate", "AddrLocal", "AddrDocumentation", "AddrReserved"}
TTLIds  == {"TTLExtreme", "TTLShort"}
RecordIds == SoaIds \cup TTLIds \cup CaaIds \cup AddrIds

-----------------------------------------------------------------------------
(* What the zone itself calls for, from the registries and the documents *)

\* The special-purpose ranges (RFC 1918, 3927, 5737, 6890) in the categories
\* of the check, by their first 24 bits or, for IPv6, 16 bits.
Prefix(a, b, c) == 65536 * a + 256 * b + c
Between(p, low, high) == low <= p /\ p <= high
InRangeV4(p, id) ==
    CASE id = "AddrLoopback"      -> Between(p, Prefix(127, 0, 0), Prefix(127, 255, 255))
      [] id = "AddrPrivate"       -> \/ Between(p, Prefix(10, 0, 0), Prefix(10, 255, 255))
                                     \/ Between(p, Prefix(172, 16, 0), Prefix(172, 31, 255))
                                     \/ Between(p, Prefix(192, 168, 0), Prefix(192, 168, 255))
      [] id = "AddrLocal"         -> Between(p, Prefix(169, 254, 0), Prefix(169, 254, 255))
      [] id = "AddrDocumentation" -> p \in {Prefix(192, 0, 2), Prefix(198, 51, 100), Prefix(203, 0, 113)}
      [] id = "AddrReserved"      -> \/ p = Prefix(192, 0, 0)
                                     \/ Between(p, Prefix(224, 0, 0), Prefix(255, 255, 255))

Registered(a, id) ==
    IF To4(a)
      THEN InRangeV4(Prefix(a[1], a[2], a[3]), id)
      ELSE CASE id = "AddrLoopback" -> a = IPv6(0, 1)
             [] id = "AddrPrivate"  -> Between(a[1], 64512, 65023)   \* fc00::/7
             [] id = "AddrLocal"    -> Between(a[1], 65152, 65215)   \* fe80::/10
             [] id = "AddrReserved" -> a = IPv6(0, 0)
             [] OTHER               -> FALSE

\* Where the check departs from the registries: all of 192.0.0.0/8 is taken
\* for 192.168.0.0/16.
Misjudged(a) == To4(a) /\ a[1] = 192 /\ a[2] # 168
\* Where it departs from docs/ttl.md: a type with a TTL of zero is passed over.
ZeroTTL(z, x) == \E q \in {"ns", "any"} : z.ttl[<<x, q>>] = 0

\* The findings on addresses and TTLs that the zone can be held against.
Judged(f) == f.id \in TTLIds \/ (f.id \in AddrIds /\ ~Misjudged(f.ip))

\* Whether the zone, as it is, calls for such a finding.
CalledFor(z, f) ==
    LET ttls   == {z.ttl[<<f.subject, q>>] : q \in {"ns", "any"}}
        limits == Limits(z.profile)
    IN  \/ f.id = "TTLShort" /\ \E t \in ttls : t < limits.min
        \/ f.id = "TTLExtreme" /\ \E t \in ttls : t > limits.extreme
        \/ f.id \in AddrIds /\ f.ip \in ZoneAddresses(z) /\ Registered(f.ip, f.id)
=============================================================================
