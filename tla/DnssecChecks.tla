---------------------------- MODULE DnssecChecks ----------------------------
(***************************************************************************)
(* The DNSSEC part of a report as a function of the zone and of what the   *)
(* run gathered about it: dnssec.CheckZone, Runner.verifySignatures,       *)
(* dnssec.ValidateChain, the verdict of step 8 of Runner.Run and           *)
(* nsec.Check.                                                             *)
(*                                                                         *)
(* What is gathered are copies of RRsets: <<x, q>> is the RRset x, with    *)
(* its RRSIGs, as it came in the answer to the query q.  Resolvers may     *)
(* answer two queries with different copies of the same RRset.  (Queries   *)
(* that one loop makes, such as those for six types at the apex, share     *)
(* their copies.)                                                          *)
(*                                                                         *)
(* A zone z is described by                                                *)
(*   z.keys    the algorithms of the DNSKEYs it publishes                  *)
(*   z.ds      "none", "mismatch", or the published key that a DS at the   *)
(*             parent was made from                                        *)
(*   z.usual   the RRSIGs, see IsSig, that come with a copy of an RRset,   *)
(*   z.odd     except for those copies that it gives others                *)
(*   z.denial  how it denies names, and z.parentDenial the same of its     *)
(*             parent: see IsDenial                                        *)
(* and the gathered material m by                                          *)
(*   m.initial the copies in the merged NS and ANY responses               *)
(*   m.rest    those in all other responses                                *)
(*   m.units   copies in responses that were kept for the verification of  *)
(*             signatures without being merged with the others             *)
(* "DS" stands for the DS of the zone and "PNSEC" for the NSEC/NSEC3       *)
(* records of the parent, which come with a negative DS answer.            *)
(*                                                                         *)
(* Keys, digests, signatures and times are abstracted to the outcome of    *)
(* the computations on them.                                               *)
(***************************************************************************)
EXTENDS Integers, FiniteSets

\* The RRsets of a zone; HOST stands for the addresses of the name servers
\* inside the zone.
RRsets == {"NS", "SOA", "NSEC", "DNSKEY", "A", "AAAA", "CAA", "WILD", "HOST"}

\* The queries whose answers are gathered, and the copies they may bring.
Queries == {"ns", "any", "apex", "host", "dnskey", "ds", "random"}
Copies  == RRsets \X Queries
Of(rrsets, q) == {<<x, q>> : x \in rrsets}

\* rsa stands for RSASHA256 and RSASHA512, rsasha1 for the two deprecated ones.
Algorithms == {"ed25519", "p256", "p384", "rsa", "rsasha1"}

\* An RRSIG: its algorithm, whether its key is in the zone's DNSKEY set,
\* whether it is a sound signature of the RRset, and its validity period.
IsSig(s) == /\ s.alg \in Algorithms /\ s.published \in BOOLEAN /\ s.sound \in BOOLEAN
            /\ s.period \in {"current", "past", "future"}

\* Nothing, NSEC records, or NSEC3 records with these parameters.
IsDenial(d) == /\ d.kind \in {"none", "nsec", "nsec3"}
               /\ d.iterations \in 0..65535 /\ d.salt \in 0..255

\* ParseDNSKEY: RSA keys are expected in DER, which is not how DNSKEYs hold
\* them (RFC 3110), so that none is accepted; RSASHA1-NSEC3 has no case at all.
ParseDNSKEY(alg) == alg \in {"ed25519", "p256", "p384"}

\* dd.combined: everything gathered, and the RRSIGs of the zone in some copies
\* (Collect(...).InZone(zone): those of the parent are dropped).
Combined(m) == m.initial \cup m.rest
SigsOf(z, c) == IF c \in DOMAIN z.odd THEN z.odd[c] ELSE z.usual
Sigs(z, copies) == UNION {SigsOf(z, c) : c \in copies \cap Copies}

Has(copies, x) == \E c \in copies : c[1] = x

\* Collect keeps the keys that ParseDNSKEY accepts.
HasDNSKEY(z, m) == Has(Combined(m), "DNSKEY") /\ \E k \in z.keys : ParseDNSKEY(k)
HasRRSIG(z, m)  == Sigs(z, Combined(m)) # {}
HasDS(m)        == Has(m.rest, "DS")

\* RRSIGInfo.SignatureExpired and SignatureNotYetValid.
SignatureExpired(s)     == s.period = "past"
SignatureNotYetValid(s) == s.period = "future"

\* dnssec.CheckZone.
CheckZone(z, m) ==
    LET sigs == Sigs(z, Combined(m))
    IN     {f \in {"NoDNSKEY"} : HasRRSIG(z, m) /\ ~HasDNSKEY(z, m)}
      \cup {f \in {"NoRRSIG"} : HasDNSKEY(z, m) /\ ~HasRRSIG(z, m)}
      \cup {f \in {"SignExpired"} : \E s \in sigs : SignatureExpired(s)}
      \cup {f \in {"SignNotYet"} : \E s \in sigs : SignatureNotYetValid(s)}
      \cup {f \in {"DeprecatedAlgo"} : \E s \in sigs : s.alg = "rsasha1"}

-----------------------------------------------------------------------------
(* verifySignatures *)

\* A unit is one response, the merged NS and ANY answers being one; the answer
\* to the DNSKEY query is attached to every unit.
UnitOf(c) == IF c[2] = "any" THEN "ns" ELSE c[2]
Seen(m) == (m.initial \cup m.rest \cup m.units) \cap Copies

\* Mutant: the DNSKEY answer is not attached to the other responses.
UnitDetached(m, c) == {d \in Seen(m) : UnitOf(d) = UnitOf(c)}
\* The unit that c is in.
Unit(m, c) == {d \in Seen(m) : UnitOf(d) = UnitOf(c) \/ d = <<"DNSKEY", "dnskey">>}

\* The RRSIGs that are tried on the RRset of c in its unit: those whose key is
\* there.  (In units that have no DNSKEY of their own the attached ones fare as
\* in the answer they came in.)
Tried(z, m, c) ==
    {s \in Sigs(z, {d \in Unit(m, c) : d[1] = c[1]}) :
        Has(Unit(m, c), "DNSKEY") /\ s.published /\ ParseDNSKEY(s.alg)}

\* Verify: ECDSA P-384 signatures are checked with the wrong digest, SHA-512
\* instead of SHA-384.  The validity period is not looked at.
Verify(s) == s.sound /\ s.alg # "p384"

\* VerifyRRSIGForType: the first RRSIG that fails spoils the RRset.
Passes(z, m, c) == Tried(z, m, c) # {} /\ \A s \in Tried(z, m, c) : Verify(s)

\* An RRset is verified if it passes in some response, ...
Verified(z, m) == {c[1] : c \in {d \in Seen(m) : Passes(z, m, d)}}

\* Mutant: a failure anywhere counts, whatever the other responses say.
SigFailuresAnywhere(z, m) ==
    {c[1] : c \in {d \in Seen(m) : Tried(z, m, d) # {} /\ ~Passes(z, m, d)}}
\* ... and fails if it was tried and passes in none.
SigFailures(z, m) == {c[1] : c \in {d \in Seen(m) : Tried(z, m, d) # {}}} \ Verified(z, m)

-----------------------------------------------------------------------------
(* The chain of trust, the verdict, denial of existence *)

\* verifyDSMatchesDNSKEY: digests of the accepted keys are compared.
DSMatches(z, m) ==
    HasDS(m) /\ HasDNSKEY(z, m) /\ z.ds \in z.keys /\ ParseDNSKEY(z.ds)

\* dnssec.ValidateChain with an anchor that holds a DS: that DS is among
\* the combined records too, so HasDS holds on both sides of line 114.
ValidateChain(z, m) ==
    /\ \A s \in Sigs(z, Combined(m)) : ~SignatureExpired(s) /\ ~SignatureNotYetValid(s)
    /\ DSMatches(z, m)

\* Mutant: failed signatures do not stand in the way of a pass.
VerdictIgnoringSigs(z, m) ==
    IF ~HasDS(m) THEN {"NoDS"}
    ELSE IF ~ValidateChain(z, m) THEN {"BrokenChain"}
    ELSE IF Verified(z, m) # {} THEN {"Valid"} ELSE {}

\* The if / else-if chain of step 8.
Verdict(z, m) ==
    IF ~HasDS(m) THEN {"NoDS"}
    ELSE IF ~ValidateChain(z, m) THEN {"BrokenChain"}
    ELSE IF Verified(z, m) # {} /\ SigFailures(z, m) = {} THEN {"Valid"} ELSE {}

\* nsec.Analyze: NSEC3 parameters that look malformed.
Malformed(d) == /\ d.kind = "nsec3"
                /\ \/ d.iterations = 0 /\ d.salt = 0
                   \/ d.iterations > 10000

\* nsec.Check of the NSEC and NSEC3 records of dd.combined, those of the parent
\* included.
NsecCheck(z, m) ==
    LET own    == Has(Combined(m), "NSEC")
        parent == Has(Combined(m), "PNSEC")
    IN     {f \in {"NoNSEC"} : ~own /\ ~parent}
      \cup {f \in {"MalformedNSEC3"} : \/ own /\ Malformed(z.denial)
                                       \/ parent /\ Malformed(z.parentDenial)}

\* Steps 8 and 9: everything hangs on the zone looking signed.
LooksSigned(z, m) == HasDNSKEY(z, m) \/ HasRRSIG(z, m) \/ HasDS(m)

DnssecFindings(z, m) ==
    IF LooksSigned(z, m)
      THEN      CheckZone(z, m)
           \cup {f \in {"InvalidSig"} : SigFailures(z, m) # {}}
           \cup Verdict(z, m)
           \cup NsecCheck(z, m)
      ELSE {}
=============================================================================
