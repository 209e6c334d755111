------------------------------ MODULE Findings ------------------------------
(***************************************************************************)
(* internal/findings: severities and the catalogue of rules, as far as     *)
(* something depends on them: what a finding is about and how severe it is.*)
(* Titles, texts and evidence are left out, and so is the sort of a report,*)
(* which keeps the set of findings.                                        *)
(*                                                                         *)
(* The prefix that a rule's name repeats from its component is dropped     *)
(* where no two rules would collide (DelegLame is Lame, DNSSECNoDS NoDS).  *)
(***************************************************************************)
EXTENDS Integers

\* Severity: the zero value is no severity.
Rank == [pass |-> 1, info |-> 2, low |-> 3, medium |-> 4, high |-> 5, critical |-> 6]
Severities == DOMAIN Rank

\* ParseSeverity: the rank of a name, or an error, whose value is 0.
ParseSeverity(name) == IF name \in Severities THEN Rank[name] ELSE 0

\* The catalogue, by component.  The rules that no check makes use of are in
\* Retired.
DelegationRules ==
    [ Lame |-> "high", MissingGlue |-> "medium", InconsistentNS |-> "high",
      NonAuthNS |-> "medium" ]
AuthServerRules ==
    [ AuthUDPFail |-> "high", AuthTCPFail |-> "medium", AuthNoAA |-> "high",
      AuthNoSOA |-> "medium", AuthNoNS |-> "low", AuthNoEDNS |-> "info",
      AuthInconsistent |-> "medium" ]
SOARules ==
    [ SOAInvalidMNAME |-> "medium", SOAInvalidRNAME |-> "medium",
      SOASerialFormat |-> "low", SOASchedule |-> "low", SOANegativeTTL |-> "info" ]
AXFRRules == [ AXFRAllowed |-> "critical", AXFRRefused |-> "pass", AXFRFailed |-> "info" ]
DNSSECRules ==
    [ NoDNSKEY |-> "high", NoRRSIG |-> "medium", SignExpired |-> "high",
      SignNotYet |-> "medium", DeprecatedAlgo |-> "low", BrokenChain |-> "high",
      NoDS |-> "medium", NoNSEC |-> "low", MalformedNSEC3 |-> "medium",
      InvalidSig |-> "high", Valid |-> "pass" ]
TTLRules == [ TTLShort |-> "info", TTLExtreme |-> "low" ]
\* caa.Check reports a malformed tag under the rule CAACriticalUnknown too,
\* but WithSeverity(low); CAABadValue stands for that use of it.
CAARules == [ CAACriticalUnknown |-> "medium", CAABadValue |-> "low" ]
CNAMERules == [ CNAMELoop |-> "high", CNAMEChainLong |-> "medium", CNAMEDangling |-> "high" ]
AddressRules ==
    [ AddrPrivate |-> "medium", AddrLoopback |-> "medium", AddrLocal |-> "low",
      AddrReserved |-> "low", AddrDocumentation |-> "low" ]
GeneralRules ==
    [ WildcardPresent |-> "info", RecursionOpen |-> "high", GeneralError |-> "high" ]
Retired ==
    [ DelegMissing |-> "high", DelegStaleGlue |-> "medium", DelegUnreachable |-> "medium",
      DelegInconsistentAnswer |-> "low", CAAMalformed |-> "low",
      CNAMECoexist |-> "medium", TransportTimeout |-> "medium" ]

\* register adds a rule to the map, and panics if it is there already: no two
\* tables have a rule in common.
And(table, others) ==
    [id \in (DOMAIN table) \cup (DOMAIN others) |->
        IF id \in DOMAIN table THEN table[id] ELSE others[id]]
Catalog ==
    And(GeneralRules, And(DelegationRules, And(AuthServerRules, And(SOARules,
    And(AXFRRules, And(DNSSECRules, And(TTLRules, And(CAARules,
    And(CNAMERules, And(AddressRules, Retired))))))))))

\* Rule.New: a finding of rule id about subject.
F(id, subject) == [id |-> id, subject |-> subject]
Severity(f) == Catalog[f.id]
=============================================================================
