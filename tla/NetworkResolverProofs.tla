----------------------- MODULE NetworkResolverProofs ------------------------
(***************************************************************************)
(* Proofs about NetworkResolver for every finite set of callers and every  *)
(* integer configuration: the inductive invariant, the safety properties   *)
(* that follow from it, and the implementation of QueryBudget.             *)
(***************************************************************************)
EXTENDS NetworkResolver, FiniteSetTheorems, TLAPS

\* Places in which an exchange of the caller exists.
OnWire == {"select", "drain", "await"}

\* The part of the inductive invariant about one caller: an exchange exists
\* exactly in the places that wait for one, and the two histories are
\* determined, or bounded, by the place, the attempt and the transport.
WireOK(c) == (wire[c] = "none") <=> (pc[c] \notin OnWire)

SendsOK(c) ==
    /\ pc[c] \in {"rate", "acquire", "transfer"} => sends[c] = 0
    /\ pc[c] \notin {"send", "select", "drain"} => attempt[c] = 0 /\ net[c] = "udp"
    /\ pc[c] = "send" =>
         sends[c] = 2 * attempt[c] + (IF net[c] = "udp" THEN 0 ELSE 1)
    /\ pc[c] \in {"select", "drain"} =>
         sends[c] = 2 * attempt[c] + (IF net[c] = "udp" THEN 1 ELSE 2)
    /\ pc[c] = "await" => sends[c] = 1

LateOK(c) ==
    /\ late[c] > 0 => ctxDone[c] = TRUE
    /\ late[c] <= 2
    /\ pc[c] \in {"rate", "acquire", "transfer"} => late[c] = 0
    /\ pc[c] = "send" => late[c] <= (IF net[c] = "udp" THEN 1 ELSE 0)
    /\ pc[c] \in {"select", "drain"} => late[c] <= (IF net[c] = "udp" THEN 2 ELSE 1)

CauseOK(c) ==
    result[c] = "DeadlineExceeded" =>
        /\ pc[c] = "idle"
        /\ \/ ctxDone[c] = TRUE
           \/ sends[c] = 0 /\ remaining = 0
           \/ sends[c] = PerCall

CallerOK == \A c \in Callers : WireOK(c) /\ SendsOK(c) /\ LateOK(c) /\ CauseOK(c)

IInv == TypeOK /\ SlotsMatchHolders /\ CallerOK

-----------------------------------------------------------------------------
(* The configuration *)

\* Whatever integers are configured, NewNetwork ends up with positive limits,
\* and normalising them a second time in the constructors changes nothing.
LEMMA ConfigFacts ==
    /\ bud.MaxQueries \in Nat \ {0}
    /\ NewCounter(bud.MaxQueries) = bud.MaxQueries
    /\ bud.MaxConcurrency = width
    /\ width \in Nat \ {0}
    /\ max \in Nat \ {0}
    /\ retries \in Nat
    /\ PerCall = 2 * retries + 2
  BY ConfigAssumption
  DEF bud, Validated, OrDefault, NewCounter, NewRateLimiter, NewSemaphore,
      max, width, retries, PerCall

\* RateLimiter.Wait lets every caller through in its first pass.
LEMMA AlwaysGranted ==
    /\ Granted(tokens, max) = TRUE
    /\ AfterPass(tokens, max) = max - 1
  BY ConfigFacts DEF Granted, AfterPass, Refill

-----------------------------------------------------------------------------
(* The inductive invariant *)

\* It holds in the state that NewNetwork builds.
LEMMA InitIInv == Init => IInv
  <1> SUFFICES ASSUME Init PROVE IInv
    OBVIOUS
  <1>1. TypeOK
    BY ConfigFacts DEF Init, TypeOK, Places, Ops, Results
  <1>2. SlotsMatchHolders
    <2>1. Holders = {}
      BY DEF Init, Holders
    <2> QED
      BY <2>1, FS_EmptySet DEF Init, SlotsMatchHolders
  <1>3. CallerOK
    BY ConfigFacts
    DEF Init, CallerOK, WireOK, SendsOK, LateOK, CauseOK, OnWire
  <1> QED
    BY <1>1, <1>2, <1>3 DEF IInv

\* The set of holders is finite, and adding or removing one caller changes
\* its cardinality by one.
LEMMA HoldersFinite ==
    /\ IsFiniteSet(Holders)
    /\ Cardinality(Holders) \in Nat
  BY CallersAssumption, FS_Subset, FS_CardinalityType DEF Holders

\* A step of one caller that leaves its being a holder as it was, and all
\* others where they were, leaves the set of holders alone.
LEMMA HoldersSame ==
    ASSUME TypeOK, NEW c \in Callers, NEW place \in Places,
           pc' = [pc EXCEPT ![c] = place],
           (pc[c] \in {"idle", "rate", "acquire"})
             <=> (place \in {"idle", "rate", "acquire"})
    PROVE  Holders' = Holders
  BY DEF TypeOK, Holders, Places

\* A caller that acquires a slot joins the holders.
LEMMA HoldersGain ==
    ASSUME TypeOK, NEW c \in Callers, NEW place \in Places,
           pc' = [pc EXCEPT ![c] = place],
           pc[c] \in {"idle", "rate", "acquire"},
           place \notin {"idle", "rate", "acquire"}
    PROVE  /\ Holders' = Holders \cup {c}
           /\ Cardinality(Holders') = Cardinality(Holders) + 1
  <1>1. Holders' = Holders \cup {c} /\ c \notin Holders
    BY DEF TypeOK, Holders, Places
  <1> QED
    BY <1>1, HoldersFinite, FS_AddElement

\* A caller that returns leaves them.
LEMMA HoldersLose ==
    ASSUME TypeOK, NEW c \in Callers, c \in Holders,
           pc' = [pc EXCEPT ![c] = "idle"]
    PROVE  /\ Holders' = Holders \ {c}
           /\ Cardinality(Holders') = Cardinality(Holders) - 1
  <1>1. Holders' = Holders \ {c}
    BY DEF TypeOK, Holders, Places
  <1> QED
    BY <1>1, HoldersFinite, FS_RemoveElement

\* Retrying over the other transport keeps the caller's slot; returning
\* gives it back.  Both ends of an exchange lead here.
LEMMA AfterSendStep ==
    ASSUME IInv, NEW c \in Callers, NEW ok \in BOOLEAN,
           pc[c] \in {"select", "drain"}, AfterSend(c, ok)
    PROVE  IInv'
  <1> USE ConfigFacts
  <1>0. TypeOK /\ SlotsMatchHolders /\ CallerOK /\ c \in Holders
    BY DEF IInv, Holders
  <1>1. CASE \E res \in {"ok", "DeadlineExceeded"} :
               /\ Return(c, res)
               /\ res = "ok" \/ ctxDone[c] = TRUE
                    \/ (net[c] = "tcp" /\ attempt[c] >= retries)
    <2>1. PICK res \in {"ok", "DeadlineExceeded"} :
               /\ Return(c, res)
               /\ res = "ok" \/ ctxDone[c] = TRUE
                    \/ (net[c] = "tcp" /\ attempt[c] >= retries)
      BY <1>1
    <2>2. TypeOK'
      BY <1>0, <2>1 DEF AfterSend, Continue, Return, TypeOK, Places, Results
    <2>3. SlotsMatchHolders'
      BY <1>0, <2>1, HoldersLose, HoldersFinite DEF Return, SlotsMatchHolders
    <2>4. CallerOK'
      <3>1. res = "ok" \/ ctxDone[c] = TRUE \/ sends[c] = PerCall
        BY <1>0, <2>1 DEF CallerOK, SendsOK, TypeOK
      <3>2. UNCHANGED <<remaining, ctxDone, sends, late>> /\ wire' = [wire EXCEPT ![c] = "none"]
        BY DEF AfterSend, Continue
      <3> QED
        BY <1>0, <2>1, <3>1, <3>2
        DEF Return, CallerOK, WireOK, SendsOK, LateOK, CauseOK, OnWire, TypeOK
    <2> QED
      BY <2>2, <2>3, <2>4 DEF IInv
  <1>2. CASE /\ pc' = [pc EXCEPT ![c] = "send"]
             /\ net' = [net EXCEPT ![c] = IF @ = "udp" THEN "tcp" ELSE "udp"]
             /\ attempt' = [attempt EXCEPT ![c] = IF net[c] = "udp" THEN @ ELSE @ + 1]
             /\ UNCHANGED <<slots, result>>
             /\ net[c] = "udp" => ctxDone[c] = FALSE
             /\ net[c] = "tcp" => attempt[c] < retries
    <2>1. TypeOK'
      BY <1>0, <1>2 DEF AfterSend, Continue, TypeOK, Places
    <2>2. SlotsMatchHolders'
      BY <1>0, <1>2, HoldersSame DEF SlotsMatchHolders, Places
    <2>3. CallerOK'
      BY <1>0, <1>2
      DEF AfterSend, Continue, CallerOK, WireOK, SendsOK, LateOK, CauseOK,
          OnWire, TypeOK
    <2> QED
      BY <2>1, <2>2, <2>3 DEF IInv
  <1>3. CASE ok
    BY <1>1, <1>3 DEF AfterSend, Continue
  <1>4. CASE ~ok /\ net[c] = "udp" /\ ctxDone[c]
    BY <1>0, <1>1, <1>4 DEF AfterSend, Continue, TypeOK
  <1>5. CASE ~ok /\ net[c] = "tcp" /\ attempt[c] >= retries
    BY <1>0, <1>1, <1>5 DEF AfterSend, Continue, TypeOK
  <1>6. CASE /\ ~ok
             /\ ~(net[c] = "udp" /\ ctxDone[c])
             /\ ~(net[c] = "tcp" /\ attempt[c] >= retries)
    <2>1. net[c] = "udp" => ctxDone[c] = FALSE
      BY <1>0, <1>6 DEF TypeOK
    <2>2. net[c] = "tcp" => attempt[c] < retries
      BY <1>0, <1>6 DEF TypeOK
    <2>3. /\ pc' = [pc EXCEPT ![c] = "send"]
          /\ net' = [net EXCEPT ![c] = IF @ = "udp" THEN "tcp" ELSE "udp"]
          /\ attempt' = [attempt EXCEPT ![c] = IF net[c] = "udp" THEN @ ELSE @ + 1]
          /\ UNCHANGED <<slots, result>>
      BY <1>6 DEF AfterSend, Continue
    <2> QED
      BY <1>2, <2>1, <2>2, <2>3
  <1> QED
    BY <1>3, <1>4, <1>5, <1>6

\* Every step preserves it.
LEMMA StepIInv == IInv /\ [Next]_vars => IInv'
  <1> SUFFICES ASSUME IInv, [Next]_vars PROVE IInv'
    OBVIOUS
  <1> USE ConfigFacts
  <1>0. TypeOK /\ SlotsMatchHolders /\ CallerOK
    BY DEF IInv
  <1>1. ASSUME NEW c \in Callers, NEW kind \in Ops, NEW done \in BOOLEAN, Consume(c, kind, done)
        PROVE  IInv'
    <2>1. TypeOK'
      BY <1>1, <1>0 DEF Consume, Call, TypeOK, Places, Ops, Results
    <2>2. SlotsMatchHolders'
      BY <1>1, <1>0, HoldersSame DEF Consume, Call, SlotsMatchHolders, Places
    <2>3. CallerOK'
      BY <1>1, <1>0
      DEF Consume, Call, CallerOK, WireOK, SendsOK, LateOK, CauseOK, OnWire, TypeOK
    <2> QED
      BY <2>1, <2>2, <2>3 DEF IInv
  <1>2. ASSUME NEW c \in Callers, NEW kind \in Ops, NEW done \in BOOLEAN, Exhausted(c, kind, done)
        PROVE  IInv'
    <2>1. TypeOK'
      BY <1>2, <1>0 DEF Exhausted, Call, TypeOK, Places, Ops, Results
    <2>2. SlotsMatchHolders'
      BY <1>2, <1>0 DEF Exhausted, Call, SlotsMatchHolders, Holders
    <2>3. CallerOK'
      BY <1>2, <1>0
      DEF Exhausted, Call, CallerOK, WireOK, SendsOK, LateOK, CauseOK, OnWire, TypeOK
    <2> QED
      BY <2>1, <2>2, <2>3 DEF IInv
  <1>3. ASSUME NEW c \in Callers, RateWait(c) PROVE IInv'
    <2>1. TypeOK'
      BY <1>3, <1>0, AlwaysGranted DEF RateWait, TypeOK, Places, Ops, Results
    <2>2. SlotsMatchHolders'
      BY <1>3, <1>0, HoldersSame, AlwaysGranted DEF RateWait, SlotsMatchHolders, Places
    <2>3. CallerOK'
      BY <1>3, <1>0, AlwaysGranted
      DEF RateWait, CallerOK, WireOK, SendsOK, LateOK, CauseOK, OnWire, TypeOK
    <2> QED
      BY <2>1, <2>2, <2>3 DEF IInv
  <1>4. ASSUME NEW c \in Callers, Acquire(c) PROVE IInv'
    <2>1. TypeOK'
      BY <1>4, <1>0 DEF Acquire, TypeOK, Places, Ops, Results
    <2>2. SlotsMatchHolders'
      BY <1>4, <1>0, HoldersGain, HoldersFinite DEF Acquire, SlotsMatchHolders, Places
    <2>3. CallerOK'
      BY <1>4, <1>0
      DEF Acquire, CallerOK, WireOK, SendsOK, LateOK, CauseOK, OnWire, TypeOK
    <2> QED
      BY <2>1, <2>2, <2>3 DEF IInv
  <1>5. ASSUME NEW c \in Callers, AcquireCancelled(c) PROVE IInv'
    <2>1. TypeOK'
      BY <1>5, <1>0 DEF AcquireCancelled, SpendFails, TypeOK, Places, Ops, Results
    <2>2. SlotsMatchHolders'
      BY <1>5, <1>0, HoldersSame DEF AcquireCancelled, SpendFails, SlotsMatchHolders, Places
    <2>3. CallerOK'
      BY <1>5, <1>0
      DEF AcquireCancelled, SpendFails, CallerOK, WireOK, SendsOK, LateOK, CauseOK, OnWire, TypeOK
    <2> QED
      BY <2>1, <2>2, <2>3 DEF IInv
  <1>6. ASSUME NEW c \in Callers, StartSend(c) PROVE IInv'
    <2>1. TypeOK'
      BY <1>6, <1>0 DEF StartSend, Dial, TypeOK, Places, Ops, Results, CallerOK, SendsOK
    <2>2. SlotsMatchHolders'
      BY <1>6, <1>0, HoldersSame DEF StartSend, Dial, SlotsMatchHolders, Places
    <2>3. CallerOK'
      BY <1>6, <1>0
      DEF StartSend, Dial, CallerOK, WireOK, SendsOK, LateOK, CauseOK, OnWire, TypeOK
    <2> QED
      BY <2>1, <2>2, <2>3 DEF IInv
  <1>7. ASSUME NEW c \in Callers, SelectDone(c) PROVE IInv'
    BY <1>7, <1>0, AfterSendStep DEF SelectDone
  <1>8. ASSUME NEW c \in Callers, SelectCtx(c) PROVE IInv'
    <2>1. TypeOK'
      BY <1>8, <1>0 DEF SelectCtx, TypeOK, Places, Ops, Results
    <2>2. SlotsMatchHolders'
      BY <1>8, <1>0, HoldersSame DEF SelectCtx, SlotsMatchHolders, Places
    <2>3. CallerOK'
      BY <1>8, <1>0
      DEF SelectCtx, CallerOK, WireOK, SendsOK, LateOK, CauseOK, OnWire, TypeOK
    <2> QED
      BY <2>1, <2>2, <2>3 DEF IInv
  <1>9. ASSUME NEW c \in Callers, Drain(c) PROVE IInv'
    BY <1>9, <1>0, AfterSendStep DEF Drain
  <1>10. ASSUME NEW c \in Callers, StartTransfer(c) PROVE IInv'
    <2>1. TypeOK'
      BY <1>10, <1>0 DEF StartTransfer, Dial, TypeOK, Places, Ops, Results, CallerOK, SendsOK
    <2>2. SlotsMatchHolders'
      BY <1>10, <1>0, HoldersSame DEF StartTransfer, Dial, SlotsMatchHolders, Places
    <2>3. CallerOK'
      BY <1>10, <1>0
      DEF StartTransfer, Dial, CallerOK, WireOK, SendsOK, LateOK, CauseOK, OnWire, TypeOK
    <2> QED
      BY <2>1, <2>2, <2>3 DEF IInv
  <1>11. ASSUME NEW c \in Callers, FinishTransfer(c) PROVE IInv'
    <2>1. TypeOK'
      BY <1>11, <1>0 DEF FinishTransfer, Return, TypeOK, Places, Ops, Results
    <2>2. SlotsMatchHolders'
      BY <1>11, <1>0, HoldersLose, HoldersFinite DEF FinishTransfer, Return, SlotsMatchHolders, Holders
    <2>3. CallerOK'
      BY <1>11, <1>0
      DEF FinishTransfer, Return, CallerOK, WireOK, SendsOK, LateOK, CauseOK, OnWire, TypeOK
    <2> QED
      BY <2>1, <2>2, <2>3 DEF IInv
  <1>12. ASSUME NEW c \in Callers, ExchangeReturns(c) PROVE IInv'
    <2>1. TypeOK'
      BY <1>12, <1>0 DEF ExchangeReturns, TypeOK, Places, Ops, Results
    <2>2. SlotsMatchHolders'
      BY <1>12, <1>0 DEF ExchangeReturns, SlotsMatchHolders, Holders
    <2>3. CallerOK'
      BY <1>12, <1>0
      DEF ExchangeReturns, CallerOK, WireOK, SendsOK, LateOK, CauseOK, OnWire, TypeOK
    <2> QED
      BY <2>1, <2>2, <2>3 DEF IInv
  <1>13. ASSUME NEW c \in Callers, Expire(c) PROVE IInv'
    <2>1. TypeOK'
      BY <1>13, <1>0 DEF Expire, TypeOK, Places, Ops, Results
    <2>2. SlotsMatchHolders'
      BY <1>13, <1>0 DEF Expire, SlotsMatchHolders, Holders
    <2>3. CallerOK'
      BY <1>13, <1>0
      DEF Expire, CallerOK, WireOK, SendsOK, LateOK, CauseOK, OnWire, TypeOK
    <2> QED
      BY <2>1, <2>2, <2>3 DEF IInv
  <1>14. ASSUME NEW c \in Callers, CtxDone(c) PROVE IInv'
    <2>1. TypeOK'
      BY <1>14, <1>0 DEF CtxDone, TypeOK, Places, Ops, Results
    <2>2. SlotsMatchHolders'
      BY <1>14, <1>0 DEF CtxDone, SlotsMatchHolders, Holders
    <2>3. CallerOK'
      BY <1>14, <1>0
      DEF CtxDone, CallerOK, WireOK, SendsOK, LateOK, CauseOK, OnWire, TypeOK
    <2> QED
      BY <2>1, <2>2, <2>3 DEF IInv
  <1>15. CASE UNCHANGED vars
    BY <1>15, <1>0
    DEF vars, IInv, SlotsMatchHolders, Holders, CallerOK, WireOK, SendsOK, LateOK, CauseOK, OnWire, TypeOK, Places, Ops, Results
  <1> QED
    BY <1>1, <1>2, <1>3, <1>4, <1>5, <1>6, <1>7,
       <1>8, <1>9, <1>10, <1>11, <1>12, <1>13, <1>14, <1>15 DEF Next

-----------------------------------------------------------------------------
(* Theorems *)

\* The inductive invariant holds in every reachable state.
THEOREM Invariance == Spec => []IInv
  BY InitIInv, StepIInv, PTL DEF Spec

\* Type correctness: in particular Counter.remaining never drops below zero
\* and no call ever starts more exchanges than PerCall.
THEOREM TypeCorrect == Spec => []TypeOK
  <1>1. IInv => TypeOK
    BY DEF IInv
  <1> QED
    BY <1>1, Invariance, PTL

\* The semaphore's channel holds one token per call past Acquire.
THEOREM SlotsCorrect == Spec => []SlotsMatchHolders
  <1>1. IInv => SlotsMatchHolders
    BY DEF IInv
  <1> QED
    BY <1>1, Invariance, PTL

\* Exchanges that run at once never exceed the configured concurrency.
THEOREM ConcurrencyBounded == Spec => []WireConcurrency
  <1>1. IInv => WireConcurrency
    <2> SUFFICES ASSUME IInv PROVE WireConcurrency
      OBVIOUS
    <2> DEFINE Running == {c \in Callers : wire[c] = "running"}
    <2>1. Running \subseteq Holders
      BY DEF IInv, CallerOK, WireOK, OnWire, Holders, TypeOK
    <2>2. Cardinality(Running) <= Cardinality(Holders)
      BY <2>1, HoldersFinite, FS_Subset
    <2>3. Cardinality(Running) \in Nat
      BY <2>1, HoldersFinite, FS_Subset, FS_CardinalityType
    <2>4. Cardinality(Holders) <= width /\ width = bud.MaxConcurrency
      BY ConfigFacts DEF IInv, TypeOK, SlotsMatchHolders
    <2> QED
      BY <2>2, <2>3, <2>4, HoldersFinite, ConfigFacts DEF WireConcurrency
  <1> QED
    BY <1>1, Invariance, PTL

\* A call whose context is live fails only for a spent budget, before it sends
\* anything, or after all attempts over both transports.
THEOREM TimeoutAfterAllAttempts == Spec => []FullRetry
  <1>1. IInv => FullRetry
    BY DEF IInv, CallerOK, CauseOK, FullRetry
  <1> QED
    BY <1>1, Invariance, PTL

\* A call whose context is done starts at most two more exchanges.
THEOREM CancellationIsPrompt == Spec => []CancelledStops
  <1>1. IInv => CancelledStops
    BY DEF IInv, CallerOK, LateOK, CancelledStops
  <1> QED
    BY <1>1, Invariance, PTL

-----------------------------------------------------------------------------
(* The traffic is bounded by the budget. *)

\* The exchanges that the calls under way may still start.  What was sent and
\* what may still be sent is paid for: a sum over the callers, as a set.
Unsent == {x \in Callers \X (1..PerCall) : pc[x[1]] # "idle" /\ sends[x[1]] < x[2]}
CreditInv == sent + Cardinality(Unsent) <= PerCall * (bud.MaxQueries - remaining)

\* There are finitely many of them.
LEMMA UnsentFinite == IsFiniteSet(Unsent) /\ Cardinality(Unsent) \in Nat
  <1>1. PerCall \in Int
    BY ConfigFacts
  <1>2. IsFiniteSet(Callers \X (1..PerCall))
    <2>1. IsFiniteSet(1..PerCall)
      BY <1>1, FS_Interval
    <2> QED
      BY <2>1, CallersAssumption, FS_Product
  <1> QED
    BY <1>2, FS_Subset, FS_CardinalityType DEF Unsent

\* A step that sends nothing and takes no unit loses at most what its caller
\* could have sent.
LEMMA CreditKept ==
    ASSUME TypeOK, CreditInv, UNCHANGED <<sent, remaining>>, Unsent' \subseteq Unsent
    PROVE  CreditInv'
  <1>1. Cardinality(Unsent') <= Cardinality(Unsent) /\ Cardinality(Unsent') \in Nat
    BY UnsentFinite, FS_Subset, FS_CardinalityType
  <1>2. sent \in Nat /\ PerCall * (bud.MaxQueries - remaining) \in Int
    BY ConfigFacts DEF TypeOK
  <1> QED
    BY <1>1, <1>2, UnsentFinite DEF CreditInv, bud, PerCall, retries

\* A call that has paid may start PerCall exchanges.
LEMMA CreditConsume ==
    ASSUME TypeOK, CreditInv,
           NEW c \in Callers, NEW kind \in Ops, NEW done \in BOOLEAN, Consume(c, kind, done)
    PROVE  CreditInv'
  <1> DEFINE own == {c} \X (1..PerCall)
  <1>0. PerCall \in Nat /\ bud.MaxQueries \in Nat /\ remaining \in Nat /\ sent \in Nat
    BY ConfigFacts DEF TypeOK
  <1>1. IsFiniteSet(own) /\ Cardinality(own) = PerCall
    <2>1. IsFiniteSet(1..PerCall) /\ Cardinality(1..PerCall) = PerCall
      BY <1>0, FS_Interval
    <2>2. IsFiniteSet({c}) /\ Cardinality({c}) = 1
      BY FS_Singleton
    <2>3. IsFiniteSet(own) /\ Cardinality(own) = 1 * PerCall
      BY <2>1, <2>2, FS_Product
    <2> QED
      BY <1>0, <2>3
  <1>2. /\ pc[c] = "idle" /\ pc' = [pc EXCEPT ![c] = "rate"] /\ sends' = [sends EXCEPT ![c] = 0]
        /\ remaining' = remaining - 1 /\ UNCHANGED sent
    BY DEF Consume, Call
  <1>3. Unsent' = Unsent \cup own
    BY <1>0, <1>2 DEF TypeOK, Unsent
  <1>4. Unsent \cap own = {}
    BY <1>2 DEF Unsent
  <1>5. Cardinality(Unsent \cap own) = 0
    BY <1>4, FS_EmptySet
  <1> HIDE DEF own
  <1>6. Cardinality(Unsent') = Cardinality(Unsent) + PerCall
    <2>1. Cardinality(Unsent \cup own) =
             Cardinality(Unsent) + Cardinality(own) - Cardinality(Unsent \cap own)
      BY <1>1, UnsentFinite, FS_Union
    <2> QED
      BY <1>0, <1>1, <1>3, <1>5, <2>1, UnsentFinite
  <1>7. PerCall * (bud.MaxQueries - (remaining - 1)) = PerCall * (bud.MaxQueries - remaining) + PerCall
    BY <1>0
  <1>8. PerCall * (bud.MaxQueries - remaining) \in Int
    BY <1>0
  <1> QED
    BY <1>0, <1>2, <1>6, <1>7, <1>8, UnsentFinite DEF CreditInv, bud, PerCall, retries

\* An exchange that is started was paid for.
LEMMA CreditDial ==
    ASSUME IInv, CreditInv, NEW c \in Callers, StartSend(c) \/ StartTransfer(c)
    PROVE  CreditInv'
  <1> DEFINE this == <<c, sends[c] + 1>>
  <1>0. /\ PerCall \in Nat /\ bud.MaxQueries \in Nat /\ remaining \in Nat /\ sent \in Nat
        /\ sends[c] \in Nat /\ TypeOK
    BY ConfigFacts DEF IInv, TypeOK
  <1>1. sends[c] + 1 \in 1..PerCall
    BY <1>0, ConfigFacts DEF IInv, CallerOK, SendsOK, StartSend, StartTransfer, TypeOK
  <1>2. /\ pc[c] # "idle" /\ pc'[c] # "idle"
        /\ \A b \in Callers \ {c} : pc'[b] = pc[b] /\ sends'[b] = sends[b]
        /\ sends'[c] = sends[c] + 1 /\ sent' = sent + 1 /\ UNCHANGED remaining
    BY <1>0 DEF StartSend, StartTransfer, Dial, TypeOK
  <1>3. this \in Unsent
    BY <1>0, <1>1, <1>2 DEF Unsent
  <1>4. ASSUME NEW b \in Callers, NEW k \in 1..PerCall
        PROVE  <<b, k>> \in Unsent' <=> <<b, k>> \in Unsent /\ <<b, k>> # this
    BY <1>0, <1>2 DEF Unsent
  <1>5. Unsent' = Unsent \ {this}
    BY <1>4 DEF Unsent
  <1> HIDE DEF this
  <1>6. Cardinality(Unsent') = Cardinality(Unsent) - 1
    BY <1>3, <1>5, UnsentFinite, FS_RemoveElement
  <1>7. PerCall * (bud.MaxQueries - remaining) \in Int
    BY <1>0
  <1> QED
    BY <1>0, <1>2, <1>6, <1>7, UnsentFinite DEF CreditInv, bud, PerCall, retries

\* Every step keeps what was sent and may be sent within what was paid for.
LEMMA StepCredit ==
    ASSUME IInv, CreditInv, [Next]_vars
    PROVE  CreditInv'
  <1>0. TypeOK
    BY DEF IInv
  <1>1. ASSUME NEW c \in Callers, NEW kind \in Ops, NEW done \in BOOLEAN, Consume(c, kind, done)
        PROVE  CreditInv'
    BY <1>0, <1>1, CreditConsume
  <1>2. ASSUME NEW c \in Callers, NEW kind \in Ops, NEW done \in BOOLEAN, Exhausted(c, kind, done)
        PROVE  CreditInv'
    <2>1. UNCHANGED <<sent, remaining, pc>> /\ pc[c] = "idle" /\ sends' = [sends EXCEPT ![c] = 0]
      BY <1>2 DEF Exhausted, Call
    <2>2. Unsent' \subseteq Unsent
      BY <1>0, <2>1 DEF Unsent, TypeOK
    <2> QED
      BY <1>0, <2>1, <2>2, CreditKept
  <1>3. ASSUME NEW c \in Callers, StartSend(c) \/ StartTransfer(c) PROVE CreditInv'
    BY <1>3, CreditDial
  <1>4. ASSUME NEW c \in Callers,
               \/ RateWait(c) \/ Acquire(c) \/ AcquireCancelled(c) \/ SelectDone(c)
               \/ SelectCtx(c) \/ Drain(c) \/ FinishTransfer(c)
               \/ ExchangeReturns(c) \/ Expire(c) \/ CtxDone(c)
        PROVE  CreditInv'
    <2>1. /\ UNCHANGED <<sent, remaining, sends>>
          /\ \A b \in Callers : pc'[b] # "idle" => pc[b] # "idle"
      <3>1. CASE SelectDone(c) \/ Drain(c)
        BY <1>0, <3>1 DEF SelectDone, Drain, AfterSend, Continue, Return, TypeOK
      <3>2. CASE RateWait(c) \/ Acquire(c) \/ AcquireCancelled(c)
        BY <1>0, <3>2 DEF RateWait, Acquire, AcquireCancelled, SpendFails, TypeOK
      <3>3. CASE SelectCtx(c) \/ FinishTransfer(c) \/ ExchangeReturns(c) \/ Expire(c) \/ CtxDone(c)
        BY <1>0, <3>3 DEF SelectCtx, FinishTransfer, Return, ExchangeReturns, Expire, CtxDone, TypeOK
      <3> QED
        BY <1>4, <3>1, <3>2, <3>3
    <2>2. Unsent' \subseteq Unsent
      BY <2>1 DEF Unsent
    <2> QED
      BY <1>0, <2>1, <2>2, CreditKept
  <1>5. CASE UNCHANGED vars
    BY <1>0, <1>5, CreditKept DEF vars, Unsent
  <1> QED
    BY <1>1, <1>2, <1>3, <1>4, <1>5 DEF Next

\* However many callers there are and whatever fails, a run starts no more
\* than PerCall exchanges per unit of the budget that it has used.
THEOREM TrafficBounded == Spec => []OutboundBound
  <1>1. Init => CreditInv
    <2> SUFFICES ASSUME Init PROVE CreditInv
      OBVIOUS
    <2>1. Unsent = {}
      BY DEF Init, Unsent
    <2>2. Cardinality(Unsent) = 0
      BY <2>1, FS_EmptySet
    <2>3. bud.MaxQueries - remaining = 0 /\ PerCall \in Nat /\ sent = 0
      BY ConfigFacts DEF Init
    <2> QED
      BY <2>2, <2>3 DEF CreditInv
  <1>2. IInv /\ CreditInv => OutboundBound
    <2> SUFFICES ASSUME IInv, CreditInv PROVE OutboundBound
      OBVIOUS
    <2>1. sent \in Nat /\ PerCall * (bud.MaxQueries - remaining) \in Int
      BY ConfigFacts DEF IInv, TypeOK
    <2> QED
      BY <2>1, UnsentFinite DEF CreditInv, OutboundBound
  <1>3. IInv /\ CreditInv /\ [Next]_vars => CreditInv'
    BY StepCredit
  <1> QED
    BY <1>1, <1>2, <1>3, Invariance, PTL DEF Spec

-----------------------------------------------------------------------------
(* The resolver implements the abstract budget. *)

\* The initial states map to initial states of the abstract budget.
LEMMA InitRefines == Init => QB!Init
  BY ConfigFacts DEF Init, QB!Init, Paying, Holders

\* How the set of paying callers moves with one caller's place.
LEMMA PayingSame ==
    ASSUME TypeOK, NEW c \in Callers, NEW place \in Places,
           pc' = [pc EXCEPT ![c] = place],
           (pc[c] \in {"rate", "acquire"}) <=> (place \in {"rate", "acquire"})
    PROVE  Paying' = Paying
  BY DEF TypeOK, Paying, Places

\* The end of an exchange finishes the call or is a stutter.
LEMMA AfterSendRefines ==
    ASSUME IInv, NEW c \in Callers, NEW ok \in BOOLEAN,
           pc[c] \in {"select", "drain"}, AfterSend(c, ok)
    PROVE  QB!Finish(c) \/ UNCHANGED QB!vars
  <1>0. TypeOK /\ c \in Holders
    BY DEF IInv, Holders
  <1>1. UNCHANGED remaining
    BY DEF AfterSend, Continue
  <1>2. CASE pc' = [pc EXCEPT ![c] = "idle"]
    <2>1. Holders' = Holders \ {c}
      BY <1>0, <1>2, HoldersLose
    <2>2. Paying' = Paying
      BY <1>0, <1>2, PayingSame DEF Places
    <2> QED
      BY <1>0, <1>1, <2>1, <2>2 DEF QB!Finish
  <1>3. CASE pc' = [pc EXCEPT ![c] = "send"]
    <2>1. Holders' = Holders
      BY <1>0, <1>3, HoldersSame DEF Places
    <2>2. Paying' = Paying
      BY <1>0, <1>3, PayingSame DEF Places
    <2> QED
      BY <1>1, <2>1, <2>2 DEF QB!vars
  <1> QED
    BY <1>2, <1>3 DEF AfterSend, Continue, Return

\* Every step maps to a step of the abstract budget or to a stutter.
LEMMA StepRefines == IInv /\ [Next]_vars => [QB!Next]_QB!vars
  <1> SUFFICES ASSUME IInv, [Next]_vars PROVE QB!Next \/ UNCHANGED QB!vars
    BY DEF QB!vars
  <1>0. TypeOK /\ SlotsMatchHolders
    BY DEF IInv
  <1>1. ASSUME NEW c \in Callers, NEW kind \in Ops, NEW done \in BOOLEAN,
               Consume(c, kind, done)
        PROVE  QB!Charge(c)
    <2>1. Paying' = Paying \cup {c} /\ c \notin Paying /\ c \notin Holders
      BY <1>0, <1>1 DEF Consume, Call, Paying, Holders, TypeOK
    <2>2. Holders' = Holders
      BY <1>0, <1>1, HoldersSame DEF Consume, Call, Places
    <2> QED
      BY <1>1, <2>1, <2>2 DEF Consume, QB!Charge
  <1>2. ASSUME NEW c \in Callers, NEW kind \in Ops, NEW done \in BOOLEAN,
               Exhausted(c, kind, done)
        PROVE  UNCHANGED QB!vars
    BY <1>2 DEF Exhausted, QB!vars, Paying, Holders
  <1>3. ASSUME NEW c \in Callers, RateWait(c) PROVE UNCHANGED QB!vars
    <2>1. pc[c] = "rate" /\ pc' = [pc EXCEPT ![c] = "acquire"] /\ UNCHANGED remaining
      BY <1>3, AlwaysGranted DEF RateWait
    <2> QED
      BY <1>0, <2>1, HoldersSame, PayingSame DEF QB!vars, Places
  <1>4. ASSUME NEW c \in Callers, Acquire(c) PROVE QB!Start(c)
    <2>1. Holders' = Holders \cup {c}
      BY <1>0, <1>4, HoldersGain DEF Acquire, Places
    <2>2. Paying' = Paying \ {c} /\ c \in Paying
      BY <1>0, <1>4 DEF Acquire, Paying, TypeOK
    <2>3. Cardinality(Holders) < bud.MaxConcurrency
      BY <1>0, <1>4, ConfigFacts DEF Acquire, SlotsMatchHolders
    <2>4. QB!Cardinality(Holders) = Cardinality(Holders)
      BY Zenon DEF Cardinality, QB!Cardinality
    <2> QED
      BY <1>4, <2>1, <2>2, <2>3, <2>4 DEF Acquire, QB!Start
  <1>5. ASSUME NEW c \in Callers, AcquireCancelled(c) PROVE QB!Abandon(c)
    <2>1. Holders' = Holders
      BY <1>0, <1>5, HoldersSame DEF AcquireCancelled, SpendFails, Places
    <2>2. Paying' = Paying \ {c} /\ c \in Paying
      BY <1>0, <1>5 DEF AcquireCancelled, SpendFails, Paying, TypeOK
    <2> QED
      BY <1>5, <2>1, <2>2 DEF AcquireCancelled, SpendFails, QB!Abandon
  <1>6. ASSUME NEW c \in Callers, StartSend(c) PROVE UNCHANGED QB!vars
    BY <1>0, <1>6, HoldersSame, PayingSame DEF StartSend, Dial, QB!vars, Places
  <1>7. ASSUME NEW c \in Callers, SelectDone(c)
        PROVE  QB!Finish(c) \/ UNCHANGED QB!vars
    BY <1>7, AfterSendRefines DEF SelectDone
  <1>8. ASSUME NEW c \in Callers, SelectCtx(c) PROVE UNCHANGED QB!vars
    BY <1>0, <1>8, HoldersSame, PayingSame DEF SelectCtx, QB!vars, Places
  <1>9. ASSUME NEW c \in Callers, Drain(c)
        PROVE  QB!Finish(c) \/ UNCHANGED QB!vars
    BY <1>9, AfterSendRefines DEF Drain
  <1>10. ASSUME NEW c \in Callers, StartTransfer(c) PROVE UNCHANGED QB!vars
    BY <1>0, <1>10, HoldersSame, PayingSame DEF StartTransfer, Dial, QB!vars, Places
  <1>11. ASSUME NEW c \in Callers, FinishTransfer(c) PROVE QB!Finish(c)
    <2>1. c \in Holders
      BY <1>11 DEF FinishTransfer, Holders
    <2>2. Holders' = Holders \ {c}
      BY <1>0, <1>11, <2>1, HoldersLose DEF FinishTransfer, Return
    <2>3. Paying' = Paying
      BY <1>0, <1>11, PayingSame DEF FinishTransfer, Return, Places
    <2> QED
      BY <1>11, <2>1, <2>2, <2>3 DEF FinishTransfer, QB!Finish
  <1>12. ASSUME NEW c \in Callers, ExchangeReturns(c) \/ Expire(c) \/ CtxDone(c)
         PROVE  UNCHANGED QB!vars
    BY <1>12 DEF ExchangeReturns, Expire, CtxDone, QB!vars, Paying, Holders
  <1>13. CASE UNCHANGED vars
    BY <1>13 DEF vars, QB!vars, Paying, Holders
  <1> QED
    BY <1>1, <1>2, <1>3, <1>4, <1>5, <1>6, <1>7, <1>8, <1>9, <1>10, <1>11,
       <1>12, <1>13 DEF Next, QB!Next

\* NetworkResolver implements QueryBudget: every call pays one unit before
\* it reaches the network, at most MaxConcurrency are there at once, and no
\* path gives a unit back.
THEOREM Refinement == Spec => ImplementsQueryBudget
  <1>1. Init => QB!Init
    BY InitRefines
  <1>2. IInv /\ [Next]_vars => [QB!Next]_QB!vars
    BY StepRefines
  <1> QED
    BY <1>1, <1>2, Invariance, PTL DEF Spec, ImplementsQueryBudget, QB!Spec
=============================================================================
