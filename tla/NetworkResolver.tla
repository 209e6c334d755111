-------------------------- MODULE NetworkResolver ---------------------------
(***************************************************************************)
(* internal/resolver/network.go with the guards of internal/budget: any    *)
(* number of goroutines call Query and Transfer on one NetworkResolver.    *)
(*                                                                         *)
(* A call runs spend (Counter.Consume, RateLimiter.Wait, Semaphore.Acquire,*)
(* in that order), then its exchanges, then the deferred release.  Query   *)
(* makes a UDP and a TCP exchange per attempt, each in a goroutine of its  *)
(* own that send waits for; Transfer makes one TCP exchange in line.       *)
(*                                                                         *)
(* The address of the server and the contents of a message are left out:   *)
(* no branch of the calls depends on them.  dns.Client.ExchangeContext is  *)
(* external: it runs, and at some later time comes back with a response or *)
(* an error.                                                               *)
(***************************************************************************)
EXTENDS Integers, FiniteSets, Budget

CONSTANTS Callers,          \* goroutines that share the resolver
          MaxQueries,       \* Config.Budget as it was passed in,
          MaxQPS,           \*   before Validated
          MaxConcurrency,
          Retries           \* Config.Retries as it was passed in

ASSUME CallersAssumption == IsFiniteSet(Callers)
ASSUME ConfigAssumption ==
    /\ MaxQueries \in Int
    /\ MaxQPS \in Int
    /\ MaxConcurrency \in Int
    /\ Retries \in Int

VARIABLES remaining,   \* Counter.remaining
          tokens,      \* RateLimiter.tokens
          slots,       \* tokens in the channel of the Semaphore
          pc,          \* where each caller is
          op,          \* which method it called
          attempt,     \* the loop variable of Query
          net,         \* the transport of the current exchange
          ctxDone,     \* the caller's own context is past its deadline
          expired,     \* the timeout of the current send has fired
          wire,        \* the exchange: none, running, or its outcome
          result,      \* what the last call of each caller returned
          sends,       \* history: exchanges the last call started
          late,        \* history: those started when ctxDone already held
          sent         \* history: exchanges started by all calls

vars == <<remaining, tokens, slots, pc, op, attempt, net, ctxDone, expired,
          wire, result, sends, late, sent>>

-----------------------------------------------------------------------------
(* NewNetwork *)

bud == Validated([ MaxQueries |-> MaxQueries, MaxQPS |-> MaxQPS,
                   MaxConcurrency |-> MaxConcurrency ])

\* RateLimiter.max and the capacity of the Semaphore's channel.
max   == NewRateLimiter(bud.MaxQPS)
width == NewSemaphore(bud.MaxConcurrency)

\* The clamp at the head of the loop in Query.
retries == IF Retries < 0 THEN 0 ELSE Retries

\* The most exchanges one call can start: UDP and TCP for every attempt.
PerCall == 2 * (retries + 1)

Ops      == {"query", "transfer"}
\* What a call returns.  A spent budget, a context that is done and attempts
\* that all failed give the same error, context.DeadlineExceeded: the context
\* of the command has a deadline and is not cancelled before its end.
Results  == {"none", "ok", "DeadlineExceeded", "failed"}
\* rate, acquire: inside spend.  send, select, drain: inside send.
\* transfer, await: inside Transfer.
Places   == {"idle", "rate", "acquire", "send", "select", "drain",
             "transfer", "await"}

\* Callers between a successful Consume and the end of Acquire.
Paying  == {c \in Callers : pc[c] \in {"rate", "acquire"}}
\* Callers that own a token of the semaphore.
Holders == {c \in Callers :
              pc[c] \in {"send", "select", "drain", "transfer", "await"}}

Init ==
    /\ remaining = NewCounter(bud.MaxQueries)
    /\ tokens = max
    /\ slots = 0
    /\ pc = [c \in Callers |-> "idle"]
    /\ op = [c \in Callers |-> "query"]
    /\ attempt = [c \in Callers |-> 0]
    /\ net = [c \in Callers |-> "udp"]
    /\ ctxDone = [c \in Callers |-> FALSE]
    /\ expired = [c \in Callers |-> FALSE]
    /\ wire = [c \in Callers |-> "none"]
    /\ result = [c \in Callers |-> "none"]
    /\ sends = [c \in Callers |-> 0]
    /\ late = [c \in Callers |-> 0]
    /\ sent = 0

-----------------------------------------------------------------------------
(* spend *)

\* A caller enters Query or Transfer with a context that is live or done
\* (an audit goes on issuing queries after its deadline).
Call(c, kind, done) ==
    /\ pc[c] = "idle"
    /\ op' = [op EXCEPT ![c] = kind]
    /\ ctxDone' = [ctxDone EXCEPT ![c] = done]
    /\ sends' = [sends EXCEPT ![c] = 0]
    /\ late' = [late EXCEPT ![c] = 0]
    /\ UNCHANGED <<tokens, slots, attempt, net, expired, wire, sent>>

\* Mutant: the check of Consume is dropped.
ConsumeUnchecked(c, kind, done) ==
    /\ Call(c, kind, done)
    /\ remaining' = remaining - 1
    /\ pc' = [pc EXCEPT ![c] = "rate"]
    /\ result' = [result EXCEPT ![c] = "none"]

\* Counter.Consume under its mutex: one unit, if there is one.
Consume(c, kind, done) ==
    /\ Call(c, kind, done)
    /\ remaining > 0
    /\ remaining' = remaining - 1
    /\ pc' = [pc EXCEPT ![c] = "rate"]
    /\ result' = [result EXCEPT ![c] = "none"]

\* Consume reports FALSE: the call returns DeadlineExceeded and touches
\* neither the bucket nor the semaphore.
Exhausted(c, kind, done) ==
    /\ Call(c, kind, done)
    /\ remaining <= 0
    /\ result' = [result EXCEPT ![c] = "DeadlineExceeded"]
    /\ UNCHANGED <<remaining, pc>>

\* Mutant: the release is deferred before spend, so that a call that failed
\* in spend takes the token of another one.
SpendFailsReleasing(c) ==
    /\ pc' = [pc EXCEPT ![c] = "idle"]
    /\ result' = [result EXCEPT ![c] = "DeadlineExceeded"]
    /\ slots' = IF slots > 0 THEN slots - 1 ELSE slots
    /\ UNCHANGED <<remaining, op, attempt, net, ctxDone, expired, wire,
                   sends, late, sent>>

\* A call that fails inside spend: nothing was acquired, so nothing is
\* released; the unit that Consume took is not given back.
SpendFails(c) ==
    /\ pc' = [pc EXCEPT ![c] = "idle"]
    /\ result' = [result EXCEPT ![c] = "DeadlineExceeded"]
    /\ UNCHANGED <<remaining, slots, op, attempt, net, ctxDone, expired, wire,
                   sends, late, sent>>

\* One pass of the loop in RateLimiter.Wait.  Without a token it sleeps and
\* comes back, or gives up if the context is done.
RateWait(c) ==
    /\ pc[c] = "rate"
    /\ tokens' = AfterPass(tokens, max)
    /\ IF Granted(tokens, max)
         THEN /\ pc' = [pc EXCEPT ![c] = "acquire"]
              /\ UNCHANGED <<remaining, slots, op, attempt, net, ctxDone,
                             expired, wire, result, sends, late, sent>>
         ELSE \/ ctxDone[c] /\ SpendFails(c)
              \/ UNCHANGED <<remaining, slots, pc, op, attempt, net, ctxDone,
                             expired, wire, result, sends, late, sent>>

\* Mutant: the channel of the semaphore is one too wide.
AcquireOffByOne(c) ==
    /\ pc[c] = "acquire"
    /\ slots <= width
    /\ slots' = slots + 1
    /\ pc' = [pc EXCEPT ![c] = IF op[c] = "query" THEN "send" ELSE "transfer"]
    /\ UNCHANGED <<remaining, tokens, op, attempt, net, ctxDone, expired, wire,
                   result, sends, late, sent>>

\* Semaphore.Acquire puts a token in the channel when there is room, ...
Acquire(c) ==
    /\ pc[c] = "acquire"
    /\ slots < width
    /\ slots' = slots + 1
    /\ pc' = [pc EXCEPT ![c] = IF op[c] = "query" THEN "send" ELSE "transfer"]
    /\ UNCHANGED <<remaining, tokens, op, attempt, net, ctxDone, expired, wire,
                   result, sends, late, sent>>

\* ... or sees the context done.  With both ready Go picks either.
AcquireCancelled(c) ==
    /\ pc[c] = "acquire"
    /\ ctxDone[c]
    /\ SpendFails(c)
    /\ UNCHANGED tokens

-----------------------------------------------------------------------------
(* Query, send and Transfer *)

\* Mutant: the deferred release is missing.
ReturnKeepingSlot(c, res) ==
    /\ pc' = [pc EXCEPT ![c] = "idle"]
    /\ result' = [result EXCEPT ![c] = res]
    /\ attempt' = [attempt EXCEPT ![c] = 0]
    /\ net' = [net EXCEPT ![c] = "udp"]
    /\ UNCHANGED slots

\* The method returns res and its deferred release takes a token from the
\* channel (it would block on an empty one).
Return(c, res) ==
    /\ slots > 0
    /\ slots' = slots - 1
    /\ pc' = [pc EXCEPT ![c] = "idle"]
    /\ result' = [result EXCEPT ![c] = res]
    /\ attempt' = [attempt EXCEPT ![c] = 0]
    /\ net' = [net EXCEPT ![c] = "udp"]

\* An exchange is put on the wire under a fresh timeout.
Dial(c) ==
    /\ expired' = [expired EXCEPT ![c] = FALSE]
    /\ wire' = [wire EXCEPT ![c] = "running"]
    /\ sends' = [sends EXCEPT ![c] = @ + 1]
    /\ late' = [late EXCEPT ![c] = IF ctxDone[c] THEN @ + 1 ELSE @]
    /\ sent' = sent + 1
    /\ UNCHANGED <<remaining, tokens, slots, op, attempt, net, ctxDone, result>>

StartSend(c) ==
    /\ pc[c] = "send"
    /\ pc' = [pc EXCEPT ![c] = "select"]
    /\ Dial(c)

\* ExchangeContext comes back (external).
ExchangeReturns(c) ==
    /\ wire[c] = "running"
    /\ \E outcome \in {"ok", "err"} : wire' = [wire EXCEPT ![c] = outcome]
    /\ UNCHANGED <<remaining, tokens, slots, pc, op, attempt, net, ctxDone,
                   expired, result, sends, late, sent>>

\* The timeout of send, or of Transfer, fires.
Expire(c) ==
    /\ wire[c] = "running" /\ ~expired[c]
    /\ expired' = [expired EXCEPT ![c] = TRUE]
    /\ UNCHANGED <<remaining, tokens, slots, pc, op, attempt, net, ctxDone,
                   wire, result, sends, late, sent>>

\* What follows an exchange in the loop of Query, where giveUp is the
\* condition of the early return and last that of the end of the loop.
Continue(c, ok, giveUp, last) ==
    /\ wire' = [wire EXCEPT ![c] = "none"]
    /\ expired' = [expired EXCEPT ![c] = FALSE]
    /\ IF ok THEN Return(c, "ok")
       ELSE IF net[c] = "udp" /\ giveUp THEN Return(c, "DeadlineExceeded")
       ELSE IF net[c] = "tcp" /\ last THEN Return(c, "DeadlineExceeded")
       ELSE /\ pc' = [pc EXCEPT ![c] = "send"]
            /\ net' = [net EXCEPT ![c] = IF @ = "udp" THEN "tcp" ELSE "udp"]
            /\ attempt' = [attempt EXCEPT ![c] = IF net[c] = "udp" THEN @ ELSE @ + 1]
            /\ UNCHANGED <<slots, result>>
    /\ UNCHANGED <<remaining, tokens, op, ctxDone, sends, late, sent>>

\* Mutants: the check of ctx.Err() is dropped; the context of the send is
\* looked at instead of the caller's; the loop runs once too often.
AfterSendNoCtxCheck(c, ok) == Continue(c, ok, FALSE, attempt[c] >= retries)
AfterSendTooMany(c, ok) == Continue(c, ok, ctxDone[c], attempt[c] > retries)
AfterSendWrongCtx(c, ok) ==
    Continue(c, ok, expired[c] \/ ctxDone[c], attempt[c] >= retries)

\* The body of the loop in Query after send came back: a UDP answer is the
\* result; a UDP failure is followed by TCP unless the context is done; a
\* TCP failure by the next attempt, as long as there is one.
AfterSend(c, ok) == Continue(c, ok, ctxDone[c], attempt[c] >= retries)

\* The select of send, done branch: the exchange has ended.
SelectDone(c) ==
    /\ pc[c] = "select"
    /\ wire[c] # "running"
    /\ AfterSend(c, wire[c] = "ok")

\* The select of send, ctx branch: the context of the send is done because
\* its timeout fired or its parent is done.
SelectCtx(c) ==
    /\ pc[c] = "select"
    /\ expired[c] \/ ctxDone[c]
    /\ pc' = [pc EXCEPT ![c] = "drain"]
    /\ UNCHANGED <<remaining, tokens, slots, op, attempt, net, ctxDone, expired,
                   wire, result, sends, late, sent>>

\* Mutant: that branch does not wait, and its goroutine is left running.
DrainEarly(c) ==
    /\ pc[c] = "drain"
    /\ Return(c, "DeadlineExceeded")
    /\ UNCHANGED <<remaining, tokens, op, ctxDone, expired, wire, sends, late, sent>>

\* That branch waits for the goroutine before it reports the error.
Drain(c) ==
    /\ pc[c] = "drain"
    /\ wire[c] # "running"
    /\ AfterSend(c, FALSE)

StartTransfer(c) ==
    /\ pc[c] = "transfer"
    /\ pc' = [pc EXCEPT ![c] = "await"]
    /\ Dial(c)

FinishTransfer(c) ==
    /\ pc[c] = "await"
    /\ wire[c] # "running"
    /\ Return(c, IF wire[c] = "ok" THEN "ok" ELSE "failed")
    /\ wire' = [wire EXCEPT ![c] = "none"]
    /\ expired' = [expired EXCEPT ![c] = FALSE]
    /\ UNCHANGED <<remaining, tokens, op, ctxDone, sends, late, sent>>

\* The caller's context runs into its deadline during a call.
CtxDone(c) ==
    /\ pc[c] # "idle" /\ ~ctxDone[c]
    /\ ctxDone' = [ctxDone EXCEPT ![c] = TRUE]
    /\ UNCHANGED <<remaining, tokens, slots, pc, op, attempt, net, expired,
                   wire, result, sends, late, sent>>

-----------------------------------------------------------------------------

\* What a caller inside a call does next without anyone else's doing.
Proceed(c) ==
    \/ RateWait(c) \/ Acquire(c) \/ AcquireCancelled(c)
    \/ StartSend(c) \/ SelectDone(c) \/ SelectCtx(c) \/ Drain(c)
    \/ StartTransfer(c) \/ FinishTransfer(c)

Next ==
    \E c \in Callers :
        \/ \E kind \in Ops, done \in BOOLEAN :
              Consume(c, kind, done) \/ Exhausted(c, kind, done)
        \/ RateWait(c)
        \/ Acquire(c)
        \/ AcquireCancelled(c)
        \/ StartSend(c)
        \/ SelectDone(c)
        \/ SelectCtx(c)
        \/ Drain(c)
        \/ StartTransfer(c)
        \/ FinishTransfer(c)
        \/ ExchangeReturns(c)
        \/ Expire(c)
        \/ CtxDone(c)

Spec == Init /\ [][Next]_vars

\* A runnable goroutine is scheduled, and an exchange ends because
\* dns.Client has a read and a dial timeout.  Nobody has to make calls,
\* and no context has to end.
FairSpec == Spec /\ \A c \in Callers : /\ WF_vars(Proceed(c))
                                       /\ WF_vars(ExchangeReturns(c))

-----------------------------------------------------------------------------
(* Properties *)

\* Every variable keeps its type; above all the counter never goes below
\* zero and the semaphore's channel never holds more than its capacity.
TypeOK ==
    /\ remaining \in 0..bud.MaxQueries
    /\ tokens \in 0..max
    /\ slots \in 0..width
    /\ pc \in [Callers -> Places]
    /\ op \in [Callers -> Ops]
    /\ attempt \in [Callers -> 0..retries]
    /\ net \in [Callers -> {"udp", "tcp"}]
    /\ ctxDone \in [Callers -> BOOLEAN]
    /\ expired \in [Callers -> BOOLEAN]
    /\ wire \in [Callers -> {"none", "running", "ok", "err"}]
    /\ result \in [Callers -> Results]
    /\ sends \in [Callers -> 0..PerCall]
    /\ late \in [Callers -> Nat]
    /\ sent \in Nat

\* The semaphore holds exactly one token per call that is past Acquire: no
\* path through spend, Query or Transfer leaks a token or returns one that
\* it never took, so release never blocks.
SlotsMatchHolders == slots = Cardinality(Holders)

\* No more exchanges run at once than MaxConcurrency allows, counting the
\* ones whose caller has given up on them: send waits for its goroutine
\* before the slot is released.
WireConcurrency ==
    Cardinality({c \in Callers : wire[c] = "running"}) <= bud.MaxConcurrency

\* An error has a cause, although all causes look alike to the caller: its
\* context is done, or the budget was spent before anything was sent, or every
\* attempt was made, over UDP and over TCP.  A send that timed out, or an
\* exchange that failed, is no reason to give up.
FullRetry ==
    \A c \in Callers : result[c] = "DeadlineExceeded" =>
        \/ ctxDone[c]
        \/ sends[c] = 0 /\ remaining = 0
        \/ sends[c] = PerCall

\* Once its context is done a call starts at most two more exchanges,
\* however many retries are left (the check of ctx.Err() after UDP).
CancelledStops == \A c \in Callers : late[c] <= 2

\* The traffic of a run is bounded by the budget times the exchanges that
\* one unit of it buys.
OutboundBound == sent <= PerCall * (bud.MaxQueries - remaining)

\* docs/scope-safety.md says of MaxQueries "absolute cap on outbound
\* queries".  Retries and the TCP fallback are not charged.
OutboundCapped == sent <= bud.MaxQueries

\* The resolver implements the abstract budget: one unit per call, at most
\* MaxConcurrency calls on the network, nothing refunded.
QB == INSTANCE QueryBudget WITH
          Calls <- Callers, Limit <- bud.MaxQueries, Width <- bud.MaxConcurrency,
          left <- remaining, paid <- Paying, active <- Holders
ImplementsQueryBudget == QB!Spec

\* Every call returns: no caller waits for ever for a slot, a token or an
\* exchange.
EveryCallReturns == \A c \in Callers : pc[c] # "idle" ~> pc[c] = "idle"
=============================================================================
