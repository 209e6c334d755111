---------------------------- MODULE RateLimiter -----------------------------
(***************************************************************************)
(* budget.RateLimiter in time: goroutines call Wait while a clock runs.    *)
(* Time is counted in ticks, TicksPerSecond of them to a second.  Wait     *)
(* holds the mutex for a whole pass of its loop, so a pass is one step; a  *)
(* pass without a token ends in a sleep and another pass.                  *)
(***************************************************************************)
EXTENDS Integers, FiniteSets, FiniteSetsExt, Budget

CONSTANTS QPS,             \* the rate asked for
          TicksPerSecond,
          MaxTicks,        \* bound: how long the clock runs
          MaxCalls         \* bound: calls of Wait

VARIABLES tokens,   \* RateLimiter.tokens
          now,      \* the clock
          calls,    \* calls of Wait so far
          grants    \* history: calls that returned, per tick

vars == <<tokens, now, calls, grants>>

max == NewRateLimiter(QPS)

Init ==
    /\ tokens = max
    /\ now = 0
    /\ calls = 0
    /\ grants = [t \in 0..MaxTicks |-> 0]

\* One pass of Wait.
Wait ==
    /\ calls < MaxCalls
    /\ calls' = calls + 1
    /\ tokens' = AfterPass(tokens, max)
    /\ grants' = IF Granted(tokens, max) THEN [grants EXCEPT ![now] = @ + 1] ELSE grants
    /\ UNCHANGED now

Tick ==
    /\ now < MaxTicks
    /\ now' = now + 1
    /\ UNCHANGED <<tokens, calls, grants>>

Next == Wait \/ Tick
Spec == Init /\ [][Next]_vars

\* docs/scope-safety.md: "MaxQPS - token-bucket rate limit across all
\* outbound queries".  A bucket that holds QPS tokens and is refilled with
\* QPS tokens per second lets at most 2 * QPS calls through in any second.
RateBounded ==
    \A t \in 0..now :
        MapThenSumSet(LAMBDA u : grants[u],
            {u \in 0..now : t <= u /\ u < t + TicksPerSecond}) <= 2 * max
=============================================================================
