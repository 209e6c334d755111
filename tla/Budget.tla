------------------------------- MODULE Budget -------------------------------
(***************************************************************************)
(* The value-level part of internal/budget: how a Budget is normalised,    *)
(* with what values the counter, the token bucket and the semaphore start, *)
(* and what one pass of RateLimiter.Wait does to the bucket.               *)
(*                                                                         *)
(* PerTimeout and RecursionLimit are left out: the first is only ever the  *)
(* length of a timer (timers fire at any time in the models), the second   *)
(* is read nowhere in the program.  The bucket is a float64 in the code,   *)
(* but it only takes the values max and max - 1 where max is an integer,   *)
(* so it is an integer here.                                               *)
(***************************************************************************)
EXTENDS Integers

\* The shape of every normalisation in budget.go: zero and negative mean unset.
OrDefault(x, default) == IF x <= 0 THEN default ELSE x

\* Budget.Validated: zero or negative limits become safe ones.
Validated(b) ==
    [ MaxQueries     |-> OrDefault(b.MaxQueries, 400),
      MaxQPS         |-> OrDefault(b.MaxQPS, 50),
      MaxConcurrency |-> OrDefault(b.MaxConcurrency, 1) ]

\* What the three constructors start from (they normalise a second time).
NewCounter(n)       == OrDefault(n, 400)
NewRateLimiter(qps) == OrDefault(qps, 50)
NewSemaphore(w)     == OrDefault(w, 1)

\* One pass of the loop in RateLimiter.Wait: the bucket is set to its
\* maximum whatever it held and however little time went by.
Refill(tokens, max) == max

\* The bucket after a pass, and whether that pass let the caller through.
Granted(tokens, max)    == Refill(tokens, max) >= 1
AfterPass(tokens, max)  ==
    IF Granted(tokens, max) THEN Refill(tokens, max) - 1 ELSE Refill(tokens, max)
=============================================================================
