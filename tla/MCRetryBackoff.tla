--------------------------- MODULE MCRetryBackoff ---------------------------
(***************************************************************************)
(* Every pair of delays that worker.New accepts, over a word of Width      *)
(* bits, and every attempt up to MaxAttempt: a task that keeps failing.    *)
(***************************************************************************)
EXTENDS RetryBackoff, FiniteSetsExt

CONSTANT MaxAttempt   \* bound on attempt_count

ASSUME MaxAttemptAssumption == MaxAttempt \in Nat

(* What the proofs need of powers: their definition, for the exponents     *)
(* that occur.                                                             *)
ASSUME PowersOfTwo == \A n \in 0 .. Width + MaxAttempt : 2^(n + 1) = 2 * 2^n

VARIABLES base, max, attempt

vars == <<base, max, attempt>>

Largest == 2^(Width - 1) - 1

Init ==
  /\ base \in 1 .. Largest
  /\ max \in base .. Largest
  /\ attempt = 0

Fail ==
  /\ attempt < MaxAttempt
  /\ attempt' = attempt + 1
  /\ UNCHANGED <<base, max>>

Spec == Init /\ [][Fail]_vars

-----------------------------------------------------------------------------
(* Min(base * 2^(attempt - 1), max), computed without a word size.         *)
CappedExponential == Min({base * 2^(Max({attempt, 1}) - 1), max})

(* retryDelay never panics and never waits longer than RetryMaxDelay,      *)
(* whatever the multiplication wraps to.                                   *)
DelayInRange ==
  JitterBound(base, max, attempt) \in 1 .. max

(* The exponent is attempt - 1, as the code and the second line of its     *)
(* comment say (worker.go:155), not AttemptCount, as the first line says   *)
(* (worker.go:154): that formula is the mutant Shift_NotFromZero.          *)
(* The bound is the capped exponential while the product fits an unsigned  *)
(* word.  A larger product may wrap round to a small positive delay that   *)
(* passes the clamp: then the bound is too short, but never too long.      *)
CappedUnlessWrapped ==
  /\ JitterBound(base, max, attempt) <= CappedExponential
  /\ base * 2^(Max({attempt, 1}) - 1) < 2^Width
     => JitterBound(base, max, attempt) = CappedExponential
=============================================================================
