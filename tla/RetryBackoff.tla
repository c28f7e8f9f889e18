---------------------------- MODULE RetryBackoff ----------------------------
(***************************************************************************)
(* Worker.retryDelay of internal/worker/quotes/worker.go: the delay before *)
(* a failed task is tried again, "capped exponential backoff with full     *)
(* jitter".  time.Duration is a signed integer of Width bits (64 in Go),   *)
(* so base * 2^shift may wrap around; the width is a parameter so that     *)
(* small words reach the wrap-around.                                      *)
(***************************************************************************)
EXTENDS Integers

CONSTANT Width   \* bits of time.Duration

ASSUME WidthAssumption == Width \in Nat \ {0, 1}

-----------------------------------------------------------------------------
(* The value a signed word of Width bits holds after computing x.          *)
Wrap(x) ==
  LET low == x % 2^Width
  IN  IF low < 2^(Width - 1) THEN low ELSE low - 2^Width

(* Mutant: the exponent is attempt_count itself, as worker.go:154 has it.  *)
Shift_NotFromZero(attempt) == IF attempt < 1 THEN 1 ELSE attempt

Shift(attempt) == (IF attempt < 1 THEN 1 ELSE attempt) - 1

(* Mutant: a negative product is not caught.                               *)
Clamp_NoSignCheck(delay, max) == IF delay > max THEN max ELSE delay

(* A product that wrapped to a value that is not positive, or one above    *)
(* the maximum, becomes the maximum.                                       *)
Clamp(delay, max) == IF delay <= 0 \/ delay > max THEN max ELSE delay

(* The argument of rand.Int63n, which panics when it is not positive.      *)
JitterBound(base, max, attempt) ==
  IF Shift(attempt) >= Width - 1
    THEN max
    ELSE Clamp(Wrap(base * Wrap(2^Shift(attempt))), max)

(* Full jitter: any delay below the bound.                                 *)
RetryDelays(base, max, attempt) == 0 .. (JitterBound(base, max, attempt) - 1)
=============================================================================
