------------------------- MODULE RetryBackoffProofs -------------------------
(***************************************************************************)
(* RetryBackoff for every word size, every pair of delays that worker.New  *)
(* accepts and every attempt.                                              *)
(***************************************************************************)
EXTENDS MCRetryBackoff, WellFoundedInduction, TLAPS

-----------------------------------------------------------------------------
(* Powers of two.                                                          *)

(* Induction is by the least counterexample.                               *)
LEMMA LeastNatural ==
  ASSUME NEW T, T \subseteq Nat, T # {}
  PROVE  \E x \in T : \A y \in T : x <= y
<1>1. PICK x \in T : \A y \in T : ~ (<<y, x>> \in OpToRel(<, Nat))
  BY WFMin, NatLessThanWellFounded, Zenon
<1>2. \A y \in T : ~ (y < x)
  BY <1>1 DEF OpToRel
<1>. QED
  BY <1>2

(* Powers are positive and grow with the exponent.                         *)
LEMMA PowersGrow ==
  ASSUME NEW n \in 0 .. Width + MaxAttempt + 1, NEW m \in 0 .. n
  PROVE  2^m \in 1 .. 2^n
<1>. DEFINE Holds(k) == \A i \in 0 .. k : 2^i \in 1 .. 2^k
            Fails == {k \in 0 .. Width + MaxAttempt + 1 : ~Holds(k)}
<1>1. Width + MaxAttempt \in Nat
  BY WidthAssumption, MaxAttemptAssumption
<1>2. Fails = {}
  <2>. SUFFICES ASSUME Fails # {} PROVE FALSE
    OBVIOUS
  <2>1. Fails \subseteq Nat
    BY <1>1
  <2>2. PICK k \in Fails : \A j \in Fails : k <= j
    <3>. HIDE DEF Fails
    <3>. QED
      BY <2>1, LeastNatural
  <2>3. Holds(0)
    OBVIOUS
  <2>4. k \in 1 .. Width + MaxAttempt + 1 /\ k - 1 \in 0 .. Width + MaxAttempt
    <3>1. k \in 0 .. Width + MaxAttempt + 1 /\ ~Holds(k)
      BY <2>2
    <3>2. k # 0
      <4>. HIDE DEF Holds
      <4>. QED
        BY <2>3, <3>1
    <3>. QED
      BY <1>1, <3>1, <3>2
  <2>5. k - 1 \notin Fails
    <3>. HIDE DEF Fails
    <3>. QED
      BY <2>2, <2>4
  <2>6. Holds(k - 1)
    BY <1>1, <2>4, <2>5
  <2>7. 2^k = 2 * 2^(k - 1)
    <3>1. (k - 1) + 1 = k
      BY <2>4
    <3>. QED
      BY <2>4, <3>1, PowersOfTwo
  <2>8. 2^(k - 1) \in 1 .. 2^(k - 1) /\ 2^k \in Int /\ 2^(k - 1) \in Int
    BY <2>4, <2>6
  <2>9. Holds(k)
    <3>. SUFFICES ASSUME NEW i \in 0 .. k PROVE 2^i \in 1 .. 2^k
      OBVIOUS
    <3>1. CASE i = k
      BY <2>7, <2>8, <3>1
    <3>2. CASE i # k
      <4>1. i \in 0 .. k - 1
        BY <2>4, <3>2
      <4>2. 2^i \in 1 .. 2^(k - 1)
        BY <2>6, <4>1
      <4>. QED
        BY <2>7, <2>8, <4>2
    <3>. QED
      BY <3>1, <3>2
  <2>. QED
    BY <2>2, <2>9
<1>3. Holds(n)
  BY <1>1, <1>2
<1>. QED
  BY <1>3

Half == 2^(Width - 1)

(* A word has as many negative values as others.                           *)
LEMMA WordSize ==
  /\ Half \in Nat \ {0}
  /\ 2^Width = 2 * Half
<1>1. /\ Width - 1 \in 0 .. Width + MaxAttempt
      /\ Width - 1 \in 0 .. Width + MaxAttempt + 1
      /\ Width - 1 \in 0 .. Width - 1
      /\ (Width - 1) + 1 = Width
  BY WidthAssumption, MaxAttemptAssumption
<1>2. 2^(Width - 1) \in 1 .. 2^(Width - 1) /\ 2^(Width - 1) \in Int
  <2>1. 2^(Width - 1) \in 1 .. 2^(Width - 1)
    BY <1>1, PowersGrow
  <2>2. 2^(Width - 1) \in Int
    BY WidthAssumption
  <2>. QED
    BY <2>1, <2>2
<1>3. 2^Width = 2 * 2^(Width - 1)
  BY <1>1, PowersOfTwo
<1>. QED
  BY <1>2, <1>3 DEF Half

-----------------------------------------------------------------------------
(* The word and the clamp.                                                 *)

(* Wrapping yields a value of the word.                                    *)
LEMMA WrapInWord ==
  ASSUME NEW x \in Int
  PROVE  Wrap(x) \in -Half .. Half - 1
<1>1. x % (2 * Half) \in 0 .. 2 * Half - 1
  BY WordSize
<1>. QED
  BY <1>1, WordSize DEF Wrap, Half

(* A value the word holds is kept, and one that needs the sign bit becomes *)
(* negative.                                                               *)
LEMMA WrapOfUnsigned ==
  ASSUME NEW x \in 0 .. 2 * Half - 1
  PROVE  Wrap(x) = IF x < Half THEN x ELSE x - 2 * Half
<1>1. x % (2 * Half) = x
  BY WordSize
<1>. QED
  BY <1>1, WordSize DEF Wrap, Half

LEMMA ClampInRange ==
  ASSUME NEW delay \in Int, NEW top \in Nat \ {0}
  PROVE  Clamp(delay, top) \in 1 .. top
BY DEF Clamp

(* rand.Int63n is never given a bound that makes it panic, and the delay   *)
(* never exceeds the maximum, whatever the multiplication wraps to.        *)
THEOREM DelayAlwaysInRange ==
  ASSUME NEW first \in Nat \ {0}, NEW top \in Nat, first <= top, NEW n \in Int
  PROVE  /\ JitterBound(first, top, n) \in 1 .. top
         /\ RetryDelays(first, top, n) # {}
         /\ RetryDelays(first, top, n) \subseteq 0 .. (top - 1)
<1>1. Shift(n) \in Nat
  BY DEF Shift
<1>2. 2^Shift(n) \in Int
  BY <1>1
<1>3. Wrap(2^Shift(n)) \in Int
  BY <1>2, WrapInWord, WordSize
<1>4. Wrap(first * Wrap(2^Shift(n))) \in Int
  <2>1. first * Wrap(2^Shift(n)) \in Int
    BY <1>3
  <2>. QED
    BY <2>1, WrapInWord, WordSize
<1>5. top \in Nat \ {0} /\ top \in 1 .. top
  OBVIOUS
<1>6. Clamp(Wrap(first * Wrap(2^Shift(n))), top) \in 1 .. top
  BY <1>4, <1>5, ClampInRange
<1>7. JitterBound(first, top, n) \in 1 .. top
  BY <1>5, <1>6 DEF JitterBound
<1>. QED
  BY <1>7 DEF RetryDelays

-----------------------------------------------------------------------------
(* The capped exponential.                                                 *)

LEMMA MinOfTwo ==
  ASSUME NEW a \in Int, NEW b \in Int
  PROVE  Min({a, b}) = IF a <= b THEN a ELSE b
BY DEF Min

LEMMA MaxOfTwo ==
  ASSUME NEW a \in Int, NEW b \in Int
  PROVE  Max({a, b}) = IF a >= b THEN a ELSE b
BY DEF Max

Capped(x, top) == IF x <= top THEN x ELSE top

(* A factor of at least Half lifts every base above every maximum, so that *)
(* the test of the shift loses nothing.                                    *)
LEMMA BigShift ==
  ASSUME NEW first \in Nat \ {0}, NEW top \in 1 .. Half - 1,
         NEW factor \in Nat, factor >= Half
  PROVE  Capped(first * factor, top) = top
<1>1. first * factor >= Half
  BY WordSize
<1>2. first * factor \in Int
  OBVIOUS
<1>. QED
  BY <1>1, <1>2, WordSize DEF Capped

(* A product that needs no more than the bits of an unsigned word is not   *)
(* changed by the wrap, or becomes negative, which the clamp catches.      *)
LEMMA ProductInWord ==
  ASSUME NEW x \in 1 .. 2 * Half - 1, NEW top \in 1 .. Half - 1
  PROVE  Clamp(Wrap(x), top) = Capped(x, top)
<1>1. Wrap(x) = IF x < Half THEN x ELSE x - 2 * Half
  <2>1. x \in 0 .. 2 * Half - 1
    BY WordSize
  <2>. QED
    BY <2>1, WrapOfUnsigned
<1>. QED
  BY <1>1, WordSize DEF Clamp, Capped

(* JitterBound against the exponential of the attempt.                     *)
LEMMA JitterBoundIsCapped ==
  ASSUME NEW first \in Nat \ {0}, NEW top \in 1 .. Half - 1, first <= top,
         NEW n \in 0 .. MaxAttempt
  PROVE  /\ 2^Shift(n) \in Nat \ {0}
         /\ JitterBound(first, top, n) <= Capped(first * 2^Shift(n), top)
         /\ first * 2^Shift(n) < 2^Width
              => JitterBound(first, top, n) = Capped(first * 2^Shift(n), top)
<1>. DEFINE factor == 2^Shift(n)
<1>1. Shift(n) \in 0 .. MaxAttempt
  BY MaxAttemptAssumption DEF Shift
<1>2. factor \in Nat \ {0}
  <2>1. Shift(n) \in 0 .. Width + MaxAttempt + 1 /\ Shift(n) \in 0 .. Shift(n)
    BY <1>1, MaxAttemptAssumption, WidthAssumption
  <2>2. factor \in 1 .. factor
    BY <2>1, PowersGrow
  <2>3. factor \in Int
    BY <1>1
  <2>. QED
    BY <2>2, <2>3
<1>3. CASE Shift(n) >= Width - 1
  <2>1. /\ Shift(n) \in 0 .. Width + MaxAttempt + 1
        /\ Width - 1 \in 0 .. Shift(n)
    BY <1>1, <1>3, MaxAttemptAssumption, WidthAssumption
  <2>2. Half \in 1 .. factor
    BY <2>1, PowersGrow DEF Half
  <2>3. factor >= Half
    BY <1>2, <2>2
  <2>4. Capped(first * factor, top) = top
    <3>. HIDE DEF factor
    <3>. QED
      BY <1>2, <2>3, BigShift
  <2>5. JitterBound(first, top, n) = top
    BY <1>3 DEF JitterBound
  <2>. QED
    BY <1>2, <2>4, <2>5, WordSize
<1>4. CASE ~(Shift(n) >= Width - 1)
  <2>1. /\ Width - 1 \in 0 .. Width + MaxAttempt + 1
        /\ Shift(n) + 1 \in 0 .. Width - 1
        /\ Shift(n) \in 0 .. Width + MaxAttempt
    BY <1>1, <1>4, MaxAttemptAssumption, WidthAssumption
  <2>2. 2^(Shift(n) + 1) \in 1 .. Half
    BY <2>1, PowersGrow DEF Half
  <2>3. 2^(Shift(n) + 1) = 2 * factor
    BY <2>1, PowersOfTwo
  <2>4. factor \in 1 .. Half - 1
    <3>. HIDE DEF factor
    <3>. QED
      BY <1>2, <2>2, <2>3, WordSize
  <2>5. Wrap(factor) = factor
    <3>. HIDE DEF factor
    <3>. QED
      BY <2>4, WrapOfUnsigned, WordSize
  <2>6. JitterBound(first, top, n) = Clamp(Wrap(first * factor), top)
    BY <1>4, <2>5 DEF JitterBound
  <2>7. first * factor \in Nat \ {0}
    <3>. HIDE DEF factor
    <3>. QED
      BY <1>2
  <2>8. CASE first * factor < 2^Width
    <3>1. first * factor \in 1 .. 2 * Half - 1
      <4>. HIDE DEF factor
      <4>. QED
        BY <2>7, <2>8, WordSize
    <3>2. Clamp(Wrap(first * factor), top) = Capped(first * factor, top)
      BY <3>1, ProductInWord
    <3>3. Capped(first * factor, top) \in Int
      BY <2>7, WordSize DEF Capped
    <3>4. JitterBound(first, top, n) = Capped(first * factor, top)
      BY <2>6, <3>2
    <3>. QED
      BY <1>2, <3>3, <3>4
  <2>9. CASE ~(first * factor < 2^Width)
    <3>1. Capped(first * factor, top) = top
      <4>. HIDE DEF factor
      <4>. QED
        BY <2>7, <2>9, WordSize DEF Capped
    <3>2. JitterBound(first, top, n) <= top
      <4>1. n \in Int /\ top \in Nat
        BY MaxAttemptAssumption, WordSize
      <4>2. JitterBound(first, top, n) \in 1 .. top
        BY <4>1, DelayAlwaysInRange
      <4>. QED
        BY <4>1, <4>2
    <3>. QED
      BY <1>2, <2>9, <3>1, <3>2
  <2>. QED
    BY <2>8, <2>9
<1>. QED
  BY <1>3, <1>4

-----------------------------------------------------------------------------
(* What the failing task meets.                                            *)

Values ==
  /\ base \in Nat \ {0}
  /\ max \in 1 .. Half - 1
  /\ base <= max
  /\ attempt \in 0 .. MaxAttempt

LEMMA ValuesInvariant == Spec => []Values
<1>1. Init => Values
  <2>. SUFFICES ASSUME Init PROVE Values
    OBVIOUS
  <2>1. Largest \in Int
    BY WordSize DEF Largest, Half
  <2>2. base \in Int /\ 1 <= base /\ max \in Int /\ base <= max /\ max <= Half - 1
    BY <2>1, WordSize DEF Init, Largest, Half
  <2>. QED
    BY <2>2, WordSize, MaxAttemptAssumption DEF Init, Values
<1>2. Values /\ [Fail]_vars => Values'
  BY MaxAttemptAssumption DEF Fail, Values, vars
<1>. QED
  BY <1>1, <1>2, PTL DEF Spec

(* A task that keeps failing is always given a delay that rand.Int63n can  *)
(* draw and that RetryMaxDelay allows, in every attempt.                   *)
THEOREM DelayStaysInRange == Spec => []DelayInRange
<1>1. Values => DelayInRange
  <2>. SUFFICES ASSUME Values PROVE DelayInRange
    OBVIOUS
  <2>1. base \in Nat \ {0} /\ max \in Nat /\ base <= max /\ attempt \in Int
    BY WordSize, MaxAttemptAssumption DEF Values
  <2>. QED
    BY <2>1, DelayAlwaysInRange DEF DelayInRange
<1>. QED
  BY <1>1, ValuesInvariant, PTL

(* The delays grow as the capped exponential, for as long as the product   *)
(* fits an unsigned word, and never faster: the wrap-around can make a     *)
(* task wait too short a time but never too long.                          *)
THEOREM DelayIsCapped == Spec => []CappedUnlessWrapped
<1>1. Values => CappedUnlessWrapped
  <2>. SUFFICES ASSUME Values PROVE CappedUnlessWrapped
    OBVIOUS
  <2>1. /\ base \in Nat \ {0} /\ max \in 1 .. Half - 1 /\ base <= max
        /\ attempt \in 0 .. MaxAttempt /\ attempt \in Int /\ max \in Int
    BY WordSize, MaxAttemptAssumption DEF Values
  <2>2. Max({attempt, 1}) - 1 = Shift(attempt)
    <3>1. Max({attempt, 1}) = IF attempt >= 1 THEN attempt ELSE 1
      BY <2>1, MaxOfTwo
    <3>. QED
      BY <2>1, <3>1 DEF Shift
  <2>3. /\ 2^Shift(attempt) \in Nat \ {0}
        /\ JitterBound(base, max, attempt) <= Capped(base * 2^Shift(attempt), max)
        /\ base * 2^Shift(attempt) < 2^Width
             => JitterBound(base, max, attempt) = Capped(base * 2^Shift(attempt), max)
    BY <2>1, JitterBoundIsCapped
  <2>4. Min({base * 2^Shift(attempt), max}) = Capped(base * 2^Shift(attempt), max)
    <3>1. base * 2^Shift(attempt) \in Int
      BY <2>1, <2>3
    <3>. QED
      BY <2>1, <3>1, MinOfTwo DEF Capped
  <2>5. CappedExponential = Capped(base * 2^Shift(attempt), max)
    BY <2>2, <2>4 DEF CappedExponential
  <2>. QED
    BY <2>2, <2>3, <2>5 DEF CappedUnlessWrapped
<1>. QED
  BY <1>1, ValuesInvariant, PTL
=============================================================================
