-------------------------- MODULE LatestCacheProofs -------------------------
(***************************************************************************)
(* Proofs about LatestCache, for every set of readers and workers, every   *)
(* bound, with and without failures.                                       *)
(***************************************************************************)
EXTENDS LatestCache, TLAPS

-----------------------------------------------------------------------------
(* A reader that is about to write has found a quote.                      *)
QuoteInHand == \A r \in Readers : reader[r].pc = "set" => reader[r].quote # 0

IInv ==
  /\ TypeOK
  /\ QuoteInHand
  /\ StaleHasCause

ReaderState == [pc : {"idle", "db", "set"}, quote : 0 .. MaxSaved]

(* What a step makes of a reader that it moves.                            *)
LEMMA ReaderMoved ==
  ASSUME TypeOK, QuoteInHand, NEW r \in Readers, NEW s \in ReaderState,
         s.pc = "set" => s.quote # 0,
         reader' = [reader EXCEPT ![r] = s]
  PROVE  reader' \in [Readers -> ReaderState] /\ QuoteInHand'
<1>1. reader \in [Readers -> ReaderState]
  BY DEF TypeOK, ReaderState
<1>2. reader' \in [Readers -> ReaderState]
  BY <1>1
<1>3. \A x \in Readers : reader'[x] = IF x = r THEN s ELSE reader[x]
  BY <1>1
<1>. QED
  BY <1>2, <1>3 DEF QuoteInHand

LEMMA Initially == Init => IInv
<1>. SUFFICES ASSUME Init PROVE IInv
  OBVIOUS
<1>1. 0 \in 0 .. MaxSaved /\ [pc |-> "idle", quote |-> 0] \in ReaderState
  BY CacheAssumption DEF ReaderState
<1>2. TypeOK
  BY <1>1 DEF Init, TypeOK, ReaderState
<1>3. QuoteInHand /\ StaleHasCause
  BY DEF Init, QuoteInHand, StaleHasCause
<1>. QED
  BY <1>2, <1>3 DEF IInv

LEMMA ReadStep ==
  ASSUME IInv, NEW r \in Readers, Read(r)
  PROVE  IInv'
<1>. reader \in [Readers -> ReaderState] /\ reader[r] \in ReaderState /\ MaxSaved \in Nat
  BY CacheAssumption DEF IInv, TypeOK, ReaderState
<1>. DEFINE idle == [pc |-> "idle", quote |-> 0]
<1>. idle \in ReaderState /\ idle.pc # "set"
  BY DEF ReaderState
<1>1. CASE CacheMiss(r)
  <2>. DEFINE s == [reader[r] EXCEPT !.pc = "db"]
  <2>1. s \in ReaderState /\ s.pc = "db"
    BY DEF ReaderState
  <2>2. reader' = [reader EXCEPT ![r] = s]
    BY <1>1 DEF CacheMiss
  <2>3. reader' \in [Readers -> ReaderState] /\ QuoteInHand'
    BY <2>1, <2>2, ReaderMoved DEF IInv
  <2>4. TypeOK'
    BY <1>1, <2>3 DEF CacheMiss, IInv, TypeOK, ReaderState
  <2>. QED
    BY <1>1, <2>3, <2>4 DEF CacheMiss, IInv, StaleHasCause
<1>2. CASE ReadLatest(r)
  <2>. DEFINE s == [pc |-> "set", quote |-> latest]
  <2>1. s \in ReaderState /\ s.quote = latest
    BY DEF ReaderState, IInv, TypeOK
  <2>2. \/ latest # 0 /\ reader' = [reader EXCEPT ![r] = s]
        \/ reader' = [reader EXCEPT ![r] = idle]
    BY <1>2 DEF ReadLatest, Return, Found
  <2>3. reader' \in [Readers -> ReaderState] /\ QuoteInHand'
    BY <2>1, <2>2, ReaderMoved DEF IInv
  <2>4. TypeOK'
    BY <1>2, <2>3 DEF ReadLatest, IInv, TypeOK, ReaderState
  <2>. QED
    BY <1>2, <2>3, <2>4 DEF ReadLatest, IInv, StaleHasCause
<1>3. CASE SetLatest(r)
  <2>1. reader' = [reader EXCEPT ![r] = idle]
    BY <1>3 DEF SetLatest, Return
  <2>2. reader' \in [Readers -> ReaderState] /\ QuoteInHand'
    BY <2>1, ReaderMoved DEF IInv
  <2>3. reader[r].quote \in 1 .. MaxSaved
    BY <1>3 DEF SetLatest, IInv, QuoteInHand, ReaderState
  <2>4. TypeOK'
    BY <1>3, <2>2, <2>3 DEF SetLatest, IInv, TypeOK, ReaderState
  <2>5. StaleHasCause'
    <3>1. CASE /\ cache' = reader[r].quote
               /\ late' = (reader[r].quote # latest)
      <4>1. CASE reader[r].quote = latest
        BY <1>3, <3>1, <4>1 DEF SetLatest, StaleHasCause
      <4>2. CASE reader[r].quote # latest
        BY <3>1, <4>2 DEF StaleHasCause
      <4>. QED
        BY <4>1, <4>2
    <3>2. CASE UNCHANGED <<cache, late, missed>>
      BY <1>3, <3>2 DEF SetLatest, IInv, StaleHasCause
    <3>. QED
      BY <1>3, <3>1, <3>2 DEF SetLatest
  <2>. QED
    BY <2>2, <2>4, <2>5 DEF IInv
<1>. QED
  BY <1>1, <1>2, <1>3 DEF Read

LEMMA WorkerStep ==
  ASSUME IInv, NEW w \in Workers, MarkSucceeded(w) \/ DeleteLatest(w) \/ DeleteSkipped(w)
  PROVE  IInv'
<1>1. CASE MarkSucceeded(w)
  <2>1. TypeOK'
    BY <1>1, CacheAssumption DEF MarkSucceeded, AfterSuccess, IInv, TypeOK
  <2>2. worker'[w] = "deleting"
    BY <1>1 DEF MarkSucceeded, AfterSuccess, IInv, TypeOK
  <2>. QED
    BY <1>1, <2>1, <2>2 DEF MarkSucceeded, IInv, QuoteInHand, StaleHasCause
<1>2. CASE DeleteLatest(w)
  BY <1>2 DEF DeleteLatest, Removed, IInv, TypeOK, QuoteInHand, StaleHasCause
<1>3. CASE DeleteSkipped(w)
  BY <1>3 DEF DeleteSkipped, IInv, TypeOK, QuoteInHand, StaleHasCause
<1>. QED
  BY <1>1, <1>2, <1>3

LEMMA ExpireStep ==
  ASSUME IInv, Expire
  PROVE  IInv'
BY DEF Expire, Removed, IInv, TypeOK, QuoteInHand, StaleHasCause

LEMMA Invariance == Spec => []IInv
<1>1. IInv /\ [Next]_vars => IInv'
  <2>. SUFFICES ASSUME IInv, [Next]_vars PROVE IInv'
    OBVIOUS
  <2>1. CASE Next
    BY <2>1, ReadStep, WorkerStep, ExpireStep DEF Next
  <2>2. CASE UNCHANGED vars
    BY <2>2 DEF vars, IInv, TypeOK, QuoteInHand, StaleHasCause
  <2>. QED
    BY <2>1, <2>2
<1>. QED
  BY <1>1, Initially, PTL DEF Spec

-----------------------------------------------------------------------------
(* Every value stays in the range the code gives it; in particular a pair  *)
(* without a quote is never cached.                                        *)
THEOREM TypeCorrect == Spec => []TypeOK
<1>1. IInv => TypeOK
  BY DEF IInv
<1>. QED
  BY <1>1, Invariance, PTL

(* A stale entry has one of three causes, for every number of readers and  *)
(* workers: an invalidation to come, a failed one, or a reader that wrote  *)
(* what it had read before the invalidation.                               *)
THEOREM StaleEntryHasCause == Spec => []StaleHasCause
<1>1. IInv => StaleHasCause
  BY DEF IInv
<1>. QED
  BY <1>1, Invariance, PTL
=============================================================================
