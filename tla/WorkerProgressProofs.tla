------------------------- MODULE WorkerProgressProofs -------------------------
(***************************************************************************)
(* Proofs about WorkerProgress, for every finite set of pairs and every    *)
(* number of workers, attempts and faults.                                 *)
(***************************************************************************)
EXTENDS WorkerProgress, SequenceTheorems, FiniteSetTheorems, TLAPS

-----------------------------------------------------------------------------
Row == [status : {"NONE", "PENDING", "PROCESSING"}, attempts : 0 .. MaxAttempts,
        holder : Workers \cup {NULL}, expired : BOOLEAN]

WorkState == [pc : {"down", "requeue", "claim", "calling", "marking", "invalidating", "waiting"},
              pair : Pairs \cup {NULL}, ok : BOOLEAN, inTime : BOOLEAN]

(* The queue of due rows holds PENDING rows, each of them once.            *)
Injective(s) == \A i, j \in 1 .. Len(s) : s[i] = s[j] => i = j

DueRows ==
  /\ due \in Seq(Pairs) /\ Injective(due)
  /\ \A p \in ToSet(due) : row[p].status = "PENDING"
  /\ settled \subseteq ToSet(due)

(* Refresh transactions lock active rows.                                  *)
LockedRows == locked \subseteq {p \in Pairs : row[p].status # "NONE"}

(* A worker that has claimed a task knows its pair.                        *)
PairInHand == \A w \in Workers : work[w].pc \in {"calling", "marking"} => work[w].pair \in Pairs

IInv ==
  /\ row \in [Pairs -> Row]
  /\ work \in [Workers -> WorkState]
  /\ faults \in 0 .. MaxFaults
  /\ DueRows
  /\ LockedRows
  /\ PairInHand

(* The elements of a sequence.                                             *)
LEMMA Elements ==
  ASSUME NEW s \in Seq(Pairs)
  PROVE  /\ ToSet(s) = {s[i] : i \in 1 .. Len(s)}
         /\ ToSet(s) \subseteq Pairs
<1>1. DOMAIN s = 1 .. Len(s)
  OBVIOUS
<1>2. \A i \in 1 .. Len(s) : s[i] \in Pairs
  OBVIOUS
<1>. QED
  BY <1>1, <1>2 DEF ToSet

LEMMA Typed == IInv => TypeOK
<1>. SUFFICES ASSUME IInv PROVE TypeOK
  OBVIOUS
<1>1. due \in Seq(Pairs) /\ DOMAIN due = 1 .. Len(due) /\ ToSet(due) \subseteq Pairs
  BY Elements DEF IInv, DueRows
<1>2. IsInjective(due)
  BY <1>1 DEF IInv, DueRows, Injective, IsInjective
<1>3. ToSet(due) \subseteq {p \in Pairs : row[p].status = "PENDING"} /\ settled \subseteq ToSet(due)
  BY <1>1 DEF IInv, DueRows
<1>. QED
  BY <1>2, <1>3 DEF IInv, LockedRows, TypeOK, Row, WorkState

-----------------------------------------------------------------------------
(* Sequences without repetition.                                           *)

(* SetToSeqs(S) holds sequences of all elements of S, by the pigeonhole    *)
(* principle.                                                              *)
LEMMA Ordered ==
  ASSUME NEW S, S \subseteq Pairs, NEW order \in SetToSeqs(S)
  PROVE  order \in Seq(Pairs) /\ Injective(order) /\ ToSet(order) = S
<1>. DEFINE n == Cardinality(S)
<1>1. IsFiniteSet(S) /\ n \in Nat
  BY ProgressAssumption, FS_Subset, FS_CardinalityType
<1>2. order \in [1 .. n -> S] /\ \A i, j \in 1 .. n : i # j => order[i] # order[j]
  BY DEF SetToSeqs
<1>. HIDE DEF n
<1>3. order \in Seq(Pairs) /\ Len(order) = n
  BY <1>1, <1>2
<1>4. ToSet(order) \subseteq S
  BY <1>2 DEF ToSet
<1>5. ASSUME NEW x \in S, x \notin ToSet(order)
      PROVE  FALSE
  <2>1. IsFiniteSet(S \ {x}) /\ Cardinality(S \ {x}) = n - 1
    BY <1>1, <1>5, FS_RemoveElement DEF n
  <2>2. IsFiniteSet(1 .. n) /\ Cardinality(1 .. n) = n
    BY <1>1, FS_Interval
  <2>3. order \in [1 .. n -> S \ {x}]
    <3>1. \A i \in 1 .. n : order[i] \in S /\ order[i] # x
      BY <1>2, <1>5 DEF ToSet
    <3>. QED
      BY <1>2, <3>1
  <2>4. Cardinality(S \ {x}) < Cardinality(1 .. n)
    BY <1>1, <2>1, <2>2
  <2>. DEFINE D == 1 .. n
              T == S \ {x}
  <2>. HIDE DEF D, T
  <2>5. \E i, j \in D : i # j /\ order[i] = order[j]
    <3>1. IsFiniteSet(D) /\ IsFiniteSet(T) /\ Cardinality(T) < Cardinality(D) /\ order \in [D -> T]
      BY <2>1, <2>2, <2>3, <2>4 DEF D, T
    <3>. QED
      BY ONLY <3>1, FS_PigeonHole
  <2>. QED
    BY <1>2, <2>5 DEF D
<1>. QED
  BY <1>2, <1>3, <1>4, <1>5 DEF Injective

(* Without its k-th element.                                               *)
LEMMA Removed ==
  ASSUME NEW s \in Seq(Pairs), Injective(s), NEW k \in 1 .. Len(s)
  PROVE  /\ RemoveAt(s, k) \in Seq(Pairs)
         /\ Injective(RemoveAt(s, k))
         /\ ToSet(RemoveAt(s, k)) = ToSet(s) \ {s[k]}
<1>. DEFINE t == RemoveAt(s, k)
            u == SubSeq(s, 1, k - 1)
            v == SubSeq(s, k + 1, Len(s))
<1>1. Len(s) \in Nat /\ k \in Nat /\ k > 0 /\ k <= Len(s)
  OBVIOUS
<1>2. \A i \in 1 .. Len(s) : s[i] \in Pairs
  OBVIOUS
<1>3. u \in Seq(Pairs) /\ Len(u) = k - 1 /\ \A i \in 1 .. k - 1 : u[i] = s[i]
  <2>1. \A i \in 1 .. k - 1 : s[i] \in Pairs
    BY <1>1, <1>2
  <2>2. /\ u \in Seq(Pairs) /\ Len(u) = IF 1 <= k - 1 THEN (k - 1) - 1 + 1 ELSE 0
        /\ \A i \in 1 .. (k - 1) - 1 + 1 : u[i] = s[1 + i - 1]
    BY <1>1, <2>1, SubSeqProperties
  <2>. QED
    BY <1>1, <2>2
<1>4. v \in Seq(Pairs) /\ Len(v) = Len(s) - k /\ \A i \in 1 .. Len(s) - k : v[i] = s[k + i]
  <2>1. \A i \in k + 1 .. Len(s) : s[i] \in Pairs
    BY <1>1, <1>2
  <2>2. /\ v \in Seq(Pairs) /\ Len(v) = IF k + 1 <= Len(s) THEN Len(s) - (k + 1) + 1 ELSE 0
        /\ \A i \in 1 .. Len(s) - (k + 1) + 1 : v[i] = s[(k + 1) + i - 1]
    BY <1>1, <2>1, SubSeqProperties
  <2>. QED
    BY <1>1, <2>2
<1>5. t = u \o v
  BY DEF RemoveAt
<1>. HIDE DEF t, u, v
<1>6. /\ t \in Seq(Pairs) /\ Len(t) = Len(s) - 1
      /\ \A i \in 1 .. Len(t) : t[i] = IF i < k THEN s[i] ELSE s[i + 1]
  <2>1. /\ t \in Seq(Pairs) /\ Len(t) = Len(u) + Len(v)
        /\ \A i \in 1 .. Len(u) + Len(v) : t[i] = IF i <= Len(u) THEN u[i] ELSE v[i - Len(u)]
    BY <1>3, <1>4, <1>5, ConcatProperties
  <2>2. Len(t) = Len(s) - 1
    BY <1>1, <1>3, <1>4, <2>1
  <2>3. ASSUME NEW i \in 1 .. Len(t)
        PROVE  t[i] = IF i < k THEN s[i] ELSE s[i + 1]
    <3>1. CASE i < k
      BY <1>1, <1>3, <1>4, <2>1, <2>2, <3>1
    <3>2. CASE ~(i < k)
      <4>1. i - (k - 1) \in 1 .. Len(s) - k /\ k + (i - (k - 1)) = i + 1
        BY <1>1, <2>2, <3>2
      <4>. QED
        BY <1>1, <1>3, <1>4, <2>1, <2>2, <3>2, <4>1
    <3>. QED
      BY <3>1, <3>2
  <2>. QED
    BY <2>1, <2>2, <2>3
<1>. DEFINE from(i) == IF i < k THEN i ELSE i + 1
<1>7. \A i \in 1 .. Len(t) : from(i) \in 1 .. Len(s) /\ from(i) # k
  BY <1>1, <1>6
<1>8. \A i \in 1 .. Len(t) : t[i] = s[from(i)]
  BY <1>1, <1>6
<1>9. \A i, j \in 1 .. Len(t) : from(i) = from(j) => i = j
  BY <1>1
<1>. HIDE DEF from
<1>10. Injective(t)
  BY <1>7, <1>8, <1>9 DEF Injective
<1>11. ToSet(t) = {t[i] : i \in 1 .. Len(t)} /\ ToSet(s) = {s[i] : i \in 1 .. Len(s)}
  BY <1>6, Elements
<1>12. \A x : x \in ToSet(t) => x \in ToSet(s) /\ x # s[k]
  BY <1>7, <1>8, <1>11 DEF Injective
<1>13. ASSUME NEW j \in 1 .. Len(s), j # k
       PROVE  s[j] \in ToSet(t)
  <2>1. CASE j < k
    <3>1. j \in 1 .. Len(t) /\ t[j] = s[j]
      BY <1>1, <1>6, <2>1
    <3>. QED
      BY <1>11, <3>1
  <2>2. CASE j > k
    <3>1. j - 1 \in 1 .. Len(t) /\ ~(j - 1 < k) /\ (j - 1) + 1 = j
      BY <1>1, <1>6, <2>2
    <3>2. t[j - 1] = s[j]
      BY <1>6, <3>1
    <3>. QED
      BY <1>11, <3>1, <3>2
  <2>. QED
    BY <1>1, <1>13, <2>1, <2>2
<1>14. \A x : x \in ToSet(s) /\ x # s[k] => x \in ToSet(t)
  BY <1>11, <1>13
<1>15. ToSet(t) = ToSet(s) \ {s[k]}
  BY <1>12, <1>14
<1>. QED
  BY <1>6, <1>10, <1>15 DEF t

-----------------------------------------------------------------------------
(* Steps that move a worker, and steps that change rows.                   *)

LEMMA Moved ==
  ASSUME IInv, NEW w \in Workers, NEW s \in WorkState, work' = [work EXCEPT ![w] = s],
         s.pc \in {"calling", "marking"} => s.pair \in Pairs
  PROVE  work' \in [Workers -> WorkState] /\ PairInHand'
<1>1. \A x \in Workers : work'[x] = IF x = w THEN s ELSE work[x]
  BY DEF IInv
<1>. QED
  BY <1>1 DEF IInv, PairInHand

LEMMA IdleFits ==
  ASSUME NEW pc \in {"down", "requeue", "claim", "invalidating", "waiting"}
  PROVE  Idle(pc) \in WorkState /\ Idle(pc).pc \notin {"calling", "marking"}
BY DEF Idle, WorkState

LEMMA Gone ==
  ASSUME IInv, NEW w \in Workers,
         NEW pc \in {"down", "requeue", "claim", "invalidating", "waiting"},
         Goto(w, pc)
  PROVE  work' \in [Workers -> WorkState] /\ PairInHand'
BY Moved, IdleFits DEF Goto

LEMMA Counted ==
  ASSUME IInv, Fault \/ UNCHANGED faults
  PROVE  faults' \in 0 .. MaxFaults
BY ProgressAssumption DEF IInv, Fault

LEMMA Replied ==
  ASSUME IInv, NEW w \in Workers, NEW pc \in {"claim", "invalidating"}, Reply(w, pc)
  PROVE  work' \in [Workers -> WorkState] /\ PairInHand' /\ faults' \in 0 .. MaxFaults
BY Gone, Counted DEF Reply

LEMMA RowsFit ==
  /\ NoRow \in Row
  /\ \A r \in Row : Pending(r) \in Row /\ Pending(r).status = "PENDING"
<1>1. 0 \in 0 .. MaxAttempts
  BY ProgressAssumption
<1>2. NoRow \in Row
  BY <1>1 DEF NoRow, Row
<1>3. \A r \in Row : Pending(r) \in Row /\ Pending(r).status = "PENDING"
  BY DEF Row, Pending
<1>. QED
  BY <1>2, <1>3

(* The pairs in S join the due rows, and those rows are PENDING.           *)
LEMMA Arrived ==
  ASSUME IInv, NEW S, S \subseteq Pairs, Arrive(S),
         \A p \in ToSet(due) \cup S : row'[p].status = "PENDING"
  PROVE  DueRows'
<1>1. ToSet(due) \cup S \subseteq Pairs
  BY Elements DEF IInv, DueRows
<1>2. due' \in SetToSeqs(ToSet(due) \cup S) /\ settled' = settled
  BY DEF Arrive
<1>3. due' \in Seq(Pairs) /\ Injective(due') /\ ToSet(due') = ToSet(due) \cup S
  BY <1>1, <1>2, Ordered
<1>. QED
  BY <1>2, <1>3 DEF IInv, DueRows, Injective

(* Row p becomes r, and is or is not among the due ones.                   *)
LEMMA RowBecomes ==
  ASSUME IInv, NEW p \in Pairs, NEW r \in Row, row' = [row EXCEPT ![p] = r],
         UNCHANGED <<due, settled, locked>>,
         row[p].status # "PENDING" \/ r.status = "PENDING",
         p \notin locked \/ r.status # "NONE"
  PROVE  row' \in [Pairs -> Row] /\ DueRows' /\ LockedRows'
<1>1. \A x \in Pairs : row'[x] = IF x = p THEN r ELSE row[x]
  BY DEF IInv
<1>2. row' \in [Pairs -> Row]
  BY DEF IInv
<1>3. ToSet(due) \subseteq Pairs
  BY Elements DEF IInv, DueRows
<1>4. DueRows'
  BY <1>1, <1>3 DEF IInv, DueRows, Injective, ToSet
<1>5. LockedRows'
  BY <1>1 DEF IInv, LockedRows
<1>. QED
  BY <1>2, <1>4, <1>5

LEMMA InsertStep ==
  ASSUME IInv, NEW p \in Pairs, InsertQuoteUpdate(p)
  PROVE  IInv'
<1>1. /\ row' = [row EXCEPT ![p] = Pending(NoRow)]
      /\ Arrive({p})
      /\ UNCHANGED <<locked, work, faults>>
  BY DEF InsertQuoteUpdate
<1>2. Pending(NoRow) \in Row /\ Pending(NoRow).status = "PENDING"
  BY RowsFit
<1>3. row' \in [Pairs -> Row] /\ \A x \in Pairs : row'[x] = IF x = p THEN Pending(NoRow) ELSE row[x]
  BY <1>1, <1>2 DEF IInv
<1>4. ToSet(due) \subseteq Pairs /\ \A x \in ToSet(due) : row[x].status = "PENDING"
  BY Elements DEF IInv, DueRows
<1>5. \A x \in ToSet(due) \cup {p} : row'[x].status = "PENDING"
  BY <1>2, <1>3, <1>4
<1>6. DueRows'
  BY <1>1, <1>5, Arrived
<1>7. LockedRows'
  BY <1>1, <1>2, <1>3 DEF IInv, LockedRows
<1>. QED
  BY <1>1, <1>3, <1>6, <1>7 DEF IInv, PairInHand

LEMMA LockStep ==
  ASSUME IInv, NEW p \in Pairs, TouchQuoteUpdate(p) \/ EndRefresh(p)
  PROVE  IInv'
<1>1. UNCHANGED <<row, due, settled, work, faults>>
  BY DEF TouchQuoteUpdate, EndRefresh
<1>2. LockedRows'
  BY <1>1 DEF TouchQuoteUpdate, EndRefresh, IInv, LockedRows
<1>3. DueRows'
  BY <1>1 DEF IInv, DueRows, Injective, ToSet
<1>. QED
  BY <1>1, <1>2, <1>3 DEF IInv, PairInHand

LEMMA TimeStep ==
  ASSUME IInv, NEW p \in Pairs, BecomesDue(p) \/ Settle(p) \/ LeaseRunsOut(p) \/ LeaseOverrun(p)
  PROVE  IInv'
<1>1. CASE BecomesDue(p)
  <2>1. Arrive({p}) /\ UNCHANGED <<row, locked, work, faults>> /\ row[p].status = "PENDING"
    BY <1>1 DEF BecomesDue
  <2>2. \A x \in ToSet(due) \cup {p} : row'[x].status = "PENDING"
    BY <2>1 DEF IInv, DueRows
  <2>3. DueRows'
    BY <2>1, <2>2, Arrived
  <2>. QED
    BY <2>1, <2>3 DEF IInv, LockedRows, PairInHand
<1>2. CASE Settle(p)
  <2>1. settled' = settled \cup {p} /\ p \in ToSet(due) /\ UNCHANGED <<row, due, locked, work, faults>>
    BY <1>2 DEF Settle
  <2>2. DueRows'
    BY <2>1 DEF IInv, DueRows, Injective, ToSet
  <2>. QED
    BY <2>1, <2>2 DEF IInv, LockedRows, PairInHand
<1>3. CASE LeaseRunsOut(p) \/ LeaseOverrun(p)
  <2>. DEFINE r == [row[p] EXCEPT !.expired = TRUE]
  <2>1. /\ row' = [row EXCEPT ![p] = r] /\ UNCHANGED <<due, settled, locked, work>>
        /\ row[p].status = "PROCESSING"
    BY <1>3 DEF LeaseRunsOut, LeaseOverrun, IInv, Row
  <2>2. r \in Row /\ r.status = "PROCESSING"
    BY <2>1 DEF IInv, Row
  <2>3. row' \in [Pairs -> Row] /\ DueRows' /\ LockedRows'
    BY <2>1, <2>2, RowBecomes
  <2>4. faults' \in 0 .. MaxFaults
    BY <1>3, Counted DEF LeaseRunsOut, LeaseOverrun
  <2>. QED
    BY <2>1, <2>3, <2>4 DEF IInv, PairInHand
<1>. QED
  BY <1>1, <1>2, <1>3

-----------------------------------------------------------------------------
(* The steps of a worker.                                                  *)

LEMMA MoveOnly ==
  ASSUME IInv, NEW w \in Workers,
         \/ Start(w) \/ Crash(w) \/ StatementFails(w) \/ NothingDue(w)
         \/ SaveFails(w) \/ LeaseLost(w) \/ DeleteLatest(w) \/ PollTick(w)
  PROVE  IInv'
<1>1. /\ UNCHANGED <<row, due, settled, locked>>
      /\ \E pc \in {"down", "requeue", "claim", "invalidating", "waiting"} : Goto(w, pc)
  BY DEF Start, Crash, StatementFails, NothingDue, SaveFails, LeaseLost, DeleteLatest, PollTick
<1>2. work' \in [Workers -> WorkState] /\ PairInHand'
  BY <1>1, Gone
<1>3. faults' \in 0 .. MaxFaults
  BY Counted DEF Start, Crash, StatementFails, NothingDue, SaveFails, LeaseLost, DeleteLatest,
                 PollTick
<1>4. DueRows' /\ LockedRows'
  BY <1>1 DEF IInv, DueRows, Injective, ToSet, LockedRows
<1>. QED
  BY <1>1, <1>2, <1>3, <1>4 DEF IInv

LEMMA RequeueStep ==
  ASSUME IInv, NEW w \in Workers, RequeueExpired(w)
  PROVE  IInv'
<1>1. /\ row' = [p \in Pairs |-> IF p \in Expired THEN Pending(row[p]) ELSE row[p]]
      /\ Arrive(Expired) /\ UNCHANGED locked /\ Expired \cap locked = {}
  BY DEF RequeueExpired
<1>2. work' \in [Workers -> WorkState] /\ PairInHand' /\ faults' \in 0 .. MaxFaults
  BY Replied DEF RequeueExpired
<1>3. row' \in [Pairs -> Row]
  BY <1>1, RowsFit DEF IInv
<1>4. ToSet(due) \subseteq Pairs /\ \A p \in ToSet(due) : row[p].status = "PENDING"
  BY Elements DEF IInv, DueRows
<1>5. Expired \subseteq Pairs
  BY DEF Expired
<1>6. \A p \in Expired : row'[p].status = "PENDING"
  BY <1>1, <1>5, RowsFit DEF IInv
<1>7. \A p \in ToSet(due) \cup Expired : row'[p].status = "PENDING"
  BY <1>1, <1>4, <1>6
<1>8. DueRows'
  BY <1>1, <1>5, <1>7, Arrived
<1>9. LockedRows'
  BY <1>1 DEF IInv, LockedRows
<1>. QED
  BY <1>2, <1>3, <1>8, <1>9 DEF IInv

LEMMA ClaimStep ==
  ASSUME IInv, NEW w \in Workers, ClaimNext(w)
  PROVE  IInv'
<1>1. PICK i \in Claimable :
        /\ row' = [row EXCEPT ![due[i]].status = "PROCESSING",
                              ![due[i]].holder = w,
                              ![due[i]].attempts = Attempt(@)]
        /\ due' = RemoveAt(due, i)
        /\ settled' = settled \ {due[i]}
        /\ \/ work' = [work EXCEPT ![w] = [Idle("calling") EXCEPT !.pair = due[i]]] /\ UNCHANGED faults
           \/ Goto(w, "waiting") /\ Fault
  BY DEF ClaimNext
<1>2. PICK p : p = due[i]
  OBVIOUS
<1>3. due \in Seq(Pairs) /\ Injective(due) /\ settled \subseteq ToSet(due)
  BY DEF IInv, DueRows
<1>4. i \in 1 .. Len(due) /\ p \notin locked
  BY <1>2, <1>3 DEF Claimable
<1>5. ToSet(due) = {due[j] : j \in 1 .. Len(due)} /\ ToSet(due) \subseteq Pairs
  BY <1>3, Elements
<1>6. p \in Pairs
  BY <1>2, <1>4, <1>5
<1>7. due' \in Seq(Pairs) /\ Injective(due') /\ ToSet(due') = ToSet(due) \ {p}
  BY <1>1, <1>2, <1>3, <1>4, Removed
<1>. DEFINE r == [row[p] EXCEPT !.status = "PROCESSING", !.holder = w, !.attempts = Attempt(@)]
<1>8. row' = [row EXCEPT ![p] = r]
  BY <1>1, <1>2, <1>6 DEF IInv, Row
<1>9. r \in Row
  <2>1. row[p] \in Row /\ row[p].attempts \in 0 .. MaxAttempts
    BY <1>6 DEF IInv, Row
  <2>2. Attempt(row[p].attempts) \in 0 .. MaxAttempts
    BY <2>1, ProgressAssumption DEF Attempt
  <2>. QED
    BY <2>1, <2>2 DEF Row
<1>10. row' \in [Pairs -> Row] /\ \A x \in Pairs : x # p => row'[x] = row[x]
  BY <1>6, <1>8, <1>9 DEF IInv
<1>11. DueRows'
  <2>1. \A x \in ToSet(due') : row'[x].status = "PENDING"
    BY <1>5, <1>7, <1>10 DEF IInv, DueRows
  <2>2. settled' \subseteq ToSet(due')
    BY <1>1, <1>2, <1>3, <1>7
  <2>. QED
    BY <1>7, <2>1, <2>2 DEF DueRows, Injective
<1>12. LockedRows'
  <2>1. locked' = locked
    BY DEF ClaimNext
  <2>. QED
    BY <1>4, <1>10, <2>1 DEF IInv, LockedRows
<1>13. work' \in [Workers -> WorkState] /\ PairInHand' /\ faults' \in 0 .. MaxFaults
  <2>. DEFINE s == [Idle("calling") EXCEPT !.pair = p]
  <2>1. s \in WorkState /\ s.pair = p
    BY <1>6 DEF Idle, WorkState
  <2>2. \/ work' = [work EXCEPT ![w] = s] /\ UNCHANGED faults
        \/ Goto(w, "waiting") /\ Fault
    BY <1>1, <1>2
  <2>. QED
    BY <1>6, <2>1, <2>2, Moved, Gone, Counted
<1>. QED
  BY <1>10, <1>11, <1>12, <1>13 DEF IInv

LEMMA RateStep ==
  ASSUME IInv, NEW w \in Workers, GetRate(w)
  PROVE  IInv'
<1>1. PICK ok \in BOOLEAN :
        work' = [work EXCEPT ![w].pc = "marking", ![w].ok = ok,
                             ![w].inTime = ~row[work[w].pair].expired]
  BY DEF GetRate
<1>2. PICK t \in BOOLEAN : t = ~row[work[w].pair].expired
  OBVIOUS
<1>. DEFINE s == [work[w] EXCEPT !.pc = "marking", !.ok = ok, !.inTime = t]
<1>3. work' = [work EXCEPT ![w] = s]
  BY <1>1, <1>2 DEF IInv, WorkState
<1>4. work[w] \in WorkState /\ work[w].pair \in Pairs
  BY DEF GetRate, IInv, PairInHand
<1>5. s \in WorkState /\ s.pair \in Pairs
  BY <1>4 DEF WorkState
<1>6. work' \in [Workers -> WorkState] /\ PairInHand'
  BY <1>3, <1>5, Moved
<1>7. UNCHANGED <<row, due, settled, locked, faults>>
  BY DEF GetRate
<1>. QED
  BY <1>6, <1>7 DEF IInv, DueRows, Injective, ToSet, LockedRows

LEMMA MarkStep ==
  ASSUME IInv, NEW w \in Workers, Finish(w) \/ ScheduleRetry(w)
  PROVE  IInv'
<1>1. PICK p : p = work[w].pair
  OBVIOUS
<1>2. p \in Pairs /\ row[p].status = "PROCESSING"
  BY <1>1 DEF Finish, ScheduleRetry, Applies, Holds, IInv, PairInHand
<1>3. PICK r \in Row : row' = [row EXCEPT ![p] = r]
  <2>1. row[p] \in Row
    BY <1>2 DEF IInv
  <2>. QED
    BY <1>1, <2>1, RowsFit DEF Finish, ScheduleRetry
<1>4. UNCHANGED <<due, settled, locked>> /\ p \notin locked
  BY <1>1 DEF Finish, ScheduleRetry
<1>5. row' \in [Pairs -> Row] /\ DueRows' /\ LockedRows'
  BY <1>2, <1>3, <1>4, RowBecomes
<1>6. work' \in [Workers -> WorkState] /\ PairInHand' /\ faults' \in 0 .. MaxFaults
  BY Replied DEF Finish, ScheduleRetry
<1>. QED
  BY <1>5, <1>6 DEF IInv

-----------------------------------------------------------------------------
LEMMA Initially == Init => IInv
<1>. SUFFICES ASSUME Init PROVE IInv
  OBVIOUS
<1>1. row \in [Pairs -> Row]
  BY RowsFit DEF Init
<1>2. work \in [Workers -> WorkState] /\ PairInHand
  BY IdleFits DEF Init, PairInHand
<1>3. DueRows /\ LockedRows
  BY EmptySeq DEF Init, DueRows, LockedRows, Injective, ToSet
<1>4. faults \in 0 .. MaxFaults
  BY ProgressAssumption DEF Init
<1>. QED
  BY <1>1, <1>2, <1>3, <1>4 DEF IInv

LEMMA Stepwise == IInv /\ [Next]_vars => IInv'
<1>. SUFFICES ASSUME IInv, [Next]_vars PROVE IInv'
  OBVIOUS
<1>1. ASSUME NEW p \in Pairs, \/ Refresh(p) \/ EndRefresh(p) \/ BecomesDue(p) \/ Settle(p)
                             \/ LeaseRunsOut(p) \/ LeaseOverrun(p)
      PROVE  IInv'
  BY <1>1, InsertStep, LockStep, TimeStep DEF Refresh
<1>2. ASSUME NEW w \in Workers, Run(w) \/ Crash(w) \/ StatementFails(w)
      PROVE  IInv'
  BY <1>2, MoveOnly, RequeueStep, ClaimStep, RateStep, MarkStep DEF Run
<1>3. CASE UNCHANGED vars
  BY <1>3 DEF vars, IInv, DueRows, Injective, ToSet, LockedRows, PairInHand
<1>. QED
  BY <1>1, <1>2, <1>3 DEF Next

(* Rows, workers and faults have their types; the queue of due rows holds  *)
(* PENDING rows only, each once: no step of ProcessOnce, of RequeueExpired *)
(* or of a client adds a row that is already there, or changes one without *)
(* taking it out; and the row that an open Refresh transaction has locked, *)
(* whose id it will answer, stays active until the transaction ends.       *)
THEOREM TypeCorrect == Spec => []TypeOK
<1>1. IInv /\ [Next]_vars => IInv'
  BY Stepwise
<1>. QED
  BY Initially, <1>1, Typed, PTL DEF Spec
=============================================================================
