-------------------------- MODULE QuoteQueueProofs --------------------------
(***************************************************************************)
(* The queue of QuoteWorker implements LeasedTasks, for every value of the *)
(* constants.                                                              *)
(***************************************************************************)
EXTENDS QuoteWorkerProofs

-----------------------------------------------------------------------------
(* A row that was never inserted was never claimed.                        *)
AbsentIsNew == \A u \in Ids : table[u].status = "ABSENT" => table[u].attempt_count = 0

LEMMA AbsentInvariance == Spec => []AbsentIsNew
<1>1. Init => AbsentIsNew
  BY DEF Init, Init_table, NewRow, AbsentIsNew
<1>2. IInv /\ AbsentIsNew /\ [Next]_vars => AbsentIsNew'
  <2>. SUFFICES ASSUME IInv, AbsentIsNew, [Next]_vars, NEW u \in Ids,
                       table'[u].status = "ABSENT"
                PROVE  table'[u].attempt_count = 0
    BY DEF AbsentIsNew
  <2>1. table'[u] = table[u]
    BY StepChanges DEF RowChange, EndedByHolder, EndedByRequeue
  <2>. QED
    BY <2>1 DEF AbsentIsNew
<1>. QED
  BY <1>1, <1>2, Invariance, PTL DEF Spec

-----------------------------------------------------------------------------
(* Abstract steps from what happens to the rows and to their holders.      *)

LEMMA Phases ==
  /\ Phase("ABSENT") = "new" /\ Phase("PENDING") = "open" /\ Phase("PROCESSING") = "taken"
  /\ Phase("SUCCESS") = "done" /\ Phase("FAILED") = "abandoned"
BY DEF Phase

(* Nothing that LeasedTasks sees of row u changes.                         *)
Kept(u) ==
  /\ table'[u].status = table[u].status
  /\ table'[u].pair = table[u].pair
  /\ table'[u].attempt_count = table[u].attempt_count
  /\ table'[u].rate = table[u].rate
  /\ Holders(u)' = Holders(u)

(* Row u gets another status and other holders.                            *)
Moves(u, from, to, H) ==
  /\ table[u].status = from /\ table'[u].status = to
  /\ table'[u].pair = table[u].pair
  /\ Holders(u)' = H

LEMMA KeptIsStutter ==
  ASSUME \A v \in Ids : Kept(v)
  PROVE  UNCHANGED Queue!tvars
BY DEF Kept, Queue!tvars

LEMMA AcceptFrom ==
  ASSUME NEW u \in Ids, NEW p \in Pairs,
         table[u].status = "ABSENT", table'[u].status = "PENDING", table'[u].pair = p,
         table'[u].attempt_count = table[u].attempt_count, table'[u].rate = table[u].rate,
         Holders(u)' = Holders(u),
         \A v \in Ids \ {u} : Kept(v),
         \A v \in Ids : table[v].status \in Active => table[v].pair # p,
         TypeOK
  PROVE  Queue!TNext
<1>1. \A v \in Ids : Phase(table[v].status) \in {"open", "taken"} => table[v].status \in Active
  BY Phases DEF TypeOK, Row, Active, Final
<1>2. Queue!Accept(u, p)
  BY <1>1, Phases DEF Queue!Accept, Kept
<1>. QED
  BY <1>2 DEF Queue!TNext

LEMMA TakeFrom ==
  ASSUME NEW u \in Ids, NEW H \in {{}} \cup {{w} : w \in Workers},
         Moves(u, "PENDING", "PROCESSING", H),
         table'[u].attempt_count = table[u].attempt_count + 1,
         table'[u].rate = table[u].rate,
         \A v \in Ids \ {u} : Kept(v)
  PROVE  Queue!TNext
<1>1. Queue!Take(u, H)
  BY Phases DEF Queue!Take, Kept, Moves
<1>. QED
  BY <1>1 DEF Queue!TNext

LEMMA ForgetFrom ==
  ASSUME NEW u \in Ids, Holders(u) # {}, Holders(u)' = {}, UNCHANGED table,
         \A v \in Ids \ {u} : Kept(v)
  PROVE  Queue!TNext
<1>1. Queue!Forget(u)
  BY DEF Queue!Forget, Kept
<1>. QED
  BY <1>1 DEF Queue!TNext

LEMMA ReleaseFrom ==
  ASSUME NEW K \in SUBSET Ids, K # {},
         \A u \in K : /\ Moves(u, "PROCESSING", "PENDING", {})
                      /\ table'[u].attempt_count = table[u].attempt_count
                      /\ table'[u].rate = table[u].rate,
         \A v \in Ids \ K : Kept(v)
  PROVE  Queue!TNext
<1>1. Queue!Release(K)
  BY Phases DEF Queue!Release, Kept, Moves
<1>. QED
  BY <1>1 DEF Queue!TNext

LEMMA FinishFrom ==
  ASSUME NEW u \in Ids, NEW r \in Rates, Holders(u) # {},
         Moves(u, "PROCESSING", "SUCCESS", {}), table'[u].rate = r,
         table'[u].attempt_count = table[u].attempt_count,
         \A v \in Ids \ {u} : Kept(v)
  PROVE  Queue!TNext
<1>1. Queue!Finish(u, r)
  BY Phases DEF Queue!Finish, Kept, Moves
<1>. QED
  BY <1>1 DEF Queue!TNext

LEMMA AbandonFrom ==
  ASSUME NEW u \in Ids, Holders(u) # {},
         Moves(u, "PROCESSING", "FAILED", {}), table'[u].rate = table[u].rate,
         table'[u].attempt_count = table[u].attempt_count,
         table[u].attempt_count >= MaxAttempts,
         \A v \in Ids \ {u} : Kept(v)
  PROVE  Queue!TNext
<1>1. Queue!Abandon(u)
  BY Phases DEF Queue!Abandon, Kept, Moves
<1>. QED
  BY <1>1 DEF Queue!TNext

-----------------------------------------------------------------------------
(* Who holds what.                                                         *)

LEMMA OneHolder ==
  ASSUME IInv, NEW u \in Ids, NEW v \in Ids, NEW w \in Holders(u)
  PROVE  /\ w \in Workers
         /\ Holders(u) = {w}
         /\ w \in Holders(v) => v = u
BY DEF Holders, IInv, TokensDistinct

(* A worker that forgets its token is no holder any more.                  *)
LEMMA HoldersAfter ==
  ASSUME IInv, NEW w \in Workers, NEW pc, Goto(w, pc),
         NEW v \in Ids, table'[v] = table[v]
  PROVE  Holders(v)' = Holders(v) \ {w}
<1>1. work'[w].token = NULL
  BY IdleAfter
<1>2. \A x \in Workers : x # w => work'[x] = work[x]
  BY DEF Goto, IInv, TypeOK
<1>. QED
  BY <1>1, <1>2 DEF Holders

(* Nobody holds a row without a lease.                                     *)
LEMMA NoHolders ==
  ASSUME NEW v \in Ids, table'[v].lease_token = NULL
  PROVE  Holders(v)' = {}
BY DEF Holders

LEMMA ForgetAbs ==
  ASSUME IInv, NEW w \in Workers, NEW pc, Goto(w, pc), UNCHANGED table
  PROVE  [Queue!TNext]_(Queue!tvars)
<1>1. \A v \in Ids : Holders(v)' = Holders(v) \ {w}
  BY HoldersAfter
<1>2. CASE \E u \in Ids : w \in Holders(u)
  <2>1. PICK u \in Ids : w \in Holders(u)
    BY <1>2
  <2>2. Holders(u) = {w} /\ \A v \in Ids : w \in Holders(v) => v = u
    BY <2>1, OneHolder
  <2>3. Holders(u)' = {} /\ \A v \in Ids \ {u} : Kept(v)
    BY <1>1, <2>2 DEF Kept
  <2>. QED
    BY <2>1, <2>3, ForgetFrom
<1>3. CASE ~ \E u \in Ids : w \in Holders(u)
  BY <1>1, <1>3, KeptIsStutter DEF Kept
<1>. QED
  BY <1>2, <1>3

LEMMA RequeueAbs ==
  ASSUME IInv, NEW w \in Workers, RequeueExpired(w)
  PROVE  [Queue!TNext]_(Queue!tvars)
<1>1. PICK pc : Goto(w, pc)
  BY DEF RequeueExpired
<1>2. /\ table' = [u \in Ids |-> IF u \in Expired THEN RequeuedRow(u) ELSE table[u]]
      /\ Expired \subseteq Ids /\ work[w].token = NULL
  BY DEF RequeueExpired, RequeueExpiredQuoteUpdates, Expired, IInv, TaskInHand
<1>3. ASSUME NEW v \in Ids \ Expired
      PROVE  Kept(v)
  <2>1. table'[v] = table[v]
    BY <1>2
  <2>2. Holders(v)' = Holders(v)
    BY <1>1, <1>2, <2>1, HoldersAfter DEF Holders
  <2>. QED
    BY <2>1, <2>2 DEF Kept
<1>4. ASSUME NEW u \in Expired
      PROVE  /\ Moves(u, "PROCESSING", "PENDING", {})
             /\ table'[u].attempt_count = table[u].attempt_count
             /\ table'[u].rate = table[u].rate
  <2>1. u \in Ids /\ table[u] \in Row /\ table[u].status = "PROCESSING"
    BY DEF Expired, IInv, TypeOK
  <2>2. table'[u] = [table[u] EXCEPT !.status = "PENDING",
                                     !.locked_until = NULL,
                                     !.lease_token = NULL,
                                     !.next_attempt_at = now,
                                     !.updated_at = now]
    BY <1>2, <2>1, <1>4 DEF RequeuedRow
  <2>3. /\ table'[u].status = "PENDING" /\ table'[u].pair = table[u].pair
        /\ table'[u].attempt_count = table[u].attempt_count
        /\ table'[u].rate = table[u].rate /\ table'[u].lease_token = NULL
    BY <2>1, <2>2 DEF Row
  <2>. QED
    BY <2>1, <2>3, NoHolders DEF Moves
<1>5. CASE Expired = {}
  BY <1>3, <1>5, KeptIsStutter
<1>6. CASE Expired # {}
  BY <1>2, <1>3, <1>4, <1>6, ReleaseFrom
<1>. QED
  BY <1>5, <1>6

(* The claimer holds the row, or nobody if the reply is lost.              *)
LEMMA ClaimAbs ==
  ASSUME IInv, NEW w \in Workers, ClaimNext(w)
  PROVE  Queue!TNext
<1>1. PICK u \in Claimable, skew \in ClockSkews, token \in FreshTokens :
        /\ ClaimNextQuoteUpdate(u, now + skew + LeaseDuration, token)
        /\ \/ work' = [work EXCEPT ![w] = [Idle("calling") EXCEPT
                         !.id = u, !.token = token, !.attempt = table'[u].attempt_count]]
           \/ Goto(w, "waiting")
  BY DEF ClaimNext
<1>2. /\ u \in Ids /\ table[u] \in Row /\ table[u].status = "PENDING"
      /\ token \in Tokens /\ token # NULL
      /\ \A v \in Ids : table[v].lease_token # token
      /\ \A x \in Workers : work[x].token # token
      /\ work[w].pc = "claim"
  BY <1>1, NullAssumption DEF ClaimNext, Claimable, FreshTokens, IInv, TypeOK
<1>3. PICK until, n : until = now + skew + LeaseDuration /\ n = table[u].attempt_count + 1
  OBVIOUS
<1>4. table' = [table EXCEPT ![u].status = "PROCESSING",
                             ![u].locked_until = until,
                             ![u].lease_token = token,
                             ![u].attempt_count = n,
                             ![u].updated_at = now]
  BY <1>1, <1>3 DEF ClaimNextQuoteUpdate
<1>5. \A v \in Ids : v # u => table'[v] = table[v]
  BY <1>4 DEF IInv, TypeOK
<1>6. /\ table'[u].status = "PROCESSING" /\ table'[u].pair = table[u].pair
      /\ table'[u].attempt_count = n /\ table'[u].rate = table[u].rate
      /\ table'[u].lease_token = token
  BY <1>2, <1>4 DEF IInv, TypeOK, Row
<1>7. work[w].token = NULL /\ table[u].lease_token = NULL
  BY <1>2 DEF IInv, TaskInHand, RowConsistent
<1>8. \A x \in Workers : x # w => work'[x] = work[x]
  BY <1>1 DEF Goto, IInv, TypeOK
<1>9. work'[w].token \in {token, NULL}
  <2>1. CASE Goto(w, "waiting")
    BY <2>1, IdleAfter
  <2>2. CASE work' = [work EXCEPT ![w] = [Idle("calling") EXCEPT
                        !.id = u, !.token = token, !.attempt = table'[u].attempt_count]]
    <3>1. work'[w] = [Idle("calling") EXCEPT
                        !.id = u, !.token = token, !.attempt = table'[u].attempt_count]
      BY <2>2 DEF IInv, TypeOK
    <3>. QED
      BY <3>1 DEF Idle
  <2>. QED
    BY <1>1, <2>1, <2>2
<1>10. Holders(u)' \in {{}} \cup {{x} : x \in Workers}
  <2>1. \A x \in Holders(u)' : x = w
    BY <1>2, <1>6, <1>8 DEF Holders
  <2>. QED
    BY <2>1
<1>11. ASSUME NEW v \in Ids \ {u}
       PROVE  Kept(v)
  <2>1. table'[v] = table[v] /\ table[v].lease_token # token
    BY <1>2, <1>5
  <2>2. Holders(v)' = Holders(v)
    BY <1>7, <1>8, <1>9, <2>1 DEF Holders
  <2>. QED
    BY <2>1, <2>2 DEF Kept
<1>12. PICK H \in {{}} \cup {{x} : x \in Workers} : Holders(u)' = H
  BY <1>10
<1>13. Moves(u, "PENDING", "PROCESSING", H)
  BY <1>2, <1>6, <1>12 DEF Moves
<1>. QED
  BY <1>2, <1>3, <1>6, <1>11, <1>13, TakeFrom

(* The three marks end the lease of the row that the worker holds.         *)
LEMMA MarkAbs ==
  ASSUME IInv, NEW w \in Workers, MarkSucceeded(w) \/ MarkFailed(w) \/ ScheduleRetry(w)
  PROVE  Queue!TNext
<1>. PICK u : u = work[w].id
  OBVIOUS
<1>1. work[w].pc = "marking" /\ HoldsLease(u, work[w].token, work[w].stmt_now)
  BY DEF MarkSucceeded, MarkFailed, ScheduleRetry, MarkQuoteUpdateSucceeded,
         MarkQuoteUpdateFailed, ScheduleQuoteUpdateRetry
<1>2. /\ u \in Ids /\ table[u] \in Row /\ table[u].status = "PROCESSING" /\ table[u].rate = NULL
      /\ work[w].attempt = table[u].attempt_count
  BY <1>1, HolderFacts
<1>3. w \in Holders(u)
  <2>1. work[w].token \in Tokens
    BY <1>1 DEF IInv, TaskInHand
  <2>. QED
    BY <1>1, <2>1, NullAssumption DEF HoldsLease, Holders
<1>4. \A v \in Ids \ {u} : w \notin Holders(v)
  BY <1>2, <1>3, OneHolder
<1>5. PICK pc : Goto(w, pc)
  BY DEF MarkSucceeded, MarkFailed, ScheduleRetry
<1>6. ASSUME NEW v \in Ids \ {u}, table'[v] = table[v]
      PROVE  Kept(v)
  <2>1. Holders(v)' = Holders(v) \ {w}
    BY <1>5, <1>6, HoldersAfter
  <2>2. Holders(v)' = Holders(v)
    BY <1>4, <2>1
  <2>. QED
    BY <1>6, <2>2 DEF Kept
<1>7. CASE MarkSucceeded(w)
  <2>1. PICK r \in Rates : r = work[w].rate
    BY <1>7 DEF MarkSucceeded, IInv, TypeOK, WorkerState
  <2>2. table' = [table EXCEPT ![u].status = "SUCCESS",
                               ![u].rate = r,
                               ![u].error_message = NULL,
                               ![u].locked_until = NULL,
                               ![u].lease_token = NULL,
                               ![u].updated_at = work[w].stmt_now]
    BY <1>7, <2>1 DEF MarkSucceeded, MarkQuoteUpdateSucceeded
  <2>3. /\ \A v \in Ids \ {u} : table'[v] = table[v]
        /\ table'[u].status = "SUCCESS" /\ table'[u].pair = table[u].pair
        /\ table'[u].attempt_count = table[u].attempt_count
        /\ table'[u].rate = r /\ table'[u].lease_token = NULL
    <3>1. /\ \A v \in Ids \ {u} : table'[v] = table[v]
          /\ table'[u] = [table[u] EXCEPT !.status = "SUCCESS",
                                         !.rate = r,
                                         !.error_message = NULL,
                                         !.locked_until = NULL,
                                         !.lease_token = NULL,
                                         !.updated_at = work[w].stmt_now]
      BY <1>2, <2>2 DEF IInv, TypeOK
    <3>. QED
      BY <1>2, <3>1 DEF Row
  <2>4. Moves(u, "PROCESSING", "SUCCESS", {})
    BY <1>2, <2>3, NoHolders DEF Moves
  <2>. QED
    BY <1>2, <1>3, <1>6, <2>3, <2>4, FinishFrom
<1>8. CASE MarkFailed(w)
  <2>1. table' = [table EXCEPT ![u].status = "FAILED",
                               ![u].rate = NULL,
                               ![u].error_message = "message",
                               ![u].locked_until = NULL,
                               ![u].lease_token = NULL,
                               ![u].updated_at = work[w].stmt_now]
    BY <1>8 DEF MarkFailed, MarkQuoteUpdateFailed
  <2>2. /\ \A v \in Ids \ {u} : table'[v] = table[v]
        /\ table'[u].status = "FAILED" /\ table'[u].pair = table[u].pair
        /\ table'[u].attempt_count = table[u].attempt_count
        /\ table'[u].rate = NULL /\ table'[u].lease_token = NULL
    <3>1. /\ \A v \in Ids \ {u} : table'[v] = table[v]
          /\ table'[u] = [table[u] EXCEPT !.status = "FAILED",
                                         !.rate = NULL,
                                         !.error_message = "message",
                                         !.locked_until = NULL,
                                         !.lease_token = NULL,
                                         !.updated_at = work[w].stmt_now]
      BY <1>2, <2>1 DEF IInv, TypeOK
    <3>. QED
      BY <1>2, <3>1 DEF Row
  <2>3. Moves(u, "PROCESSING", "FAILED", {})
    BY <1>2, <2>2, NoHolders DEF Moves
  <2>4. table[u].attempt_count >= MaxAttempts
    BY <1>2, <1>8 DEF MarkFailed, LastAttempt
  <2>. QED
    BY <1>2, <1>3, <1>6, <2>2, <2>3, <2>4, AbandonFrom
<1>9. CASE ScheduleRetry(w)
  <2>1. PICK due :
          table' = [table EXCEPT ![u].status = "PENDING",
                                 ![u].error_message = "message",
                                 ![u].locked_until = NULL,
                                 ![u].lease_token = NULL,
                                 ![u].next_attempt_at = due,
                                 ![u].updated_at = work[w].stmt_now]
    BY <1>9 DEF ScheduleRetry, ScheduleQuoteUpdateRetry
  <2>2. /\ \A v \in Ids \ {u} : table'[v] = table[v]
        /\ table'[u].status = "PENDING" /\ table'[u].pair = table[u].pair
        /\ table'[u].attempt_count = table[u].attempt_count
        /\ table'[u].rate = table[u].rate /\ table'[u].lease_token = NULL
    <3>1. /\ \A v \in Ids \ {u} : table'[v] = table[v]
          /\ table'[u] = [table[u] EXCEPT !.status = "PENDING",
                                         !.error_message = "message",
                                         !.locked_until = NULL,
                                         !.lease_token = NULL,
                                         !.next_attempt_at = due,
                                         !.updated_at = work[w].stmt_now]
      BY <1>2, <2>1 DEF IInv, TypeOK
    <3>. QED
      BY <1>2, <3>1 DEF Row
  <2>3. Moves(u, "PROCESSING", "PENDING", {})
    BY <1>2, <2>2, NoHolders DEF Moves
  <2>4. {u} \in SUBSET Ids
    BY <1>2
  <2>. QED
    BY <1>6, <2>2, <2>3, <2>4, ReleaseFrom
<1>. QED
  BY <1>7, <1>8, <1>9

LEMMA GetRateAbs ==
  ASSUME IInv, NEW w \in Workers, GetRate(w)
  PROVE  UNCHANGED Queue!tvars
<1>1. PICK r \in Rates \cup {NULL} :
        work' = [work EXCEPT ![w].pc = "marking", ![w].rate = r, ![w].stmt_now = now]
  BY DEF GetRate
<1>2. \A x \in Workers : work'[x].token = work[x].token
  BY <1>1 DEF IInv, TypeOK, WorkerState
<1>3. table' = table
  BY DEF GetRate
<1>. QED
  BY <1>2, <1>3, KeptIsStutter DEF Kept, Holders

LEMMA RefreshAbs ==
  ASSUME IInv, AbsentIsNew, NEW p \in Pairs, NEW t \in Nat, InsertQuoteUpdate(p, t),
         UNCHANGED work
  PROVE  Queue!TNext
<1>1. PICK u \in Ids : /\ table[u].status = "ABSENT"
                       /\ table' = [table EXCEPT ![u] = NewRow("PENDING", p, t)]
  BY DEF InsertQuoteUpdate
<1>2. /\ \A v \in Ids \ {u} : table'[v] = table[v]
      /\ table'[u] = NewRow("PENDING", p, t)
  BY <1>1 DEF IInv, TypeOK
<1>3. /\ table'[u].status = "PENDING" /\ table'[u].pair = p
      /\ table'[u].attempt_count = 0 /\ table'[u].rate = NULL
      /\ table'[u].lease_token = NULL
  BY <1>2 DEF NewRow
<1>4. table[u].attempt_count = 0 /\ table[u].rate = NULL /\ table[u].lease_token = NULL
  BY <1>1 DEF AbsentIsNew, IInv, RowConsistent
<1>5. Holders(u)' = Holders(u) /\ \A v \in Ids \ {u} : Kept(v)
  BY <1>2, <1>3, <1>4 DEF Holders, Kept
<1>6. \A v \in Ids : table[v].status \in Active => table[v].pair # p
  BY DEF InsertQuoteUpdate, ActiveRows
<1>. QED
  BY <1>1, <1>3, <1>4, <1>5, <1>6, AcceptFrom DEF IInv

(* Steps that neither a row nor a holder notices.                          *)
LEMMA SameAbs ==
  ASSUME UNCHANGED <<table, work>>
  PROVE  UNCHANGED Queue!tvars
BY KeptIsStutter DEF Kept, Holders

LEMMA StepAbs ==
  ASSUME IInv, AbsentIsNew, [Next]_vars
  PROVE  [Queue!TNext]_(Queue!tvars)
<1>1. ASSUME NEW w \in Workers, Step(w)
      PROVE  [Queue!TNext]_(Queue!tvars)
  <2>1. CASE RequeueExpired(w)
    BY <2>1, RequeueAbs
  <2>2. CASE ClaimNext(w)
    BY <2>2, ClaimAbs
  <2>3. CASE MarkSucceeded(w) \/ MarkFailed(w) \/ ScheduleRetry(w)
    BY <2>3, MarkAbs
  <2>4. CASE GetRate(w)
    BY <2>4, GetRateAbs
  <2>5. CASE Start(w) \/ Crash(w) \/ NothingDue(w) \/ LeaseLost(w) \/ StatementFails(w)
             \/ DeleteLatest(w) \/ PollTick(w)
    <3>1. UNCHANGED table /\ \E pc : Goto(w, pc)
      BY <2>5 DEF Start, Crash, NothingDue, LeaseLost, StatementFails, DeleteLatest, PollTick
    <3>. QED
      BY <3>1, ForgetAbs
  <2>. QED
    BY <1>1, <2>1, <2>2, <2>3, <2>4, <2>5 DEF Step
<1>2. ASSUME NEW p \in Pairs, Refresh(p)
      PROVE  [Queue!TNext]_(Queue!tvars)
  <2>1. UNCHANGED work
    BY <1>2 DEF Refresh
  <2>2. CASE \E t \in Nat : InsertQuoteUpdate(p, t)
    BY <2>1, <2>2, RefreshAbs
  <2>3. CASE TouchQuoteUpdate(p)
    BY <2>1, <2>3, SameAbs DEF TouchQuoteUpdate
  <2>. QED
    BY <1>2, <2>2, <2>3 DEF Refresh
<1>3. CASE Tick \/ CommitRefresh
  BY <1>3, SameAbs DEF Tick, CommitRefresh, EndRefresh
<1>4. CASE UNCHANGED vars
  BY <1>4, SameAbs DEF vars
<1>. QED
  BY <1>1, <1>2, <1>3, <1>4 DEF Next

(* The workers and the table implement the queue of LeasedTasks: one open  *)
(* task per pair, in the hands of one worker at most, finished only by     *)
(* that worker, abandoned only after MaxAttempts.                          *)
THEOREM Refinement == Spec => QueueSpec
<1>1. Init => Queue!TInit
  <2>. SUFFICES ASSUME Init PROVE Queue!TInit
    OBVIOUS
  <2>1. \A u \in Ids : /\ table[u].status = "ABSENT" /\ table[u].pair = NULL
                       /\ table[u].attempt_count = 0 /\ table[u].rate = NULL
    BY DEF Init, Init_table, NewRow
  <2>2. \A u \in Ids : Holders(u) = {}
    BY DEF Init, Idle, Holders
  <2>. QED
    BY <2>1, <2>2, Phases DEF Queue!TInit
<1>2. IInv /\ AbsentIsNew /\ [Next]_vars => [Queue!TNext]_(Queue!tvars)
  BY StepAbs
<1>. QED
  BY <1>1, <1>2, Invariance, AbsentInvariance, PTL DEF Spec, QueueSpec, Queue!TSpec

-----------------------------------------------------------------------------
(* What the refined specification is worth: the steps of LeasedTasks alone *)
(* keep its promises, said of the rows and workers that stand for tasks.   *)

phase(u)  == Phase(table[u].status)
tries(u)  == table[u].attempt_count
result(u) == table[u].rate

(* At most one task in progress per pair.                                  *)
OneOpenTask ==
  \A u, v \in Ids :
    phase(u) \in {"open", "taken"} /\ phase(v) \in {"open", "taken"}
      /\ table[u].pair = table[v].pair => u = v

(* A task that somebody has is taken, and by nobody else.                  *)
HolderAlone ==
  \A u \in Ids : Holders(u) # {} => phase(u) = "taken" /\ \E w \in Workers : Holders(u) = {w}

(* A task is given up after MaxAttempts tries, and done with a result.     *)
EndsWithCause ==
  \A u \in Ids : /\ tries(u) \in Nat
                 /\ phase(u) = "abandoned" => tries(u) >= MaxAttempts
                 /\ phase(u) = "done" => result(u) \in Rates

Promises == OneOpenTask /\ HolderAlone /\ EndsWithCause

(* What a step does to task u, when it is not left alone.                  *)
Taken(u) ==
  /\ phase(u) = "open" /\ phase(u)' = "taken"
  /\ Holders(u)' = {} \/ \E w \in Workers : Holders(u)' = {w}
  /\ tries(u)' = tries(u) + 1

Dropped(u) ==
  /\ phase(u) = "taken" \/ Holders(u) # {}
  /\ phase(u)' \in {phase(u), "open"} /\ Holders(u)' = {} /\ tries(u)' = tries(u)
  /\ result(u)' = result(u)

Ended(u) ==
  /\ phase(u) = "taken" /\ Holders(u)' = {} /\ tries(u)' = tries(u)
  /\ \/ phase(u)' = "done" /\ result(u)' \in Rates
     \/ phase(u)' = "abandoned" /\ tries(u) >= MaxAttempts

Untouched(u) ==
  /\ phase(u)' = phase(u) /\ Holders(u)' = Holders(u)
  /\ tries(u)' = tries(u) /\ result(u)' = result(u)

(* Some tasks take one of these steps, and no task changes its subject.    *)
Works ==
  \A u \in Ids : /\ table'[u].pair = table[u].pair
                 /\ Untouched(u) \/ Taken(u) \/ Dropped(u) \/ Ended(u)

(* Or a task is accepted whose subject has none.                           *)
Accepts ==
  \E k \in Ids : /\ phase(k) = "new" /\ phase(k)' = "open"
                 /\ \A j \in Ids : phase(j) \in {"open", "taken"} => table[j].pair # table'[k].pair
                 /\ \A u \in Ids : /\ Holders(u)' = Holders(u)
                                   /\ tries(u)' = tries(u) /\ result(u)' = result(u)
                                   /\ u # k => /\ phase(u)' = phase(u)
                                               /\ table'[u].pair = table[u].pair

LEMMA TaskStep == Queue!TNext => Works \/ Accepts
<1>1. ASSUME NEW k \in Ids, NEW p \in Pairs, Queue!Accept(k, p)
      PROVE  Accepts
  <2>1. /\ phase(k) = "new"
        /\ \A j \in Ids : phase(j) \in {"open", "taken"} => table[j].pair # p
    BY <1>1 DEF Queue!Accept, phase
  <2>2. \A u \in Ids : phase(u)' = IF u = k THEN "open" ELSE phase(u)
    BY <1>1 DEF Queue!Accept, phase
  <2>3. \A u \in Ids : table'[u].pair = IF u = k THEN p ELSE table[u].pair
    BY <1>1 DEF Queue!Accept
  <2>4. \A u \in Ids : /\ Holders(u)' = Holders(u)
                       /\ tries(u)' = tries(u) /\ result(u)' = result(u)
    BY <1>1 DEF Queue!Accept, tries, result
  <2>. QED
    BY <2>1, <2>2, <2>3, <2>4 DEF Accepts
<1>2. ASSUME NEW k \in Ids, NEW H \in {{}} \cup {{w} : w \in Workers}, Queue!Take(k, H)
      PROVE  Works
  <2>1. phase(k) = "open" /\ \A u \in Ids : phase(u)' = IF u = k THEN "taken" ELSE phase(u)
    BY <1>2 DEF Queue!Take, phase
  <2>2. \A u \in Ids : Holders(u)' = IF u = k THEN H ELSE Holders(u)
    BY <1>2 DEF Queue!Take
  <2>3. \A u \in Ids : tries(u)' = IF u = k THEN tries(u) + 1 ELSE tries(u)
    BY <1>2 DEF Queue!Take, tries
  <2>4. \A u \in Ids : table'[u].pair = table[u].pair /\ result(u)' = result(u)
    BY <1>2 DEF Queue!Take, result
  <2>5. H = {} \/ \E w \in Workers : H = {w}
    OBVIOUS
  <2>6. Taken(k)
    BY <2>1, <2>2, <2>3, <2>5 DEF Taken
  <2>. QED
    BY <2>1, <2>2, <2>3, <2>4, <2>6 DEF Works, Untouched
<1>3. ASSUME NEW k \in Ids, Queue!Forget(k)
      PROVE  Works
  BY <1>3 DEF Queue!Forget, Works, Dropped, Untouched, phase, tries, result
<1>4. ASSUME NEW K \in SUBSET Ids, Queue!Release(K)
      PROVE  Works
  <2>1. /\ \A u \in K : phase(u) = "taken"
        /\ \A u \in Ids : phase(u)' = IF u \in K THEN "open" ELSE phase(u)
    BY <1>4 DEF Queue!Release, phase
  <2>2. \A u \in Ids : Holders(u)' = IF u \in K THEN {} ELSE Holders(u)
    BY <1>4 DEF Queue!Release
  <2>3. \A u \in Ids : /\ table'[u].pair = table[u].pair
                       /\ tries(u)' = tries(u) /\ result(u)' = result(u)
    BY <1>4 DEF Queue!Release, tries, result
  <2>. QED
    BY <2>1, <2>2, <2>3 DEF Works, Dropped, Untouched
<1>5. ASSUME NEW k \in Ids, NEW r \in Rates, Queue!Finish(k, r)
      PROVE  Works
  BY <1>5 DEF Queue!Finish, Works, Ended, Untouched, phase, tries, result
<1>6. ASSUME NEW k \in Ids, Queue!Abandon(k)
      PROVE  Works
  BY <1>6 DEF Queue!Abandon, Works, Ended, Untouched, phase, tries, result
<1>. QED
  BY <1>1, <1>2, <1>3, <1>4, <1>5, <1>6 DEF Queue!TNext

LEMMA TaskStutter == UNCHANGED Queue!tvars => Works
BY DEF Queue!tvars, Works, Untouched, phase, tries, result

LEMMA WorksKeep ==
  ASSUME Promises, Works
  PROVE  Promises'
<1>1. ASSUME NEW u \in Ids
      PROVE  /\ phase(u)' \in {"open", "taken"} => phase(u) \in {"open", "taken"}
             /\ Holders(u)' # {} => phase(u)' = "taken" /\ \E w \in Workers : Holders(u)' = {w}
             /\ tries(u)' \in Nat
             /\ phase(u)' = "abandoned" => tries(u)' >= MaxAttempts
             /\ phase(u)' = "done" => result(u)' \in Rates
  <2>1. /\ Holders(u) # {} => phase(u) = "taken" /\ \E w \in Workers : Holders(u) = {w}
        /\ tries(u) \in Nat
        /\ phase(u) = "abandoned" => tries(u) >= MaxAttempts
        /\ phase(u) = "done" => result(u) \in Rates
    BY DEF Promises, HolderAlone, EndsWithCause
  <2>2. CASE Untouched(u)
    BY <2>1, <2>2 DEF Untouched
  <2>3. CASE Taken(u)
    BY <2>1, <2>3 DEF Taken
  <2>4. CASE Dropped(u)
    BY <2>1, <2>4 DEF Dropped
  <2>5. CASE Ended(u)
    BY <2>1, <2>5 DEF Ended
  <2>. QED
    BY <2>2, <2>3, <2>4, <2>5 DEF Works
<1>2. \A u \in Ids : table'[u].pair = table[u].pair
  BY DEF Works
<1>3. OneOpenTask'
  BY <1>1, <1>2 DEF Promises, OneOpenTask
<1>4. HolderAlone' /\ EndsWithCause'
  BY <1>1 DEF HolderAlone, EndsWithCause
<1>. QED
  BY <1>3, <1>4 DEF Promises

LEMMA AcceptsKeep ==
  ASSUME Promises, Accepts
  PROVE  Promises'
<1>1. PICK k \in Ids :
        /\ phase(k) = "new" /\ phase(k)' = "open"
        /\ \A j \in Ids : phase(j) \in {"open", "taken"} => table[j].pair # table'[k].pair
        /\ \A u \in Ids : /\ Holders(u)' = Holders(u)
                          /\ tries(u)' = tries(u) /\ result(u)' = result(u)
                          /\ u # k => phase(u)' = phase(u) /\ table'[u].pair = table[u].pair
  BY DEF Accepts
<1>2. OneOpenTask'
  BY <1>1 DEF Promises, OneOpenTask
<1>3. HolderAlone'
  BY <1>1 DEF Promises, HolderAlone
<1>4. EndsWithCause'
  BY <1>1 DEF Promises, EndsWithCause
<1>. QED
  BY <1>2, <1>3, <1>4 DEF Promises

(* LeasedTasks promises what its comment says: by its steps alone there is *)
(* one task in progress per pair, one holder per task, no task abandoned   *)
(* early and none done without a result, so that Refinement carries all of *)
(* them over to the workers and the table.                                 *)
THEOREM PromisesKept == Queue!TSpec => [](OneOpenTask /\ HolderAlone /\ EndsWithCause)
<1>1. Queue!TInit => Promises
  <2>. SUFFICES ASSUME Queue!TInit PROVE Promises
    OBVIOUS
  <2>1. \A u \in Ids : phase(u) = "new" /\ Holders(u) = {} /\ tries(u) = 0
    BY DEF Queue!TInit, phase, tries
  <2>. QED
    BY <2>1 DEF Promises, OneOpenTask, HolderAlone, EndsWithCause
<1>2. Promises /\ [Queue!TNext]_(Queue!tvars) => Promises'
  BY TaskStep, TaskStutter, WorksKeep, AcceptsKeep
<1>3. Promises => OneOpenTask /\ HolderAlone /\ EndsWithCause
  BY DEF Promises
<1>. QED
  BY <1>1, <1>2, <1>3, PTL DEF Queue!TSpec
=============================================================================
