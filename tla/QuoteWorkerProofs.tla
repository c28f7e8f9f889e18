-------------------------- MODULE QuoteWorkerProofs -------------------------
(***************************************************************************)
(* Proofs about QuoteWorker, for every set of workers, ids, pairs, tokens  *)
(* and rates, every clock skew and every bound.                            *)
(***************************************************************************)
EXTENDS QuoteWorker, TLAPS

-----------------------------------------------------------------------------
(* The inductive invariant.                                                *)

(* A worker has a task exactly between its claim and its mark.             *)
TaskInHand ==
  \A w \in Workers :
    IF work[w].pc \in {"calling", "marking"}
      THEN work[w].id \in Ids /\ work[w].token \in Tokens
      ELSE work[w].token = NULL

(* No token is remembered twice.                                           *)
TokensDistinct ==
  /\ \A w, x \in Workers : work[w].token # NULL /\ work[w].token = work[x].token => w = x
  /\ \A u, v \in Ids : table[u].lease_token # NULL /\ table[u].lease_token = table[v].lease_token
                       => u = v

(* Whoever holds the current lease of a row claimed that row, in its       *)
(* current attempt.                                                        *)
HoldersAgree ==
  \A u \in Ids, w \in Workers :
    work[w].token # NULL /\ work[w].token = table[u].lease_token =>
      /\ work[w].id = u
      /\ work[w].attempt = table[u].attempt_count

(* Times only come from the past, and a success of a pair precedes the     *)
(* claim of its active row, which precedes the statement of its holder.    *)
TimesOrdered ==
  /\ \A u \in Ids : table[u].updated_at <= now
  /\ \A w \in Workers : work[w].stmt_now <= now
  /\ \A u, v \in Ids :
       /\ table[u].status = "PROCESSING" /\ table[v].status = "SUCCESS"
       /\ table[u].pair = table[v].pair
       => table[v].updated_at <= table[u].updated_at
  /\ \A u \in Ids, w \in Workers :
       /\ work[w].pc = "marking"
       /\ work[w].token # NULL /\ work[w].token = table[u].lease_token
       => table[u].updated_at <= work[w].stmt_now

IInv ==
  /\ TypeOK
  /\ RowConsistent
  /\ OneActivePerPair
  /\ TaskInHand
  /\ TokensDistinct
  /\ HoldersAgree
  /\ FailsOnlyAfterMaxAttempts
  /\ TimesOrdered

-----------------------------------------------------------------------------
(* Lemmas: one for each kind of step.                                      *)

LEMMA IdleType ==
  ASSUME NEW pc \in {"down", "requeue", "claim", "calling", "marking", "invalidating", "waiting"}
  PROVE  Idle(pc) \in WorkerState /\ Idle(pc).pc = pc /\ Idle(pc).token = NULL
         /\ Idle(pc).stmt_now = 0
BY DEF Idle, WorkerState

(* A worker that loses its task changes nothing else.                      *)
LEMMA ForgetStep ==
  ASSUME IInv, NEW w \in Workers,
         NEW pc \in {"down", "requeue", "claim", "invalidating", "waiting"},
         Goto(w, pc), UNCHANGED <<table, locked, now>>
  PROVE  IInv'
<1>1. /\ Idle(pc) \in WorkerState
      /\ Idle(pc).pc = pc /\ Idle(pc).token = NULL /\ Idle(pc).stmt_now = 0
  BY IdleType
<1>2. /\ work' \in [Workers -> WorkerState]
      /\ \A x \in Workers : work'[x] = IF x = w THEN Idle(pc) ELSE work[x]
  BY <1>1 DEF Goto, IInv, TypeOK
<1>3. TypeOK'
  BY <1>2 DEF IInv, TypeOK
<1>4. RowConsistent' /\ OneActivePerPair' /\ FailsOnlyAfterMaxAttempts'
  BY DEF IInv, RowConsistent, OneActivePerPair, FailsOnlyAfterMaxAttempts
<1>5. TaskInHand'
  BY <1>1, <1>2 DEF IInv, TaskInHand
<1>6. TokensDistinct'
  BY <1>1, <1>2 DEF IInv, TokensDistinct
<1>7. HoldersAgree'
  BY <1>1, <1>2 DEF IInv, HoldersAgree
<1>8. TimesOrdered'
  BY <1>1, <1>2 DEF IInv, TimesOrdered, TypeOK
<1>. QED
  BY <1>3, <1>4, <1>5, <1>6, <1>7, <1>8 DEF IInv

(* What the four statements that end a lease make of the row.              *)
Released(u) ==
  /\ table[u].status = "PROCESSING"
  /\ table'[u] \in Row
  /\ table'[u].pair = table[u].pair
  /\ table'[u].attempt_count = table[u].attempt_count
  /\ table'[u].lease_token = NULL
  /\ table'[u].locked_until = NULL
  /\ table'[u].updated_at <= now
  /\ \/ table'[u].status = "PENDING" /\ table'[u].rate = NULL
     \/ table'[u].status = "SUCCESS" /\ table'[u].rate # NULL /\ table'[u].error_message = NULL
     \/ /\ table'[u].status = "FAILED" /\ table'[u].rate = NULL
        /\ table'[u].error_message # NULL /\ table[u].attempt_count >= MaxAttempts

(* Ending leases, by their holder or by a requeue, keeps the invariant.    *)
LEMMA ReleaseStep ==
  ASSUME IInv, NEW w \in Workers,
         NEW pc \in {"down", "requeue", "claim", "invalidating", "waiting"},
         table' = [u \in Ids |-> table'[u]],
         \A u \in Ids : table'[u] = table[u] \/ Released(u),
         Goto(w, pc), UNCHANGED <<locked, now>>
  PROVE  IInv'
<1>1. /\ Idle(pc) \in WorkerState
      /\ Idle(pc).pc = pc /\ Idle(pc).token = NULL /\ Idle(pc).stmt_now = 0
  BY IdleType
<1>2. /\ work' \in [Workers -> WorkerState]
      /\ \A x \in Workers : work'[x] = IF x = w THEN Idle(pc) ELSE work[x]
  BY <1>1 DEF Goto, IInv, TypeOK
<1>3. TypeOK'
  BY <1>2 DEF IInv, TypeOK, Released
<1>4. RowConsistent'
  BY DEF IInv, RowConsistent, Released
<1>5. OneActivePerPair'
  BY DEF IInv, OneActivePerPair, Released, Active
<1>6. FailsOnlyAfterMaxAttempts'
  BY DEF IInv, FailsOnlyAfterMaxAttempts, Released
<1>7. TaskInHand'
  BY <1>1, <1>2 DEF IInv, TaskInHand
<1>8. TokensDistinct'
  BY <1>1, <1>2 DEF IInv, TokensDistinct, Released
<1>9. HoldersAgree'
  BY <1>1, <1>2 DEF IInv, HoldersAgree, Released
<1>10. TimesOrdered'
  <2>1. \A u \in Ids : table'[u].updated_at <= now'
    BY DEF IInv, TimesOrdered, Released
  <2>2. \A x \in Workers : work'[x].stmt_now <= now'
    BY <1>1, <1>2 DEF IInv, TimesOrdered, TypeOK
  <2>3. ASSUME NEW u \in Ids, NEW v \in Ids,
               table'[u].status = "PROCESSING", table'[v].status = "SUCCESS",
               table'[u].pair = table'[v].pair
        PROVE  table'[v].updated_at <= table'[u].updated_at
    <3>1. table'[u] = table[u] /\ u # v
      BY <2>3 DEF Released
    <3>2. table'[v] = table[v]
      BY <2>3, <3>1 DEF Released, IInv, OneActivePerPair, Active
    <3>. QED
      BY <2>3, <3>1, <3>2 DEF IInv, TimesOrdered
  <2>4. ASSUME NEW u \in Ids, NEW x \in Workers, work'[x].pc = "marking",
               work'[x].token # NULL, work'[x].token = table'[u].lease_token
        PROVE  table'[u].updated_at <= work'[x].stmt_now
    BY <2>4, <1>1, <1>2 DEF IInv, TimesOrdered, Released
  <2>. QED
    BY <2>1, <2>2, <2>3, <2>4 DEF TimesOrdered
<1>. QED
  BY <1>3, <1>4, <1>5, <1>6, <1>7, <1>8, <1>9, <1>10 DEF IInv

LEMMA RequeueExpiredStep ==
  ASSUME IInv, NEW w \in Workers, RequeueExpired(w)
  PROVE  IInv'
<1>1. PICK pc \in {"claim", "waiting"} : Goto(w, pc)
  BY DEF RequeueExpired, AfterReply
<1>2. /\ table' = [u \in Ids |-> IF u \in Expired THEN RequeuedRow(u) ELSE table[u]]
      /\ UNCHANGED <<locked, now>>
  BY DEF RequeueExpired, RequeueExpiredQuoteUpdates
<1>3. ASSUME NEW u \in Expired
      PROVE  Released(u)
  <2>1. u \in Ids /\ table[u] \in Row /\ now \in Nat /\ table[u].status = "PROCESSING"
    BY DEF Expired, IInv, TypeOK
  <2>2. table[u].rate = NULL
    BY <2>1 DEF IInv, RowConsistent
  <2>3. table'[u] = [table[u] EXCEPT !.status = "PENDING",
                                   !.locked_until = NULL,
                                   !.lease_token = NULL,
                                   !.next_attempt_at = now,
                                   !.updated_at = now]
    BY <1>2, <2>1, <1>3 DEF RequeuedRow
  <2>4. PICK r \in Row, d \in Int, t \in Nat : r = table[u] /\ d = now /\ t = now
    BY <2>1
  <2>5. /\ table'[u] \in Row
        /\ table'[u].status = "PENDING"
        /\ table'[u].pair = table[u].pair
        /\ table'[u].attempt_count = table[u].attempt_count
        /\ table'[u].rate = table[u].rate
        /\ table'[u].locked_until = NULL
        /\ table'[u].lease_token = NULL
        /\ table'[u].updated_at = t
    <3>1. table'[u] = [r EXCEPT !.status = "PENDING",
                                !.locked_until = NULL,
                                !.lease_token = NULL,
                                !.next_attempt_at = d,
                                !.updated_at = t]
      BY <2>3, <2>4
    <3>. QED
      BY <3>1, <2>4, ZenonT(60) DEF Row, Active
  <2>6. table'[u].updated_at <= now
    BY <2>1, <2>4, <2>5
  <2>. QED
    BY <2>1, <2>2, <2>5, <2>6 DEF Released
<1>4. \A u \in Ids : table'[u] = table[u] \/ Released(u)
  BY <1>2, <1>3
<1>5. table' = [u \in Ids |-> table'[u]]
  BY <1>2
<1>. QED
  BY ReleaseStep, <1>1, <1>2, <1>4, <1>5

(* What is known when a statement finds its row under its lease.           *)
LEMMA HolderFacts ==
  ASSUME IInv, NEW w \in Workers, work[w].pc = "marking",
         HoldsLease(work[w].id, work[w].token, work[w].stmt_now)
  PROVE  /\ work[w].id \in Ids
         /\ table[work[w].id] \in Row
         /\ table[work[w].id].status = "PROCESSING"
         /\ table[work[w].id].rate = NULL
         /\ work[w].attempt = table[work[w].id].attempt_count
         /\ work[w].stmt_now \in Nat
         /\ table[work[w].id].updated_at <= work[w].stmt_now
         /\ work[w].stmt_now <= now
<1>1. work[w].id \in Ids /\ work[w].token \in Tokens
  BY DEF IInv, TaskInHand
<1>2. work[w].token # NULL
  BY <1>1, NullAssumption
<1>3. /\ table[work[w].id] \in Row
      /\ work[w].stmt_now \in Nat
      /\ table[work[w].id].status = "PROCESSING"
      /\ table[work[w].id].lease_token = work[w].token
  BY <1>1 DEF IInv, TypeOK, HoldsLease, WorkerState
<1>4. table[work[w].id].rate = NULL
  BY <1>1, <1>3 DEF IInv, RowConsistent
<1>5. work[w].attempt = table[work[w].id].attempt_count
  BY <1>1, <1>2, <1>3 DEF IInv, HoldersAgree
<1>6. table[work[w].id].updated_at <= work[w].stmt_now /\ work[w].stmt_now <= now
  BY <1>1, <1>2, <1>3 DEF IInv, TimesOrdered
<1>. QED
  BY <1>1, <1>3, <1>4, <1>5, <1>6

LEMMA MarkSucceededStep ==
  ASSUME IInv, NEW w \in Workers, MarkSucceeded(w)
  PROVE  IInv'
<1>. DEFINE u == work[w].id
<1>1. PICK pc \in {"invalidating", "waiting"} : Goto(w, pc)
  BY DEF MarkSucceeded, AfterReply
<1>2. /\ HoldsLease(u, work[w].token, work[w].stmt_now)
      /\ work[w].pc = "marking" /\ work[w].rate # NULL
      /\ UNCHANGED <<locked, now>>
      /\ table' = [table EXCEPT ![u].status = "SUCCESS",
                                ![u].rate = work[w].rate,
                                ![u].error_message = NULL,
                                ![u].locked_until = NULL,
                                ![u].lease_token = NULL,
                                ![u].updated_at = work[w].stmt_now]
  BY DEF MarkSucceeded, MarkQuoteUpdateSucceeded
<1>3. /\ u \in Ids /\ table[u] \in Row /\ table[u].status = "PROCESSING"
      /\ work[w].stmt_now \in Nat /\ work[w].stmt_now <= now
  BY <1>2, HolderFacts
<1>4. work[w].rate \in Rates
  BY <1>2 DEF IInv, TypeOK, WorkerState
<1>5. /\ table' = [v \in Ids |-> table'[v]]
      /\ \A v \in Ids \ {u} : table'[v] = table[v]
      /\ table'[u] = [table[u] EXCEPT !.status = "SUCCESS",
                                      !.rate = work[w].rate,
                                      !.error_message = NULL,
                                      !.locked_until = NULL,
                                      !.lease_token = NULL,
                                      !.updated_at = work[w].stmt_now]
  BY <1>2, <1>3 DEF IInv, TypeOK
<1>6. Released(u)
  <2>1. PICK r \in Row, rate \in Rates, t \in Nat :
          r = table[u] /\ rate = work[w].rate /\ t = work[w].stmt_now
    BY <1>3, <1>4
  <2>2. table'[u] = [r EXCEPT !.status = "SUCCESS",
                              !.rate = rate,
                              !.error_message = NULL,
                              !.locked_until = NULL,
                              !.lease_token = NULL,
                              !.updated_at = t]
    BY <1>5, <2>1
  <2>3. /\ table'[u] \in Row
        /\ table'[u].pair = r.pair /\ table'[u].attempt_count = r.attempt_count
        /\ table'[u].locked_until = NULL /\ table'[u].lease_token = NULL
        /\ table'[u].updated_at = t /\ table'[u].rate = rate
        /\ table'[u].status = "SUCCESS" /\ table'[u].error_message = NULL
    BY <2>2, ZenonT(60) DEF Row, Final
  <2>4. rate # NULL
    BY <1>2, <2>1
  <2>5. /\ table[u].status = "PROCESSING"
        /\ table'[u].pair = table[u].pair
        /\ table'[u].attempt_count = table[u].attempt_count
        /\ table'[u].updated_at <= now
    BY <1>3, <2>1, <2>3
  <2>. QED
    BY <2>3, <2>4, <2>5 DEF Released
<1>7. \A v \in Ids : table'[v] = table[v] \/ Released(v)
  BY <1>6, <1>5
<1>8. UNCHANGED <<locked, now>>
  BY <1>2
<1>9. table' = [v \in Ids |-> table'[v]]
  BY <1>5
<1>. QED
  BY ReleaseStep, <1>1, <1>7, <1>8, <1>9

LEMMA MarkFailedStep ==
  ASSUME IInv, NEW w \in Workers, MarkFailed(w)
  PROVE  IInv'
<1>. DEFINE u == work[w].id
<1>1. PICK pc \in {"claim", "waiting"} : Goto(w, pc)
  BY DEF MarkFailed, AfterReply
<1>2. /\ HoldsLease(u, work[w].token, work[w].stmt_now)
      /\ work[w].pc = "marking" /\ work[w].attempt >= MaxAttempts
      /\ UNCHANGED <<locked, now>>
      /\ table' = [table EXCEPT ![u].status = "FAILED",
                                ![u].rate = NULL,
                                ![u].error_message = "message",
                                ![u].locked_until = NULL,
                                ![u].lease_token = NULL,
                                ![u].updated_at = work[w].stmt_now]
  BY DEF MarkFailed, MarkQuoteUpdateFailed, LastAttempt
<1>3. /\ u \in Ids /\ table[u] \in Row /\ table[u].status = "PROCESSING"
      /\ work[w].stmt_now \in Nat /\ work[w].stmt_now <= now
      /\ work[w].attempt = table[u].attempt_count
  BY <1>2, HolderFacts
<1>4. /\ table' = [v \in Ids |-> table'[v]]
      /\ \A v \in Ids \ {u} : table'[v] = table[v]
      /\ table'[u] = [table[u] EXCEPT !.status = "FAILED",
                                      !.rate = NULL,
                                      !.error_message = "message",
                                      !.locked_until = NULL,
                                      !.lease_token = NULL,
                                      !.updated_at = work[w].stmt_now]
  BY <1>2, <1>3 DEF IInv, TypeOK
<1>5. Released(u)
  <2>1. PICK r \in Row, t \in Nat : r = table[u] /\ t = work[w].stmt_now
    BY <1>3
  <2>2. table'[u] = [r EXCEPT !.status = "FAILED",
                              !.rate = NULL,
                              !.error_message = "message",
                              !.locked_until = NULL,
                              !.lease_token = NULL,
                              !.updated_at = t]
    BY <1>4, <2>1
  <2>3. /\ table'[u] \in Row
        /\ table'[u].pair = r.pair /\ table'[u].attempt_count = r.attempt_count
        /\ table'[u].locked_until = NULL /\ table'[u].lease_token = NULL
        /\ table'[u].updated_at = t /\ table'[u].rate = NULL
        /\ table'[u].status = "FAILED" /\ table'[u].error_message = "message"
    BY <2>2, ZenonT(60) DEF Row, Final
  <2>4. table[u].attempt_count >= MaxAttempts
    BY <1>2, <1>3
  <2>5. /\ table[u].status = "PROCESSING"
        /\ table'[u].pair = table[u].pair
        /\ table'[u].attempt_count = table[u].attempt_count
        /\ table'[u].updated_at <= now
    BY <1>3, <2>1, <2>3
  <2>. QED
    BY <2>3, <2>4, <2>5, NullAssumption DEF Released
<1>6. \A v \in Ids : table'[v] = table[v] \/ Released(v)
  BY <1>5, <1>4
<1>7. UNCHANGED <<locked, now>>
  BY <1>2
<1>8. table' = [v \in Ids |-> table'[v]]
  BY <1>4
<1>. QED
  BY ReleaseStep, <1>1, <1>6, <1>7, <1>8

LEMMA ScheduleRetryStep ==
  ASSUME IInv, NEW w \in Workers, ScheduleRetry(w)
  PROVE  IInv'
<1>. DEFINE u == work[w].id
<1>1. PICK pc \in {"claim", "waiting"} : Goto(w, pc)
  BY DEF ScheduleRetry, AfterReply
<1>2. PICK delay \in RetryDelays(RetryBaseDelay, RetryMaxDelay, work[w].attempt),
          skew \in ClockSkews :
             ScheduleQuoteUpdateRetry(work[w].id, work[w].token,
                                      work[w].stmt_now + skew + delay, work[w].stmt_now)
  BY DEF ScheduleRetry
<1>. DEFINE due == work[w].stmt_now + skew + delay
<1>3. /\ HoldsLease(u, work[w].token, work[w].stmt_now)
      /\ work[w].pc = "marking"
      /\ UNCHANGED <<locked, now>>
      /\ table' = [table EXCEPT ![u].status = "PENDING",
                                ![u].error_message = "message",
                                ![u].locked_until = NULL,
                                ![u].lease_token = NULL,
                                ![u].next_attempt_at = due,
                                ![u].updated_at = work[w].stmt_now]
  BY <1>2 DEF ScheduleRetry, ScheduleQuoteUpdateRetry
<1>4. /\ u \in Ids /\ table[u] \in Row /\ table[u].status = "PROCESSING"
      /\ table[u].rate = NULL
      /\ work[w].stmt_now \in Nat /\ work[w].stmt_now <= now
  BY <1>3, HolderFacts
<1>5. due \in Int
  BY <1>4, WorkerAssumption DEF RetryDelays
<1>. HIDE DEF due
<1>6. /\ table' = [v \in Ids |-> table'[v]]
      /\ \A v \in Ids \ {u} : table'[v] = table[v]
      /\ table'[u] = [table[u] EXCEPT !.status = "PENDING",
                                      !.error_message = "message",
                                      !.locked_until = NULL,
                                      !.lease_token = NULL,
                                      !.next_attempt_at = due,
                                      !.updated_at = work[w].stmt_now]
  BY <1>3, <1>4 DEF IInv, TypeOK
<1>7. Released(u)
  <2>1. PICK r \in Row, t \in Nat, d \in Int :
          r = table[u] /\ t = work[w].stmt_now /\ d = due
    BY <1>4, <1>5
  <2>2. table'[u] = [r EXCEPT !.status = "PENDING",
                              !.error_message = "message",
                              !.locked_until = NULL,
                              !.lease_token = NULL,
                              !.next_attempt_at = d,
                              !.updated_at = t]
    BY <1>6, <2>1
  <2>3. /\ table'[u] \in Row
        /\ table'[u].pair = r.pair /\ table'[u].attempt_count = r.attempt_count
        /\ table'[u].locked_until = NULL /\ table'[u].lease_token = NULL
        /\ table'[u].updated_at = t /\ table'[u].rate = r.rate
        /\ table'[u].status = "PENDING"
    BY <2>2, ZenonT(60) DEF Row, Active
  <2>4. /\ table[u].status = "PROCESSING"
        /\ table'[u].pair = table[u].pair
        /\ table'[u].attempt_count = table[u].attempt_count
        /\ table'[u].updated_at <= now
    BY <1>4, <2>1, <2>3
  <2>5. table'[u].rate = NULL
    BY <1>4, <2>1, <2>3
  <2>. QED
    BY <2>3, <2>4, <2>5 DEF Released
<1>8. UNCHANGED <<locked, now>>
  BY <1>3
<1>9. \A v \in Ids : table'[v] = table[v] \/ Released(v)
  BY <1>7, <1>6
<1>10. table' = [v \in Ids |-> table'[v]]
  BY <1>6
<1>. QED
  BY ReleaseStep, <1>1, <1>8, <1>9, <1>10

(* A claim, whether the worker learns of it or not.                        *)
LEMMA ClaimNextStep ==
  ASSUME IInv, NEW w \in Workers, ClaimNext(w)
  PROVE  IInv'
<1>1. PICK u \in Claimable, skew \in ClockSkews, token \in FreshTokens :
        /\ ClaimNextQuoteUpdate(u, now + skew + LeaseDuration, token)
        /\ \/ work' = [work EXCEPT ![w] = [Idle("calling") EXCEPT
                         !.id = u, !.token = token, !.attempt = table'[u].attempt_count]]
           \/ Goto(w, "waiting")
  BY DEF ClaimNext
<1>2. /\ u \in Ids /\ table[u] \in Row /\ table[u].status = "PENDING"
      /\ token \in Tokens /\ token # NULL
      /\ \A v \in Ids : table[v].lease_token # token
      /\ \A x \in Workers : work[x].token # token
      /\ work[w].pc = "claim"
      /\ UNCHANGED <<locked, now>>
  BY <1>1, NullAssumption
  DEF ClaimNext, ClaimNextQuoteUpdate, Claimable, FreshTokens, IInv, TypeOK
<1>3. table[u].rate = NULL /\ table[u].lease_token = NULL
  BY <1>2 DEF IInv, RowConsistent
<1>4. PICK r \in Row, until \in Int, t \in Nat, n \in Nat :
        /\ r = table[u] /\ until = now + skew + LeaseDuration /\ t = now
        /\ n = table[u].attempt_count + 1
  <2>1. now \in Nat /\ now + skew + LeaseDuration \in Int
    BY WorkerAssumption DEF IInv, TypeOK
  <2>2. table[u].attempt_count + 1 \in Nat
    BY <1>2 DEF Row
  <2>. QED
    BY <2>1, <2>2, <1>2
<1>5. /\ table' = [v \in Ids |-> table'[v]]
      /\ \A v \in Ids : v # u => table'[v] = table[v]
  BY <1>1, <1>2 DEF ClaimNextQuoteUpdate, IInv, TypeOK
<1>6. /\ table'[u] \in Row
      /\ table'[u].status = "PROCESSING"
      /\ table'[u].pair = r.pair
      /\ table'[u].rate = r.rate
      /\ table'[u].lease_token = token
      /\ table'[u].locked_until = until
      /\ table'[u].attempt_count = n
      /\ table'[u].updated_at = t
  <2>1. table'[u] = [r EXCEPT !.status = "PROCESSING",
                              !.locked_until = until,
                              !.lease_token = token,
                              !.attempt_count = n,
                              !.updated_at = t]
    BY <1>1, <1>2, <1>4 DEF ClaimNextQuoteUpdate, IInv, TypeOK
  <2>. QED
    BY <1>2, <1>4, <2>1, ZenonT(60) DEF Row, Active
<1>7. /\ table'[u].pair = table[u].pair
      /\ table'[u].rate = NULL
      /\ table'[u].locked_until # NULL
      /\ table'[u].updated_at = now
  BY <1>3, <1>4, <1>6, NullAssumption
<1>8. PICK job \in WorkerState :
        /\ work' = [work EXCEPT ![w] = job]
        /\ job.stmt_now = 0
        /\ \/ /\ job.pc = "calling" /\ job.id = u /\ job.token = token
              /\ job.attempt = table'[u].attempt_count
           \/ job.pc = "waiting" /\ job.token = NULL
  <2>1. CASE Goto(w, "waiting")
    BY <2>1, IdleType DEF Goto
  <2>2. CASE work' = [work EXCEPT ![w] = [Idle("calling") EXCEPT
                        !.id = u, !.token = token, !.attempt = table'[u].attempt_count]]
    <3>. DEFINE job == [Idle("calling") EXCEPT
                          !.id = u, !.token = token, !.attempt = table'[u].attempt_count]
    <3>1. table'[u].attempt_count \in Nat
      BY <1>6 DEF Row
    <3>2. /\ job \in WorkerState
          /\ job.stmt_now = 0 /\ job.pc = "calling" /\ job.id = u /\ job.token = token
          /\ job.attempt = table'[u].attempt_count
      BY <3>1, <1>2 DEF Idle, WorkerState
    <3>. QED
      BY <2>2, <3>2
  <2>. QED
    BY <1>1, <2>1, <2>2
<1>9. /\ work' \in [Workers -> WorkerState]
      /\ \A x \in Workers : work'[x] = IF x = w THEN job ELSE work[x]
  BY <1>8 DEF IInv, TypeOK
<1>10. TypeOK'
  BY <1>2, <1>5, <1>6, <1>9 DEF IInv, TypeOK
<1>11. RowConsistent'
  BY <1>2, <1>5, <1>6, <1>7 DEF IInv, RowConsistent
<1>12. OneActivePerPair'
  BY <1>2, <1>5, <1>6, <1>7 DEF IInv, OneActivePerPair, Active
<1>13. FailsOnlyAfterMaxAttempts'
  BY <1>5, <1>6 DEF IInv, FailsOnlyAfterMaxAttempts
<1>14. TaskInHand'
  BY <1>2, <1>8, <1>9 DEF IInv, TaskInHand
<1>15. TokensDistinct'
  BY <1>2, <1>5, <1>6, <1>8, <1>9 DEF IInv, TokensDistinct
<1>16. HoldersAgree'
  BY <1>2, <1>5, <1>6, <1>8, <1>9 DEF IInv, HoldersAgree
<1>17. TimesOrdered'
  <2>1. \A v \in Ids : table'[v].updated_at <= now'
    BY <1>2, <1>5, <1>6, <1>7 DEF IInv, TimesOrdered
  <2>2. \A x \in Workers : work'[x].stmt_now <= now'
    BY <1>2, <1>8, <1>9 DEF IInv, TimesOrdered, TypeOK
  <2>3. ASSUME NEW v \in Ids, NEW x \in Ids,
               table'[v].status = "PROCESSING", table'[x].status = "SUCCESS",
               table'[v].pair = table'[x].pair
        PROVE  table'[x].updated_at <= table'[v].updated_at
    BY <2>1, <2>3, <1>2, <1>5, <1>6, <1>7 DEF IInv, TimesOrdered
  <2>4. ASSUME NEW v \in Ids, NEW x \in Workers, work'[x].pc = "marking",
               work'[x].token # NULL, work'[x].token = table'[v].lease_token
        PROVE  table'[v].updated_at <= work'[x].stmt_now
    BY <2>4, <1>2, <1>5, <1>6, <1>8, <1>9 DEF IInv, TimesOrdered
  <2>. QED
    BY <2>1, <2>2, <2>3, <2>4 DEF TimesOrdered
<1>. QED
  BY <1>10, <1>11, <1>12, <1>13, <1>14, <1>15, <1>16, <1>17 DEF IInv

LEMMA GetRateStep ==
  ASSUME IInv, NEW w \in Workers, GetRate(w)
  PROVE  IInv'
<1>1. PICK r \in Rates \cup {NULL} :
        work' = [work EXCEPT ![w].pc = "marking", ![w].rate = r, ![w].stmt_now = now]
  BY DEF GetRate
<1>2. work[w].pc = "calling" /\ UNCHANGED <<table, locked, now>>
  BY DEF GetRate
<1>3. /\ work' \in [Workers -> WorkerState]
      /\ \A x \in Workers : /\ work'[x].id = work[x].id
                            /\ work'[x].token = work[x].token
                            /\ work'[x].attempt = work[x].attempt
      /\ \A x \in Workers \ {w} : work'[x] = work[x]
      /\ work'[w].pc = "marking" /\ work'[w].stmt_now = now
  <2>1. PICK t \in Nat : t = now
    BY DEF IInv, TypeOK
  <2>2. PICK job \in WorkerState : job = work[w]
    BY DEF IInv, TypeOK
  <2>3. work' = [work EXCEPT ![w] = [job EXCEPT !.pc = "marking", !.rate = r, !.stmt_now = t]]
    BY <1>1, <2>1, <2>2
  <2>. DEFINE marked == [job EXCEPT !.pc = "marking", !.rate = r, !.stmt_now = t]
  <2>5. /\ marked \in WorkerState
        /\ marked.pc = "marking" /\ marked.stmt_now = t /\ marked.id = job.id
        /\ marked.token = job.token /\ marked.attempt = job.attempt
    BY <2>2 DEF WorkerState
  <2>. HIDE DEF marked
  <2>6. work' = [work EXCEPT ![w] = marked]
    BY <2>3 DEF marked
  <2>. QED
    BY <2>1, <2>2, <2>5, <2>6 DEF IInv, TypeOK
<1>4. TypeOK'
  BY <1>2, <1>3 DEF IInv, TypeOK
<1>5. RowConsistent' /\ OneActivePerPair' /\ FailsOnlyAfterMaxAttempts'
  BY <1>2 DEF IInv, RowConsistent, OneActivePerPair, FailsOnlyAfterMaxAttempts
<1>6. TaskInHand'
  BY <1>2, <1>3 DEF IInv, TaskInHand
<1>7. TokensDistinct' /\ HoldersAgree'
  BY <1>2, <1>3 DEF IInv, TokensDistinct, HoldersAgree
<1>8. TimesOrdered'
  BY <1>2, <1>3 DEF IInv, TimesOrdered, TypeOK
<1>. QED
  BY <1>4, <1>5, <1>6, <1>7, <1>8 DEF IInv

LEMMA TickStep ==
  ASSUME IInv, Tick
  PROVE  IInv'
<1>1. now \in Nat /\ now' = now + 1 /\ UNCHANGED <<table, locked, work>>
  BY DEF Tick, IInv, TypeOK
<1>2. TypeOK'
  BY <1>1 DEF IInv, TypeOK
<1>3. /\ RowConsistent' /\ OneActivePerPair' /\ FailsOnlyAfterMaxAttempts'
      /\ TaskInHand' /\ TokensDistinct' /\ HoldersAgree'
  BY <1>1 DEF IInv, RowConsistent, OneActivePerPair, FailsOnlyAfterMaxAttempts,
              TaskInHand, TokensDistinct, HoldersAgree
<1>4. TimesOrdered'
  BY <1>1 DEF IInv, TimesOrdered, TypeOK, Row, WorkerState
<1>. QED
  BY <1>2, <1>3, <1>4 DEF IInv

(* Clients only add PENDING rows, or lock and unlock rows.                 *)
LEMMA LockStep ==
  ASSUME IInv, locked' \subseteq Ids, UNCHANGED <<table, now, work>>
  PROVE  IInv'
BY DEF IInv, TypeOK, RowConsistent, OneActivePerPair, FailsOnlyAfterMaxAttempts,
       TaskInHand, TokensDistinct, HoldersAgree, TimesOrdered

LEMMA InsertStep ==
  ASSUME IInv, NEW p \in Pairs, NEW t \in Nat, t <= now, InsertQuoteUpdate(p, t),
         UNCHANGED <<now, work>>
  PROVE  IInv'
<1>1. PICK u \in Ids : /\ table[u].status = "ABSENT"
                       /\ table' = [table EXCEPT ![u] = NewRow("PENDING", p, t)]
  BY DEF InsertQuoteUpdate
<1>2. locked' = locked /\ ActiveRows(p) = {}
  BY DEF InsertQuoteUpdate
<1>3. PICK d \in Int : d = t
  OBVIOUS
<1>4. /\ table' = [v \in Ids |-> table'[v]]
      /\ \A v \in Ids : v # u => table'[v] = table[v]
      /\ table'[u] = NewRow("PENDING", p, t)
  BY <1>1 DEF IInv, TypeOK
<1>5. /\ table'[u] \in Row
      /\ table'[u].status = "PENDING"
      /\ table'[u].pair = p
      /\ table'[u].rate = NULL
      /\ table'[u].lease_token = NULL
      /\ table'[u].locked_until = NULL
      /\ table'[u].updated_at = t
  BY <1>3, <1>4 DEF NewRow, Row, Active
<1>6. TypeOK'
  BY <1>2, <1>4, <1>5 DEF IInv, TypeOK
<1>7. RowConsistent' /\ FailsOnlyAfterMaxAttempts'
  BY <1>4, <1>5 DEF IInv, RowConsistent, FailsOnlyAfterMaxAttempts
<1>8. OneActivePerPair'
  BY <1>2, <1>4, <1>5 DEF IInv, OneActivePerPair, ActiveRows, Active
<1>9. TaskInHand' /\ TokensDistinct' /\ HoldersAgree'
  BY <1>4, <1>5 DEF IInv, TaskInHand, TokensDistinct, HoldersAgree
<1>10. TimesOrdered'
  BY <1>4, <1>5 DEF IInv, TimesOrdered
<1>. QED
  BY <1>6, <1>7, <1>8, <1>9, <1>10 DEF IInv

LEMMA RefreshStep ==
  ASSUME IInv, NEW p \in Pairs, Refresh(p)
  PROVE  IInv'
<1>1. CASE \E t \in (now - MaxRefreshLag) .. now : t \in Nat /\ InsertQuoteUpdate(p, t)
  <2>1. PICK t \in Nat : t <= now /\ InsertQuoteUpdate(p, t)
    BY <1>1
  <2>. QED
    BY <2>1, InsertStep DEF Refresh
<1>2. CASE TouchQuoteUpdate(p)
  <2>1. locked' \subseteq Ids /\ UNCHANGED <<table, now, work>>
    BY <1>2 DEF TouchQuoteUpdate, ActiveRows, Refresh, IInv, TypeOK
  <2>. QED
    BY <2>1, LockStep
<1>. QED
  BY <1>1, <1>2 DEF Refresh

LEMMA CommitRefreshStep ==
  ASSUME IInv, CommitRefresh
  PROVE  IInv'
<1>1. locked' \subseteq Ids /\ UNCHANGED <<table, now, work>>
  BY DEF CommitRefresh, EndRefresh, IInv, TypeOK
<1>. QED
  BY <1>1, LockStep

-----------------------------------------------------------------------------
(* The invariant holds of every behaviour.                                 *)

LEMMA InitInv == Init => IInv
<1>. SUFFICES ASSUME Init PROVE IInv
  OBVIOUS
<1>1. /\ table = [u \in Ids |-> NewRow("ABSENT", NULL, 0)]
      /\ locked = {} /\ now = 0
      /\ work = [w \in Workers |-> Idle("down")]
  BY DEF Init, Init_table
<1>2. PICK d \in Int, t \in Nat : d = 0 /\ t = 0
  OBVIOUS
<1>3. \A u \in Ids : /\ table[u] \in Row
                     /\ table[u].status = "ABSENT"
                     /\ table[u].rate = NULL
                     /\ table[u].lease_token = NULL
                     /\ table[u].locked_until = NULL
                     /\ table[u].updated_at = 0
  BY <1>1, <1>2 DEF NewRow, Row
<1>4. \A w \in Workers : /\ work[w] \in WorkerState
                         /\ work[w].pc = "down"
                         /\ work[w].token = NULL
                         /\ work[w].stmt_now = 0
  BY <1>1, IdleType
<1>5. TypeOK
  BY <1>1, <1>3, <1>4 DEF TypeOK
<1>6. RowConsistent /\ OneActivePerPair /\ FailsOnlyAfterMaxAttempts
  BY <1>3 DEF RowConsistent, OneActivePerPair, FailsOnlyAfterMaxAttempts, Active
<1>7. TaskInHand /\ TokensDistinct /\ HoldersAgree
  BY <1>3, <1>4 DEF TaskInHand, TokensDistinct, HoldersAgree
<1>8. TimesOrdered
  BY <1>1, <1>3, <1>4 DEF TimesOrdered
<1>. QED
  BY <1>5, <1>6, <1>7, <1>8 DEF IInv

LEMMA NextInv == IInv /\ [Next]_vars => IInv'
<1>. SUFFICES ASSUME IInv, [Next]_vars PROVE IInv'
  OBVIOUS
<1>1. CASE UNCHANGED vars
  BY <1>1 DEF vars, IInv, TypeOK, RowConsistent, OneActivePerPair, FailsOnlyAfterMaxAttempts,
              TaskInHand, TokensDistinct, HoldersAgree, TimesOrdered
<1>2. CASE Tick
  BY <1>2, TickStep
<1>3. ASSUME NEW p \in Pairs, Refresh(p) PROVE IInv'
  BY <1>3, RefreshStep
<1>4. CASE CommitRefresh
  BY <1>4, CommitRefreshStep
<1>5. ASSUME NEW w \in Workers, Step(w) PROVE IInv'
  <2>1. CASE Start(w)
    BY <2>1, ForgetStep DEF Start
  <2>2. CASE Crash(w)
    BY <2>2, ForgetStep DEF Crash
  <2>3. CASE RequeueExpired(w)
    BY <2>3, RequeueExpiredStep
  <2>4. CASE ClaimNext(w)
    BY <2>4, ClaimNextStep
  <2>5. CASE NothingDue(w)
    BY <2>5, ForgetStep DEF NothingDue
  <2>6. CASE GetRate(w)
    BY <2>6, GetRateStep
  <2>7. CASE MarkSucceeded(w)
    BY <2>7, MarkSucceededStep
  <2>8. CASE MarkFailed(w)
    BY <2>8, MarkFailedStep
  <2>9. CASE ScheduleRetry(w)
    BY <2>9, ScheduleRetryStep
  <2>10. CASE LeaseLost(w)
    BY <2>10, ForgetStep DEF LeaseLost
  <2>11. CASE StatementFails(w)
    BY <2>11, ForgetStep DEF StatementFails
  <2>12. CASE DeleteLatest(w)
    BY <2>12, ForgetStep DEF DeleteLatest
  <2>13. CASE PollTick(w)
    BY <2>13, ForgetStep DEF PollTick
  <2>. QED
    BY <1>5, <2>1, <2>2, <2>3, <2>4, <2>5, <2>6, <2>7, <2>8, <2>9, <2>10, <2>11, <2>12, <2>13
    DEF Step
<1>. QED
  BY <1>1, <1>2, <1>3, <1>4, <1>5 DEF Next

LEMMA Invariance == Spec => []IInv
BY InitInv, NextInv, PTL DEF Spec

(* Every variable always has its type.                                     *)
THEOREM TypeCorrect == Spec => []TypeOK
<1>1. IInv => TypeOK
  BY DEF IInv
<1>. QED
  BY <1>1, Invariance, PTL

(* The CHECK constraint of quote_updates never rejects what a worker       *)
(* writes, however stale its statement is.                                 *)
THEOREM RowsStayConsistent == Spec => []RowConsistent
<1>1. IInv => RowConsistent
  BY DEF IInv
<1>. QED
  BY <1>1, Invariance, PTL

(* The unique index over active rows is never violated.                    *)
THEOREM OneActive == Spec => []OneActivePerPair
<1>1. IInv => OneActivePerPair
  BY DEF IInv
<1>. QED
  BY <1>1, Invariance, PTL

(* The current lease of a row is known to one worker at most.              *)
THEOREM LeasesAreExclusive == Spec => []LeaseExclusive
<1>1. IInv => LeaseExclusive
  <2>. SUFFICES ASSUME IInv, NEW u \in Ids, NEW w \in Holders(u)
                PROVE  /\ Holders(u) = {w}
                       /\ work[w].id = u
                       /\ work[w].attempt = table[u].attempt_count
    BY DEF LeaseExclusive
  <2>1. w \in Workers /\ work[w].token # NULL /\ work[w].token = table[u].lease_token
    BY DEF Holders
  <2>2. \A x \in Holders(u) : x = w
    BY <2>1 DEF Holders, IInv, TokensDistinct
  <2>. QED
    BY <2>1, <2>2 DEF IInv, HoldersAgree
<1>. QED
  BY <1>1, Invariance, PTL

(* A task fails for good only after MaxAttempts claims.                    *)
THEOREM FailureNeedsMaxAttempts == Spec => []FailsOnlyAfterMaxAttempts
<1>1. IInv => FailsOnlyAfterMaxAttempts
  BY DEF IInv
<1>. QED
  BY <1>1, Invariance, PTL

-----------------------------------------------------------------------------
(* What a step may do to a row.                                            *)

EndedByHolder(u) ==
  /\ table[u].status = "PROCESSING"
  /\ table'[u].status \in {"PENDING", "SUCCESS", "FAILED"}
  /\ table'[u].pair = table[u].pair
  /\ \E w \in Holders(u) :
       /\ work[w].pc = "marking"
       /\ work[w].stmt_now < table[u].locked_until
       /\ table'[u].rate = work[w].rate
       /\ table'[u].updated_at = work[w].stmt_now
       /\ work'[w].token = NULL

EndedByRequeue(u) ==
  /\ table[u].status = "PROCESSING"
  /\ table'[u].status = "PENDING"
  /\ table[u].locked_until < now

RowChange(u) ==
  \/ table'[u] = table[u]
  \/ table[u].status = "ABSENT" /\ table'[u].status = "PENDING"
  \/ table[u].status = "PENDING" /\ table'[u].status = "PROCESSING"
  \/ EndedByHolder(u)
  \/ EndedByRequeue(u)

LEMMA IdleAfter ==
  ASSUME IInv, NEW w \in Workers, NEW pc, Goto(w, pc)
  PROVE  work'[w].token = NULL
BY DEF IInv, TypeOK, Goto, Idle

(* The three marks.                                                        *)
LEMMA MarkChange ==
  ASSUME IInv, NEW w \in Workers, NEW v \in Ids,
         MarkSucceeded(w) \/ MarkFailed(w) \/ ScheduleRetry(w)
  PROVE  table'[v] = table[v] \/ EndedByHolder(v)
<1>. DEFINE u == work[w].id
<1>1. work[w].pc = "marking" /\ work'[w].token = NULL
  BY IdleAfter DEF MarkSucceeded, MarkFailed, ScheduleRetry, AfterReply
<1>2. HoldsLease(u, work[w].token, work[w].stmt_now)
  BY DEF MarkSucceeded, MarkFailed, ScheduleRetry, MarkQuoteUpdateSucceeded,
         MarkQuoteUpdateFailed, ScheduleQuoteUpdateRetry
<1>3. /\ u \in Ids /\ table[u] \in Row /\ table[u].rate = NULL
      /\ work[w].stmt_now \in Nat
  BY <1>1, <1>2, HolderFacts
<1>4. /\ table[u].status = "PROCESSING"
      /\ work[w].stmt_now < table[u].locked_until
  <2>1. table[u].status = "PROCESSING" /\ table[u].locked_until > work[w].stmt_now
    BY <1>2 DEF HoldsLease
  <2>2. table[u].locked_until \in Int
    BY <1>3, <2>1 DEF IInv, RowConsistent, Row
  <2>. QED
    BY <1>3, <2>1, <2>2
<1>5. w \in Holders(u)
  <2>1. work[w].token \in Tokens
    BY <1>1 DEF IInv, TaskInHand
  <2>. QED
    BY <1>2, <2>1, NullAssumption DEF HoldsLease, Holders
<1>6. /\ \A x \in Ids : x # u => table'[x] = table[x]
      /\ table'[u].status \in {"PENDING", "SUCCESS", "FAILED"}
      /\ table'[u].pair = table[u].pair
      /\ table'[u].rate = work[w].rate
      /\ table'[u].updated_at = work[w].stmt_now
  <2>1. CASE MarkSucceeded(w)
    BY <1>3, <2>1 DEF MarkSucceeded, MarkQuoteUpdateSucceeded, IInv, TypeOK, Row
  <2>2. CASE MarkFailed(w)
    BY <1>3, <2>2 DEF MarkFailed, MarkQuoteUpdateFailed, IInv, TypeOK, Row
  <2>3. CASE ScheduleRetry(w)
    <3>1. work[w].rate = NULL
      BY <2>3 DEF ScheduleRetry
    <3>2. PICK due :
            table' = [table EXCEPT ![u].status = "PENDING",
                                   ![u].error_message = "message",
                                   ![u].locked_until = NULL,
                                   ![u].lease_token = NULL,
                                   ![u].next_attempt_at = due,
                                   ![u].updated_at = work[w].stmt_now]
      BY <2>3 DEF ScheduleRetry, ScheduleQuoteUpdateRetry
    <3>. QED
      BY <1>3, <3>1, <3>2 DEF IInv, TypeOK, Row
  <2>. QED
    BY <2>1, <2>2, <2>3
<1>7. EndedByHolder(u)
  BY <1>1, <1>4, <1>5, <1>6 DEF EndedByHolder
<1>. QED
  BY <1>6, <1>7

LEMMA StepChanges ==
  ASSUME IInv, [Next]_vars, NEW v \in Ids
  PROVE  RowChange(v)
<1>1. CASE UNCHANGED table
  BY <1>1 DEF RowChange
<1>2. ASSUME NEW p \in Pairs, NEW t \in Nat, InsertQuoteUpdate(p, t)
      PROVE  RowChange(v)
  BY <1>2 DEF InsertQuoteUpdate, NewRow, RowChange, IInv, TypeOK
<1>3. ASSUME NEW w \in Workers, RequeueExpired(w)
      PROVE  RowChange(v)
  BY <1>3 DEF RequeueExpired, RequeueExpiredQuoteUpdates, RequeuedRow, Expired,
              RowChange, EndedByRequeue, IInv, TypeOK, Row
<1>4. ASSUME NEW w \in Workers, ClaimNext(w)
      PROVE  RowChange(v)
  <2>1. PICK u \in Claimable, skew \in ClockSkews, token \in FreshTokens :
               ClaimNextQuoteUpdate(u, now + skew + LeaseDuration, token)
    BY <1>4 DEF ClaimNext
  <2>0. PICK until : until = now + skew + LeaseDuration
    OBVIOUS
  <2>2. u \in Ids /\ table[u].status = "PENDING"
    BY DEF Claimable
  <2>3. PICK n : n = table[u].attempt_count + 1
    OBVIOUS
  <2>4. table' = [table EXCEPT ![u].status = "PROCESSING",
                               ![u].locked_until = until,
                               ![u].lease_token = token,
                               ![u].attempt_count = n,
                               ![u].updated_at = now]
    BY <2>0, <2>1, <2>3 DEF ClaimNextQuoteUpdate
  <2>5. \A x \in Ids : x # u => table'[x] = table[x]
    BY <2>4 DEF IInv, TypeOK
  <2>6. table'[u].status = "PROCESSING"
    BY <2>2, <2>4 DEF IInv, TypeOK, Row
  <2>. QED
    BY <2>2, <2>5, <2>6 DEF RowChange
<1>5. ASSUME NEW w \in Workers, MarkSucceeded(w) \/ MarkFailed(w) \/ ScheduleRetry(w)
      PROVE  RowChange(v)
  BY <1>5, MarkChange DEF RowChange
<1>. QED
  BY <1>1, <1>2, <1>3, <1>4, <1>5
  DEF Next, vars, Tick, Refresh, TouchQuoteUpdate, CommitRefresh, EndRefresh, Step, Start,
      Crash, NothingDue, GetRate, LeaseLost, StatementFails, DeleteLatest, PollTick

(* A lease ends by its holder's answer, before it ran out, or by a requeue *)
(* after that.                                                             *)
THEOREM LeasesEndProperly == Spec => LeaseEndsProperly
<1>1. IInv /\ [Next]_vars =>
        \A u \in Ids :
          table[u].status = "PROCESSING" /\ table'[u] # table[u] =>
            \/ \E w \in Holders(u) :
                 /\ work[w].pc = "marking"
                 /\ work[w].stmt_now < table[u].locked_until
                 /\ table'[u].rate = work[w].rate
                 /\ work'[w].token = NULL
            \/ /\ table'[u].status = "PENDING"
               /\ table[u].locked_until < now
  BY StepChanges DEF RowChange, EndedByHolder, EndedByRequeue
<1>. QED
  BY <1>1, Invariance, PTL DEF Spec, LeaseEndsProperly

(* SUCCESS and FAILED are final.                                           *)
THEOREM FinishedStaysFinished == Spec => FinishedIsFinal
<1>1. IInv /\ [Next]_vars =>
        \A u \in Ids : table[u].status \in Final => table'[u] = table[u]
  BY StepChanges DEF RowChange, EndedByHolder, EndedByRequeue, Final
<1>. QED
  BY <1>1, Invariance, PTL DEF Spec, FinishedIsFinal

(* A new success never sorts before an earlier one of its pair.            *)
LEMMA NewSuccessSortsLast ==
  ASSUME IInv, [Next]_vars, NEW u \in Ids, NEW v \in Ids,
         table[u].status # "SUCCESS", table'[u].status = "SUCCESS",
         table[v].status = "SUCCESS", table[v].pair = table[u].pair
  PROVE  table'[u].updated_at >= table[v].updated_at
<1>1. EndedByHolder(u)
  BY StepChanges DEF RowChange, EndedByRequeue
<1>2. PICK w \in Holders(u) : /\ work[w].pc = "marking"
                              /\ table'[u].updated_at = work[w].stmt_now
  BY <1>1 DEF EndedByHolder
<1>3. w \in Workers /\ work[w].token # NULL /\ work[w].token = table[u].lease_token
  BY DEF Holders
<1>4. table[u].updated_at <= work[w].stmt_now
  BY <1>2, <1>3 DEF IInv, TimesOrdered
<1>5. table[v].updated_at <= table[u].updated_at
  BY <1>1 DEF IInv, TimesOrdered, EndedByHolder
<1>6. /\ table[u].updated_at \in Nat /\ table[v].updated_at \in Nat
      /\ work[w].stmt_now \in Nat
  BY <1>3 DEF IInv, TypeOK, Row, WorkerState
<1>. QED
  BY <1>2, <1>4, <1>5, <1>6

(* Only the holder of an active row makes it a success, and a pair has one *)
(* active row.                                                             *)
LEMMA OneNewSuccess ==
  ASSUME IInv, [Next]_vars, NEW u \in Ids, NEW v \in Ids,
         table[u].status # "SUCCESS", table'[u].status = "SUCCESS",
         table[v].status # "SUCCESS", table'[v].status = "SUCCESS",
         table'[u].pair = table'[v].pair
  PROVE  u = v
<1>1. EndedByHolder(u) /\ EndedByHolder(v)
  BY StepChanges DEF RowChange, EndedByRequeue
<1>2. /\ table[u].status = "PROCESSING" /\ table[v].status = "PROCESSING"
      /\ table[u].pair = table[v].pair
  BY <1>1 DEF EndedByHolder
<1>. QED
  BY <1>2 DEF IInv, OneActivePerPair, Active

(* GetLatestByPair may return the rate that was saved last, and none that  *)
(* was saved earlier at an earlier time.                                   *)
THEOREM LatestStaysNewest == Spec => LatestIsNewest
<1>1. ASSUME IInv, IInv', [Next]_vars, NEW u \in Ids,
             table[u].status # "SUCCESS", table'[u].status = "SUCCESS"
      PROVE  u \in GetLatestByPair(table[u].pair)'
  <2>1. table'[u].pair = table[u].pair /\ table'[u].updated_at \in Nat
    BY <1>1, StepChanges DEF RowChange, EndedByHolder, EndedByRequeue, IInv, TypeOK, Row
  <2>2. ASSUME NEW v \in Ids, table'[v].status = "SUCCESS", table'[v].pair = table'[u].pair
        PROVE  table'[v].updated_at <= table'[u].updated_at
    <3>1. CASE table[v].status = "SUCCESS"
      <4>1. table'[v] = table[v]
        BY <1>1, <3>1, StepChanges DEF RowChange, EndedByHolder, EndedByRequeue
      <4>2. table'[u].updated_at >= table[v].updated_at /\ table[v].updated_at \in Nat
        BY <1>1, <2>1, <2>2, <3>1, <4>1, NewSuccessSortsLast DEF IInv, TypeOK, Row
      <4>. QED
        BY <2>1, <4>1, <4>2
    <3>2. CASE table[v].status # "SUCCESS"
      <4>1. u = v
        BY <1>1, <2>2, <3>2, OneNewSuccess
      <4>. QED
        BY <2>1, <4>1
    <3>. QED
      BY <3>1, <3>2
  <2>. QED
    BY <1>1, <2>2 DEF GetLatestByPair
<1>2. IInv /\ IInv' /\ [Next]_vars =>
        \A u \in Ids :
          table[u].status # "SUCCESS" /\ table'[u].status = "SUCCESS"
          => u \in GetLatestByPair(table[u].pair)'
  BY <1>1
<1>. QED
  BY <1>2, Invariance, PTL DEF Spec, LatestIsNewest
=============================================================================
