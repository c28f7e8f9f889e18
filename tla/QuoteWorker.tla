----------------------------- MODULE QuoteWorker ----------------------------
(***************************************************************************)
(* The background workers of internal/worker/quotes/worker.go, one per     *)
(* running instance of the service, over the shared quote_updates table.   *)
(* Between any two steps of a worker, others may run, clients may refresh, *)
(* time may pass, and the worker may stop; a statement may commit and its  *)
(* reply be lost.  Application clocks read the database clock plus a value *)
(* of ClockSkews.                                                          *)
(***************************************************************************)
EXTENDS QuoteUpdates, RetryBackoff

CONSTANTS
  Workers,
  MaxAttempts,    \* Config.MaxAttempts
  LeaseDuration,  \* Config.LeaseDuration
  RetryBaseDelay, \* Config.RetryBaseDelay
  RetryMaxDelay,  \* Config.RetryMaxDelay
  ClockSkews,     \* application clock - database clock
  MaxRefreshLag,  \* bound: how long a Refresh transaction may be open
  MaxTime         \* bound on the database clock

(* What worker.New enforces, and integers for the environment.             *)
ASSUME WorkerAssumption ==
  /\ MaxAttempts \in Nat \ {0}
  /\ LeaseDuration \in Nat \ {0}
  /\ RetryBaseDelay \in Nat \ {0}
  /\ RetryMaxDelay \in Nat
  /\ RetryBaseDelay <= RetryMaxDelay
  /\ ClockSkews \subseteq Int
  /\ MaxRefreshLag \in Nat
  /\ MaxTime \in Nat

VARIABLE work   \* work[w]: where worker w is, and the task it has claimed

vars == <<table, locked, now, work>>

-----------------------------------------------------------------------------
(* The place of a worker in Run, processAvailable and ProcessOnce, with    *)
(* nextTask (id, token, attempt) while it has one, the answer of GetRate   *)
(* (NULL for an error) and NOW() of the statement it has then sent.        *)
Idle(pc) ==
  [pc |-> pc, id |-> NULL, token |-> NULL, attempt |-> 0, rate |-> NULL, stmt_now |-> 0]

WorkerState ==
  [ pc       : {"down", "requeue", "claim", "calling", "marking", "invalidating", "waiting"},
    id       : Ids \cup {NULL},
    token    : Tokens \cup {NULL},
    attempt  : Nat,
    rate     : Rates \cup {NULL},
    stmt_now : Nat ]

Goto(w, pc) == work' = [work EXCEPT ![w] = Idle(pc)]

(* Mutant: tokens that are not unique, such as the row's id.               *)
FreshTokens_NotUnique == Tokens

(* gen_random_uuid() never repeats a token that anybody still remembers.   *)
FreshTokens ==
  {t \in Tokens : /\ \A u \in Ids : table[u].lease_token # t
                  /\ \A w \in Workers : work[w].token # t}

Init ==
  /\ Init_table
  /\ work = [w \in Workers |-> Idle("down")]

-----------------------------------------------------------------------------
(* The environment: time, clients, and the life of a worker's process.     *)

Tick ==
  /\ now < MaxTime
  /\ now' = now + 1
  /\ UNCHANGED <<table, locked, work>>

(* Service.Refresh as the table sees it.                                   *)
Refresh(p) ==
  /\ \/ \E t \in (now - MaxRefreshLag) .. now : t \in Nat /\ InsertQuoteUpdate(p, t)
     \/ TouchQuoteUpdate(p)
  /\ UNCHANGED <<now, work>>

CommitRefresh ==
  /\ EndRefresh
  /\ UNCHANGED <<now, work>>

Start(w) ==
  /\ work[w].pc = "down"
  /\ Goto(w, "requeue")
  /\ UNCHANGED <<table, locked, now>>

(* The process is killed, or its context is cancelled: whatever it holds   *)
(* is forgotten, the row keeps its lease.                                  *)
Crash(w) ==
  /\ work[w].pc # "down"
  /\ Goto(w, "down")
  /\ UNCHANGED <<table, locked, now>>

-----------------------------------------------------------------------------
(* processAvailable and ProcessOnce.  A reply that is lost, like a         *)
(* statement that fails, is an error: the loop ends until the next tick.   *)

(* Mutant: an attempt short.                                               *)
LastAttempt_OneShort(attempt) == attempt + 1 >= MaxAttempts

LastAttempt(attempt) == attempt >= MaxAttempts

AfterReply(received, pc) == IF received THEN pc ELSE "waiting"

RequeueExpired(w) ==
  /\ work[w].pc = "requeue"
  /\ RequeueExpiredQuoteUpdates
  /\ \E received \in BOOLEAN : Goto(w, AfterReply(received, "claim"))
  /\ UNCHANGED now

ClaimNext(w) ==
  /\ work[w].pc = "claim"
  /\ \E u \in Claimable, skew \in ClockSkews, token \in FreshTokens :
       /\ ClaimNextQuoteUpdate(u, now + skew + LeaseDuration, token)
       /\ \/ work' = [work EXCEPT ![w] = [Idle("calling") EXCEPT
                        !.id = u, !.token = token, !.attempt = table'[u].attempt_count]]
          \/ Goto(w, "waiting")
  /\ UNCHANGED now

NothingDue(w) ==
  /\ work[w].pc = "claim"
  /\ Claimable = {}
  /\ Goto(w, "waiting")
  /\ UNCHANGED <<table, locked, now>>

(* The provider answers, and the worker sends MarkSucceeded, MarkFailed or *)
(* ScheduleRetry.                                                          *)
GetRate(w) ==
  /\ work[w].pc = "calling"
  /\ \E r \in Rates \cup {NULL} :
       work' = [work EXCEPT ![w].pc = "marking", ![w].rate = r, ![w].stmt_now = now]
  /\ UNCHANGED <<table, locked, now>>

MarkSucceeded(w) ==
  /\ work[w].pc = "marking"
  /\ work[w].rate # NULL
  /\ MarkQuoteUpdateSucceeded(work[w].id, work[w].token, work[w].rate, work[w].stmt_now)
  /\ \E received \in BOOLEAN : Goto(w, AfterReply(received, "invalidating"))
  /\ UNCHANGED now

MarkFailed(w) ==
  /\ work[w].pc = "marking"
  /\ work[w].rate = NULL
  /\ LastAttempt(work[w].attempt)
  /\ MarkQuoteUpdateFailed(work[w].id, work[w].token, work[w].stmt_now)
  /\ \E received \in BOOLEAN : Goto(w, AfterReply(received, "claim"))
  /\ UNCHANGED now

ScheduleRetry(w) ==
  /\ work[w].pc = "marking"
  /\ work[w].rate = NULL
  /\ ~LastAttempt(work[w].attempt)
  /\ \E delay \in RetryDelays(RetryBaseDelay, RetryMaxDelay, work[w].attempt),
        skew \in ClockSkews :
       ScheduleQuoteUpdateRetry(work[w].id, work[w].token,
                                work[w].stmt_now + skew + delay, work[w].stmt_now)
  /\ \E received \in BOOLEAN : Goto(w, AfterReply(received, "claim"))
  /\ UNCHANGED now

(* The three statements find no row: applied is false, the loop goes on.   *)
LeaseLost(w) ==
  /\ work[w].pc = "marking"
  /\ ~HoldsLease(work[w].id, work[w].token, work[w].stmt_now)
  /\ Goto(w, "claim")
  /\ UNCHANGED <<table, locked, now>>

StatementFails(w) ==
  /\ work[w].pc \in {"requeue", "claim", "marking"}
  /\ Goto(w, "waiting")
  /\ UNCHANGED <<table, locked, now>>

(* cache.DeleteLatest: its error is only logged.                           *)
DeleteLatest(w) ==
  /\ work[w].pc = "invalidating"
  /\ Goto(w, "claim")
  /\ UNCHANGED <<table, locked, now>>

PollTick(w) ==
  /\ work[w].pc = "waiting"
  /\ Goto(w, "requeue")
  /\ UNCHANGED <<table, locked, now>>

-----------------------------------------------------------------------------
Step(w) ==
  \/ Start(w)
  \/ Crash(w)
  \/ RequeueExpired(w)
  \/ ClaimNext(w)
  \/ NothingDue(w)
  \/ GetRate(w)
  \/ MarkSucceeded(w)
  \/ MarkFailed(w)
  \/ ScheduleRetry(w)
  \/ LeaseLost(w)
  \/ StatementFails(w)
  \/ DeleteLatest(w)
  \/ PollTick(w)

Next ==
  \/ Tick
  \/ \E p \in Pairs : Refresh(p)
  \/ CommitRefresh
  \/ \E w \in Workers : Step(w)

Spec == Init /\ [][Next]_vars

-----------------------------------------------------------------------------
(* Properties.                                                             *)

(* Every variable has its type.                                            *)
TypeOK ==
  /\ table \in [Ids -> Row]
  /\ locked \subseteq Ids
  /\ now \in Nat
  /\ work \in [Workers -> WorkerState]

(* No sequence of statements, stale ones included, ever builds a row that  *)
(* the table's CHECK would reject, so no transition of a worker fails for  *)
(* that reason.                                                            *)
RowConsistent ==
  \A u \in Ids : LET row == table[u] IN
    /\ (row.rate # NULL) <=> (row.status = "SUCCESS")
    /\ (row.lease_token # NULL) <=> (row.status = "PROCESSING")
    /\ (row.locked_until # NULL) <=> (row.status = "PROCESSING")
    /\ row.status = "SUCCESS" => row.error_message = NULL
    /\ row.status = "FAILED" => row.error_message # NULL

(* Requeues and retries never give a pair a second active update: the      *)
(* unique index over active rows is never violated by a worker.            *)
OneActivePerPair ==
  \A u, v \in Ids :
    /\ {table[u].status, table[v].status} \subseteq Active
    /\ table[u].pair = table[v].pair
    => u = v

Holders(u) == {w \in Workers : work[w].token # NULL /\ work[w].token = table[u].lease_token}

(* The current lease of a row is known to at most one worker, which knows  *)
(* the row's id and attempt: a worker that was paused, timed out and       *)
(* superseded never holds the lease of the worker that replaced it.        *)
LeaseExclusive ==
  \A u \in Ids : \A w \in Holders(u) :
    /\ Holders(u) = {w}
    /\ work[w].id = u
    /\ work[w].attempt = table[u].attempt_count

(* A row becomes FAILED only once it was picked up MaxAttempts times, even *)
(* when leases expired and replies were lost on the way.                   *)
FailsOnlyAfterMaxAttempts ==
  \A u \in Ids : table[u].status = "FAILED" => table[u].attempt_count >= MaxAttempts

(* "Provider failures are retried up to WORKER_MAX_ATTEMPTS": no worker    *)
(* calls the provider for an attempt beyond that.                          *)
CallsWithinMaxAttempts ==
  \A w \in Workers : work[w].pc = "calling" => work[w].attempt <= MaxAttempts

(* A lease ends in two ways: by its holder, with what the provider         *)
(* answered to that holder under this very lease and before it ran out; or *)
(* by a requeue after it ran out.  "A slow or crashed worker cannot        *)
(* overwrite the result of another worker."                                *)
LeaseEndsProperly ==
  [][\A u \in Ids :
       table[u].status = "PROCESSING" /\ table'[u] # table[u] =>
         \/ \E w \in Holders(u) :
              /\ work[w].pc = "marking"
              /\ work[w].stmt_now < table[u].locked_until
              /\ table'[u].rate = work[w].rate
              /\ work'[w].token = NULL
         \/ /\ table'[u].status = "PENDING"
            /\ table[u].locked_until < now]_vars

(* A finished update never changes again.                                  *)
FinishedIsFinal ==
  [][\A u \in Ids : table[u].status \in Final => table'[u] = table[u]]_vars

(* ORDER BY updated_at finds the rate that was saved last: although        *)
(* updated_at is the time a statement started, not the time it committed,  *)
(* GetLatestByPair may return a success from the moment it is one, and no  *)
(* earlier success of the pair sorts after it.                             *)
LatestIsNewest ==
  [][\A u \in Ids :
       table[u].status # "SUCCESS" /\ table'[u].status = "SUCCESS"
       => u \in GetLatestByPair(table[u].pair)']_vars

Phase(status) ==
  CASE status = "ABSENT"     -> "new"
    [] status = "PENDING"    -> "open"
    [] status = "PROCESSING" -> "taken"
    [] status = "SUCCESS"    -> "done"
    [] status = "FAILED"     -> "abandoned"

(* The queue implements LeasedTasks: tokens, leases and clocks only decide *)
(* who has a task, and stale statements have no effect.                    *)
Queue == INSTANCE LeasedTasks WITH
  Tasks    <- Ids,
  Subjects <- Pairs,
  Results  <- Rates,
  MaxTries <- MaxAttempts,
  None     <- NULL,
  phase    <- [u \in Ids |-> Phase(table[u].status)],
  subject  <- [u \in Ids |-> table[u].pair],
  holders  <- [u \in Ids |-> Holders(u)],
  tries    <- [u \in Ids |-> table[u].attempt_count],
  result   <- [u \in Ids |-> table[u].rate]

QueueSpec == Queue!TSpec
=============================================================================
