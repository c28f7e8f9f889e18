---------------------------- MODULE QuoteUpdates ----------------------------
(***************************************************************************)
(* The quote_updates table (env/migrations/0001_quote_updates.sql) and the *)
(* statements of internal/repository/postgres/sqlc/queries/quotes.sql that *)
(* write it, under PostgreSQL's READ COMMITTED semantics: every statement  *)
(* outside Refresh commits on its own, NOW() is the start of the           *)
(* transaction, an UPDATE waits for a row that an open transaction has     *)
(* locked, FOR UPDATE SKIP LOCKED does not.                                *)
(***************************************************************************)
EXTENDS Integers

CONSTANTS
  Ids,      \* values of quote_updates.id that gen_random_uuid() may return
  Pairs,    \* supported currency pairs
  Tokens,   \* values of lease_token that gen_random_uuid() may return
  Rates,    \* rates the provider may quote
  NULL      \* SQL's NULL

ASSUME NullAssumption ==
  /\ NULL \notin Ids \cup Pairs \cup Tokens \cup Rates \cup Int
  /\ NULL # "message"

VARIABLES
  table,    \* table[u]: the row with id u, or AbsentRow
  locked,   \* rows that an open Refresh transaction holds locked
  now       \* the database clock

-----------------------------------------------------------------------------
(* Rows.  The text of an error message is immaterial: it is there or not.  *)

Active == {"PENDING", "PROCESSING"}
Final  == {"SUCCESS", "FAILED"}

Row ==
  [ status          : {"ABSENT"} \cup Active \cup Final,
    pair            : Pairs \cup {NULL},
    rate            : Rates \cup {NULL},
    error_message   : {"message", NULL},
    attempt_count   : Nat,
    next_attempt_at : Int,
    locked_until    : Int \cup {NULL},
    lease_token     : Tokens \cup {NULL},
    created_at      : Nat,
    updated_at      : Nat ]

NewRow(status, p, t) ==
  [ status          |-> status,
    pair            |-> p,
    rate            |-> NULL,
    error_message   |-> NULL,
    attempt_count   |-> 0,
    next_attempt_at |-> t,
    locked_until    |-> NULL,
    lease_token     |-> NULL,
    created_at      |-> t,
    updated_at      |-> t ]

(* Mutant: the index covers PENDING rows only.                             *)
ActiveRows_PendingOnly(p) == {u \in Ids : table[u].status = "PENDING" /\ table[u].pair = p}

(* The rows of a pair in the unique index uniq_quote_updates_active_pair.  *)
ActiveRows(p) == {u \in Ids : table[u].status \in Active /\ table[u].pair = p}

(* Mutants: the WHERE clause without lease_token; by id alone.             *)
HoldsLease_AnyToken(u, token, t) ==
  /\ table[u].status = "PROCESSING"
  /\ table[u].locked_until > t

HoldsLease_ById(u, token, t) == table[u].status # "ABSENT"

(* The WHERE clause of the three Mark/Schedule statements; t is NOW() of   *)
(* the statement.                                                          *)
HoldsLease(u, token, t) ==
  /\ table[u].status = "PROCESSING"
  /\ table[u].locked_until > t
  /\ table[u].lease_token = token

Expired == {u \in Ids : /\ table[u].status = "PROCESSING"
                        /\ table[u].locked_until < now}

(* Rows a claim may take: due, and not skipped as locked.                  *)
Claimable == {u \in Ids : /\ table[u].status = "PENDING"
                          /\ table[u].next_attempt_at <= now
                          /\ u \notin locked}

(* ORDER BY next_attempt_at, created_at.                                   *)
Before(u, v) ==
  \/ table[u].next_attempt_at < table[v].next_attempt_at
  \/ /\ table[u].next_attempt_at = table[v].next_attempt_at
     /\ table[u].created_at < table[v].created_at

-----------------------------------------------------------------------------
(* Statements.                                                             *)

Init_table ==
  /\ now = 0
  /\ table = [u \in Ids |-> NewRow("ABSENT", NULL, 0)]
  /\ locked = {}

(* CreateOrGetActiveQuoteUpdate where the pair has no active row: the      *)
(* INSERT, visible when the Refresh transaction commits; its NOW() is t,   *)
(* the start of that transaction.                                          *)
InsertQuoteUpdate(p, t) ==
  /\ ActiveRows(p) = {}
  /\ \E u \in Ids : /\ table[u].status = "ABSENT"
                    /\ table' = [table EXCEPT ![u] = NewRow("PENDING", p, t)]
  /\ UNCHANGED locked

(* CreateOrGetActiveQuoteUpdate where the pair has an active row: ON       *)
(* CONFLICT DO UPDATE changes nothing but keeps the row locked until the   *)
(* Refresh transaction ends.                                               *)
TouchQuoteUpdate(p) ==
  /\ \E u \in ActiveRows(p) \ locked : locked' = locked \cup {u}
  /\ UNCHANGED table

(* COMMIT or ROLLBACK of a Refresh transaction that holds a row.           *)
EndRefresh ==
  /\ \E u \in locked : locked' = locked \ {u}
  /\ UNCHANGED table

ClaimNextQuoteUpdate(u, lockedUntil, token) ==
  /\ u \in Claimable
  /\ \A v \in Claimable : ~Before(v, u)
  /\ table' = [table EXCEPT ![u].status = "PROCESSING",
                            ![u].locked_until = lockedUntil,
                            ![u].lease_token = token,
                            ![u].attempt_count = @ + 1,
                            ![u].updated_at = now]
  /\ UNCHANGED locked

(* Mutants: the requeue forgets the token; it clears the due time.         *)
RequeuedRow_KeepsToken(u) ==
  [table[u] EXCEPT !.status = "PENDING", !.locked_until = NULL,
                   !.next_attempt_at = now, !.updated_at = now]

RequeuedRow_NeverDue(u) ==
  [table[u] EXCEPT !.status = "PENDING", !.locked_until = NULL, !.lease_token = NULL,
                   !.next_attempt_at = NULL, !.updated_at = now]

RequeuedRow(u) ==
  [table[u] EXCEPT !.status = "PENDING",
                   !.locked_until = NULL,
                   !.lease_token = NULL,
                   !.next_attempt_at = now,
                   !.updated_at = now]

(* One UPDATE over every expired row; it waits for the locked ones.  Its   *)
(* NOW() is taken when it has them: one that has waited would date the     *)
(* rows by that much earlier and leave to the next requeue those whose     *)
(* lease ran out in between.                                               *)
RequeueExpiredQuoteUpdates ==
  /\ Expired \cap locked = {}
  /\ table' = [u \in Ids |-> IF u \in Expired THEN RequeuedRow(u) ELSE table[u]]
  /\ UNCHANGED locked

MarkQuoteUpdateSucceeded(u, token, r, t) ==
  /\ HoldsLease(u, token, t)
  /\ u \notin locked
  /\ table' = [table EXCEPT ![u].status = "SUCCESS",
                            ![u].rate = r,
                            ![u].error_message = NULL,
                            ![u].locked_until = NULL,
                            ![u].lease_token = NULL,
                            ![u].updated_at = t]
  /\ UNCHANGED locked

ScheduleQuoteUpdateRetry(u, token, nextAttemptAt, t) ==
  /\ HoldsLease(u, token, t)
  /\ u \notin locked
  /\ table' = [table EXCEPT ![u].status = "PENDING",
                            ![u].error_message = "message",
                            ![u].locked_until = NULL,
                            ![u].lease_token = NULL,
                            ![u].next_attempt_at = nextAttemptAt,
                            ![u].updated_at = t]
  /\ UNCHANGED locked

MarkQuoteUpdateFailed(u, token, t) ==
  /\ HoldsLease(u, token, t)
  /\ u \notin locked
  /\ table' = [table EXCEPT ![u].status = "FAILED",
                            ![u].rate = NULL,
                            ![u].error_message = "message",
                            ![u].locked_until = NULL,
                            ![u].lease_token = NULL,
                            ![u].updated_at = t]
  /\ UNCHANGED locked

(* Mutant: ORDER BY created_at.                                            *)
GetLatestByPair_ByCreation(p) ==
  LET successes == {u \in Ids : table[u].status = "SUCCESS" /\ table[u].pair = p}
  IN  {u \in successes : \A v \in successes : table[v].created_at <= table[u].created_at}

(* GetLatestByPair: the ids ORDER BY updated_at DESC LIMIT 1 may return.   *)
GetLatestByPair(p) ==
  LET successes == {u \in Ids : table[u].status = "SUCCESS" /\ table[u].pair = p}
  IN  {u \in successes : \A v \in successes : table[v].updated_at <= table[u].updated_at}
=============================================================================
