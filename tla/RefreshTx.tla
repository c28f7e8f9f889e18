------------------------------ MODULE RefreshTx -----------------------------
(***************************************************************************)
(* POST /quotes/refresh: the transaction of repo.Refresh                   *)
(* (internal/repository/quotes/refresh.go), statement by statement, run    *)
(* concurrently by requests that may share an idempotency key or a pair.   *)
(* PostgreSQL shows a statement only committed rows, fixes NOW() at the    *)
(* start of the transaction, and makes a statement wait for a row that     *)
(* another open transaction has locked or is inserting.                    *)
(***************************************************************************)
EXTENDS Integers

CONSTANTS
  Keys,         \* idempotency keys
  Pairs,        \* normalised, supported currency pairs
  HashText,     \* HashText[k]: hashtext(k), which may collide
  TTL,          \* idempotencyTTL
  MaxRequests,  \* bound on the requests ever sent, retries included
  MaxTime,      \* bound on the clock
  NULL

ASSUME RefreshAssumption ==
  /\ HashText \in [Keys -> Nat]
  /\ TTL \in Nat \ {0}
  /\ MaxRequests \in Nat /\ MaxTime \in Nat
  /\ NULL \notin Keys \cup Pairs \cup Int

(* Requests are numbered in the order in which they begin.  An update has  *)
(* the number of the request that inserts it: gen_random_uuid() never      *)
(* returns a value twice.                                                  *)
Requests == 1 .. MaxRequests
Ids      == Requests

VARIABLES
  updates,  \* quote_updates: status and pair of the committed rows
  keys,     \* idempotency_keys: the committed row of a key, or NULL
  tx,       \* tx[q]: the transaction of request q
  now,      \* the clock
  sent,     \* how many requests were sent
  answers,  \* history: what every committed transaction answers
  refusals  \* history: the requests that were answered with 409

vars == <<updates, keys, tx, now, sent, answers, refusals>>

-----------------------------------------------------------------------------
(* A transaction: its place in refreshTx, its input, NOW(), the row it has *)
(* inserted or locked, updateID, and the expires_at of the key row that    *)
(* its answer rests on.  The request hash stands for the pair it hashes.   *)
NoTx == [pc |-> "idle", key |-> NULL, pair |-> NULL, start |-> 0,
         row |-> NULL, id |-> NULL, expires |-> NULL]

Tx == [ pc      : {"idle", "lock", "get", "create", "upsert", "commit"},
        key     : Keys \cup {NULL},
        pair    : Pairs \cup {NULL},
        start   : Nat,
        row     : Ids \cup {NULL},
        id      : Ids \cup {NULL},
        expires : Nat \cup {NULL} ]

KeyRow == [pair : Pairs, update_id : Ids, expires_at : Nat]

ASSUME NoRowAssumption == NULL \notin KeyRow

Answer  == [key : Keys, pair : Pairs, id : Ids, at : Nat, expires : Nat]
Refusal == [key : Keys, pair : Pairs, start : Nat]

(* Mutant: the conflict target leaves out currency_pair.                   *)
Active_AnyPair(p) == {u \in Ids : updates[u].status = "ACTIVE"}

(* Rows that are in the unique index of active rows.                       *)
Active(p) == {u \in Ids : updates[u].status = "ACTIVE" /\ updates[u].pair = p}

RowHeld(u) == \E q \in Requests : tx[q].row = u

(* Mutant: no unique index, only a look at the committed rows.             *)
Inserting_NoIndex(p) == FALSE

(* The unique index makes an INSERT wait for the transaction that is       *)
(* inserting a row of the same pair.                                       *)
Inserting(p) ==
  \E q \in Requests : /\ tx[q].row # NULL
                      /\ tx[q].pair = p
                      /\ updates[tx[q].row].status = "ABSENT"

(* Mutant: the lock is not taken in the transaction, so it is not kept.    *)
LockHeld_NotKept(q) == FALSE

(* pg_advisory_xact_lock: held until the transaction ends.                 *)
LockHeld(q) ==
  \E r \in Requests : /\ tx[r].pc \in {"get", "create", "upsert", "commit"}
                      /\ HashText[tx[r].key] = HashText[tx[q].key]

(* Mutant: the key's row is read without a look at its expiry.             *)
Bound_Expired(q) == keys[tx[q].key] # NULL

(* GetIdempotencyKey finds a row that has not expired at NOW().            *)
Bound(q) == keys[tx[q].key] # NULL /\ keys[tx[q].key].expires_at > tx[q].start

Init ==
  /\ updates = [u \in Ids |-> [status |-> "ABSENT", pair |-> NULL]]
  /\ keys = [k \in Keys |-> NULL]
  /\ tx = [q \in Requests |-> NoTx]
  /\ now = 0
  /\ sent = 0
  /\ answers = {}
  /\ refusals = {}

-----------------------------------------------------------------------------
(* refreshTx, one action per statement.                                    *)

Begin(q, k, p) ==
  /\ q = sent + 1
  /\ sent' = q
  /\ tx' = [tx EXCEPT ![q] = [NoTx EXCEPT !.pc = "lock", !.key = k, !.pair = p, !.start = now]]
  /\ UNCHANGED <<updates, keys, now, answers, refusals>>

LockIdempotencyKey(q) ==
  /\ tx[q].pc = "lock"
  /\ ~LockHeld(q)
  /\ tx' = [tx EXCEPT ![q].pc = "get"]
  /\ UNCHANGED <<updates, keys, now, sent, answers, refusals>>

(* The key is bound to the same request: its update is the answer.         *)
KeyFound(q) ==
  /\ tx[q].pc = "get"
  /\ Bound(q)
  /\ keys[tx[q].key].pair = tx[q].pair
  /\ tx' = [tx EXCEPT ![q].pc = "commit",
                      ![q].id = keys[tx[q].key].update_id,
                      ![q].expires = keys[tx[q].key].expires_at]
  /\ UNCHANGED <<updates, keys, now, sent, answers, refusals>>

(* Mutant: the error leaves the transaction open.                          *)
KeyConflict_NoRollback(q) ==
  /\ tx[q].pc = "get"
  /\ Bound(q)
  /\ keys[tx[q].key].pair # tx[q].pair
  /\ UNCHANGED vars

(* ErrIdempotencyConflict: the transaction is rolled back and the status   *)
(* is 409.  When the rollback fails its error takes the place of the       *)
(* conflict and the status is 500: that is the action Rollback.            *)
KeyConflict(q) ==
  /\ tx[q].pc = "get"
  /\ Bound(q)
  /\ keys[tx[q].key].pair # tx[q].pair
  /\ tx' = [tx EXCEPT ![q] = NoTx]
  /\ refusals' = refusals \cup {[key |-> tx[q].key, pair |-> tx[q].pair, start |-> tx[q].start]}
  /\ UNCHANGED <<updates, keys, now, sent, answers>>

KeyMissing(q) ==
  /\ tx[q].pc = "get"
  /\ ~Bound(q)
  /\ tx' = [tx EXCEPT ![q].pc = "create"]
  /\ UNCHANGED <<updates, keys, now, sent, answers, refusals>>

(* The row that the statement finds or inserts, when it need not wait.     *)
Returns(q, u) ==
  /\ ~RowHeld(u)
  /\ \/ u \in Active(tx[q].pair)
     \/ /\ u = q
        /\ updates[u].status = "ABSENT"
        /\ Active(tx[q].pair) = {}
        /\ ~Inserting(tx[q].pair)

(* The active row of the pair is returned locked, or a row is inserted.    *)
CreateOrGetActive(q) ==
  /\ tx[q].pc = "create"
  /\ \E u \in Ids :
       /\ Returns(q, u)
       /\ tx' = [tx EXCEPT ![q].pc = "upsert", ![q].row = u, ![q].id = u]
  /\ UNCHANGED <<updates, keys, now, sent, answers, refusals>>

(* Mutant: expires_at is left out of the statement.                        *)
ExpiresAt_Unset == NULL

ExpiresAt == now + TTL

UpsertIdempotencyKey(q) ==
  /\ tx[q].pc = "upsert"
  /\ tx' = [tx EXCEPT ![q].pc = "commit", ![q].expires = ExpiresAt]
  /\ UNCHANGED <<updates, keys, now, sent, answers, refusals>>

(* The writes become visible and the locks are released together.  Whether *)
(* the client learns of the commit does not change the database.           *)
Commit(q) ==
  /\ tx[q].pc = "commit"
  /\ LET t == tx[q] IN
     /\ updates' = [u \in Ids |-> IF u = t.row THEN [status |-> "ACTIVE", pair |-> t.pair]
                                               ELSE updates[u]]
     /\ keys' = [k \in Keys |-> IF t.row # NULL /\ k = t.key
                  THEN [pair |-> t.pair, update_id |-> t.id, expires_at |-> t.expires]
                  ELSE keys[k]]
     /\ answers' = answers \cup
          {[key |-> t.key, pair |-> t.pair, id |-> t.id, at |-> now, expires |-> t.expires]}
  /\ tx' = [tx EXCEPT ![q] = NoTx]
  /\ UNCHANGED <<now, sent, refusals>>

(* Mutant: the error is returned and the transaction stays open.           *)
Rollback_LeftOpen(q) ==
  /\ tx[q].pc # "idle"
  /\ tx' = [tx EXCEPT ![q].pc = "idle"]
  /\ UNCHANGED <<updates, keys, now, sent, answers, refusals>>

(* A statement, the commit or a rollback fails, the client goes away, the  *)
(* instance stops: PostgreSQL rolls back, and the status, if any, is 500.  *)
Rollback(q) ==
  /\ tx[q].pc # "idle"
  /\ tx' = [tx EXCEPT ![q] = NoTx]
  /\ UNCHANGED <<updates, keys, now, sent, answers, refusals>>

(* A worker's transitions: the row leaves the index of active rows.        *)
FinishUpdate(u) ==
  /\ updates[u].status = "ACTIVE"
  /\ ~RowHeld(u)
  /\ updates' = [updates EXCEPT ![u].status = "FINISHED"]
  /\ UNCHANGED <<keys, tx, now, sent, answers, refusals>>

Tick ==
  /\ now < MaxTime
  /\ now' = now + 1
  /\ UNCHANGED <<updates, keys, tx, sent, answers, refusals>>

Progress(q) ==
  \/ LockIdempotencyKey(q)
  \/ KeyFound(q)
  \/ KeyConflict(q)
  \/ KeyMissing(q)
  \/ CreateOrGetActive(q)
  \/ UpsertIdempotencyKey(q)
  \/ Commit(q)

Next ==
  \/ \E q \in Requests, k \in Keys, p \in Pairs : Begin(q, k, p)
  \/ \E q \in Requests : Progress(q) \/ Rollback(q)
  \/ \E u \in Ids : FinishUpdate(u)
  \/ Tick

(* PostgreSQL runs a statement whose lock is free, and queues those that   *)
(* wait for a lock, so a request that may go on again and again does.      *)
Spec == Init /\ [][Next]_vars /\ \A q \in Requests : WF_vars(Progress(q))

-----------------------------------------------------------------------------
TypeOK ==
  /\ updates \in [Ids -> [status : {"ABSENT", "ACTIVE", "FINISHED"}, pair : Pairs \cup {NULL}]]
  /\ keys \in [Keys -> KeyRow \cup {NULL}]
  /\ tx \in [Requests -> Tx]
  /\ now \in Nat
  /\ sent \in Nat
  /\ answers \subseteq Answer
  /\ refusals \subseteq Refusal

(* "Idempotency-Key makes retrying safe": two answers under one key are    *)
(* for the same pair and name the same update, unless one was given after  *)
(* the key of the other had expired.  A commit whose reply was lost counts *)
(* as an answer: its retry must name the update it created.                *)
SameKeySameUpdate ==
  \A a, b \in answers :
    a.key = b.key =>
      \/ a.id = b.id /\ a.pair = b.pair
      \/ a.at >= b.expires
      \/ b.at >= a.expires

(* "No more than one active update per currency pair", counting the rows   *)
(* about to be inserted, so that no transaction fails on the unique index. *)
OneActivePerPair ==
  \A p \in Pairs :
    \A u, v \in Active(p) \cup {tx[q].row : q \in {r \in Requests : /\ tx[r].row # NULL
                                                                    /\ tx[r].pair = p}} :
      u = v

(* What a client was told stays true: the update exists and is for the     *)
(* pair that was asked, whatever was rolled back around it.                *)
AnswersName ==
  \A a \in answers : updates[a.id].status # "ABSENT" /\ updates[a.id].pair = a.pair

(* A client is told that its key conflicts (409) only if that key was      *)
(* committed for another pair and had not expired when it asked.           *)
RefusalsHaveCause ==
  \A r \in refusals :
    \E a \in answers : a.key = r.key /\ a.pair # r.pair /\ a.expires > r.start

(* A request waits for the advisory lock, or for the active row of its     *)
(* pair; r is a request that can have taken it.                            *)
Waits(q) ==
  \/ tx[q].pc = "lock" /\ LockHeld(q)
  \/ tx[q].pc = "create" /\ \A u \in Ids : ~Returns(q, u)

WaitsFor(q, r) ==
  \/ /\ tx[q].pc = "lock"
     /\ tx[r].pc \in {"get", "create", "upsert", "commit"}
     /\ HashText[tx[r].key] = HashText[tx[q].key]
  \/ /\ tx[q].pc = "create"
     /\ tx[r].pc # "idle" /\ tx[r].row # NULL
     /\ tx[r].pair = tx[q].pair

(* Requests never wait for each other in a circle, nor for nobody, though  *)
(* they hold the lock of a key while they wait for a row: in every set of  *)
(* requests in progress there is one that can go on, or that waits for a   *)
(* request outside the set.                                                *)
NoDeadlock ==
  \A S \in (SUBSET {q \in Requests : tx[q].pc # "idle"}) \ {{}} :
    \E q \in S : ~Waits(q) \/ \E r \in Requests \ S : WaitsFor(q, r)

(* What a worker takes for granted of the requests: a committed row is     *)
(* never taken back, written over or moved to another pair; a row becomes  *)
(* active once, and only while its pair has no other one; a final row      *)
(* stays final.                                                            *)
UpdatesAdvance ==
  [][\A u \in Ids : updates'[u] # updates[u] =>
       \/ /\ updates[u].status = "ABSENT" /\ updates'[u].status = "ACTIVE"
          /\ Active(updates'[u].pair) = {}
       \/ /\ updates[u].status = "ACTIVE" /\ updates'[u].status = "FINISHED"
          /\ updates'[u].pair = updates[u].pair]_vars

(* Interleaved transactions behave like requests that are a single step:   *)
(* each takes effect where it commits, or where it finds the conflict.     *)
Atomic == INSTANCE IdempotentRefresh WITH bindings <- keys, None <- NULL

RefreshSpec == Atomic!ISpec

(* Requests do not wait for each other for ever.                           *)
EveryRequestEnds ==
  \A q \in Requests : tx[q].pc # "idle" ~> tx[q].pc = "idle"
=============================================================================
