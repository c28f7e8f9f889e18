--------------------------- MODULE RefreshTxProofs --------------------------
(***************************************************************************)
(* Proofs about RefreshTx, for every set of keys and pairs, every hash,    *)
(* every TTL and every number of requests.                                 *)
(***************************************************************************)
EXTENDS RefreshTx, TLAPS

-----------------------------------------------------------------------------
(* The inductive invariant.                                                *)

HasLock(q) == tx[q].pc \in {"get", "create", "upsert", "commit"}

(* Requests under one key run refreshTx one after the other.               *)
LocksExclusive ==
  \A q, r \in Requests :
    HasLock(q) /\ HasLock(r) /\ HashText[tx[q].key] = HashText[tx[r].key] => q = r

(* The key of t was free when t began, and by the lock it still is.        *)
KeyFree(t) == keys[t.key] # NULL => keys[t.key].expires_at <= t.start

(* What a transaction knows at each place of refreshTx.                    *)
WellFormed(t) ==
  /\ t.pc # "idle" => t.key \in Keys /\ t.pair \in Pairs /\ t.start <= now
  /\ t.pc \notin {"upsert", "commit"} => t.row = NULL
  /\ t.pc = "create" => KeyFree(t)
  /\ t.pc = "upsert" => t.row # NULL
  /\ t.row # NULL => t.id = t.row /\ KeyFree(t)
  /\ t.pc = "commit" => t.id \in Ids /\ t.expires \in Nat
  /\ t.pc = "commit" /\ t.row # NULL => t.expires <= now + TTL
  /\ t.pc = "commit" /\ t.row = NULL =>
       keys[t.key] = [pair |-> t.pair, update_id |-> t.id, expires_at |-> t.expires]

Absent     == [status |-> "ABSENT", pair |-> NULL]
ActiveRow(p) == [status |-> "ACTIVE", pair |-> p]

(* Request q may hold the row of t: nobody else has one of that pair, and  *)
(* no other row of the pair is active.                                     *)
HoldsAlone(q, t) ==
  /\ updates[t.row] \in {Absent, ActiveRow(t.pair)}
  /\ \A u \in Active(t.pair) : u = t.row
  /\ \A r \in Requests \ {q} :
       tx[r].row # t.row /\ (tx[r].row # NULL => tx[r].pair # t.pair)

Rows ==
  /\ \A u \in Ids : updates[u].status = "ABSENT" => updates[u] = Absent
  /\ \A p \in Pairs : \A u, v \in Active(p) : u = v
  /\ \A q \in Requests : tx[q].row # NULL => HoldsAlone(q, tx[q])

(* A key stands for an update of its pair, and somebody was told so.       *)
KeysNamed ==
  \A k \in Keys : keys[k] # NULL =>
    /\ updates[keys[k].update_id].status # "ABSENT"
    /\ updates[keys[k].update_id].pair = keys[k].pair
    /\ \E a \in answers : a.key = k /\ a.pair = keys[k].pair /\ a.expires = keys[k].expires_at

(* An answer is still what its key stands for, or its key had expired.     *)
AnswersKept ==
  \A a \in answers :
    /\ keys[a.key] # NULL
    /\ \/ keys[a.key] = [pair |-> a.pair, update_id |-> a.id, expires_at |-> a.expires]
       \/ a.expires <= now

IInv ==
  /\ TypeOK
  /\ LocksExclusive
  /\ \A q \in Requests : WellFormed(tx[q])
  /\ Rows
  /\ KeysNamed
  /\ AnswersKept
  /\ AnswersName
  /\ SameKeySameUpdate
  /\ RefusalsHaveCause

-----------------------------------------------------------------------------
(* Steps that change one transaction and no committed row.                 *)

LEMMA IdsAreNumbers == NULL \notin Ids /\ NULL \notin Nat /\ NULL \notin Pairs /\ NULL \notin Keys
BY RefreshAssumption DEF Ids, Requests

LEMMA NoTxFits ==
  /\ NoTx \in Tx
  /\ NoTx.pc = "idle" /\ NoTx.row = NULL
BY DEF NoTx, Tx

(* The transaction of q becomes t.                                         *)
Becomes(q, t) ==
  /\ t \in Tx
  /\ tx' = [tx EXCEPT ![q] = t]
  /\ UNCHANGED <<updates, keys, now>>

LEMMA TxBecomes ==
  ASSUME IInv, NEW q \in Requests, NEW t \in Tx, tx' = [tx EXCEPT ![q] = t]
  PROVE  /\ tx' \in [Requests -> Tx]
         /\ \A r \in Requests : tx'[r] = IF r = q THEN t ELSE tx[r]
BY DEF IInv, TypeOK

LEMMA TxStep ==
  ASSUME IInv, NEW q \in Requests, NEW t \in Tx, Becomes(q, t), WellFormed(t),
         t.pc \in {"get", "create", "upsert", "commit"} =>
           \A r \in Requests \ {q} : HasLock(r) => HashText[tx[r].key] # HashText[t.key],
         t.row # NULL => HoldsAlone(q, t)
  PROVE  /\ LocksExclusive'
         /\ \A r \in Requests : WellFormed(tx[r])'
         /\ Rows'
<1>1. \A r \in Requests : tx'[r] = IF r = q THEN t ELSE tx[r]
  BY TxBecomes DEF Becomes
<1>2. UNCHANGED <<updates, keys, now>>
  BY DEF Becomes
<1>3. LocksExclusive'
  BY <1>1 DEF LocksExclusive, HasLock, IInv
<1>4. ASSUME NEW r \in Requests
      PROVE  WellFormed(tx[r])'
  <2>1. WellFormed(tx'[r])
    BY <1>1 DEF IInv
  <2>. QED
    BY <1>2, <2>1 DEF WellFormed, KeyFree
<1>5. \A p : Active(p)' = Active(p)
  BY <1>2 DEF Active
<1>6. ASSUME NEW r \in Requests, tx'[r].row # NULL
      PROVE  HoldsAlone(r, tx[r])'
  <2>1. CASE r = q
    BY <1>1, <1>2, <1>5, <1>6, <2>1 DEF HoldsAlone
  <2>2. CASE r # q
    <3>1. tx'[r] = tx[r] /\ HoldsAlone(r, tx[r])
      BY <1>1, <1>6, <2>2 DEF IInv, Rows
    <3>2. ASSUME NEW x \in Requests \ {r}
          PROVE  tx'[x].row # tx[r].row /\ (tx'[x].row # NULL => tx'[x].pair # tx[r].pair)
      <4>1. CASE x = q
        BY <1>1, <1>6, <2>2, <3>1, <4>1 DEF HoldsAlone
      <4>2. CASE x # q
        BY <1>1, <3>1, <4>2 DEF HoldsAlone
      <4>. QED
        BY <4>1, <4>2
    <3>. QED
      BY <1>2, <1>5, <3>1, <3>2 DEF HoldsAlone
  <2>. QED
    BY <2>1, <2>2
<1>7. Rows'
  BY <1>2, <1>5, <1>6 DEF IInv, Rows
<1>. QED
  BY <1>3, <1>4, <1>7

(* What was committed and answered stays consistent.                       *)
LEMMA HistoryStep ==
  ASSUME IInv, UNCHANGED <<updates, keys, now, answers>>
  PROVE  KeysNamed' /\ AnswersKept' /\ AnswersName' /\ SameKeySameUpdate'
BY DEF IInv, KeysNamed, AnswersKept, AnswersName, SameKeySameUpdate

(* A transaction that ends gives up its lock and its row.                  *)
LEMMA EndStep ==
  ASSUME IInv, NEW q \in Requests, Becomes(q, NoTx)
  PROVE  /\ LocksExclusive'
         /\ \A r \in Requests : WellFormed(tx[r])'
         /\ Rows'
<1>1. PICK t \in Tx : t = NoTx
  BY NoTxFits
<1>2. WellFormed(t)
  BY <1>1, NoTxFits DEF WellFormed
<1>. QED
  BY <1>1, <1>2, NoTxFits, TxStep

(* Records with some fields changed.                                       *)
LEMMA Fields ==
  ASSUME NEW s \in Tx, NEW u \in Ids \cup {NULL}, NEW e \in Nat \cup {NULL},
         NEW c \in {"idle", "lock", "get", "create", "upsert", "commit"}
  PROVE  /\ [s EXCEPT !.pc = c] \in Tx
         /\ [s EXCEPT !.pc = c, !.row = u, !.id = u] \in Tx
         /\ [s EXCEPT !.pc = c, !.expires = e] \in Tx
         /\ [s EXCEPT !.pc = c, !.id = u, !.expires = e] \in Tx
<1>1. [s EXCEPT !.pc = c] \in Tx
  BY ZenonT(60) DEF Tx
<1>2. [s EXCEPT !.pc = c, !.row = u, !.id = u] \in Tx
  BY ZenonT(60) DEF Tx
<1>3. [s EXCEPT !.pc = c, !.expires = e] \in Tx
  BY ZenonT(60) DEF Tx
<1>4. [s EXCEPT !.pc = c, !.id = u, !.expires = e] \in Tx
  BY ZenonT(60) DEF Tx
<1>. QED
  BY <1>1, <1>2, <1>3, <1>4

LEMMA BeginStep ==
  ASSUME IInv, NEW q \in Requests, NEW k \in Keys, NEW p \in Pairs, Begin(q, k, p)
  PROVE  IInv'
<1>. DEFINE b == [NoTx EXCEPT !.pc = "lock", !.key = k, !.pair = p, !.start = now]
<1>1. b \in Tx /\ b.pc = "lock" /\ b.key = k /\ b.pair = p /\ b.start = now /\ b.row = NULL
  BY DEF NoTx, Tx, IInv, TypeOK
<1>2. PICK t \in Tx : t = b
  BY <1>1
<1>3. WellFormed(t)
  BY <1>1, <1>2 DEF WellFormed, IInv, TypeOK
<1>4. Becomes(q, t) /\ sent' = q /\ UNCHANGED <<answers, refusals>>
  BY <1>2 DEF Begin, Becomes
<1>5. /\ LocksExclusive'
      /\ \A r \in Requests : WellFormed(tx[r])'
      /\ Rows'
  BY <1>1, <1>2, <1>3, <1>4, TxStep
<1>6. tx' \in [Requests -> Tx]
  BY <1>4, TxBecomes DEF Becomes
<1>7. sent' \in Nat
  BY <1>4, RefreshAssumption DEF Requests
<1>8. UNCHANGED <<updates, keys, now, answers, refusals>>
  BY <1>4 DEF Becomes
<1>9. TypeOK' /\ RefusalsHaveCause'
  BY <1>6, <1>7, <1>8 DEF IInv, TypeOK, RefusalsHaveCause
<1>. QED
  BY <1>5, <1>8, <1>9, HistoryStep DEF IInv

(* A step inside a transaction.                                            *)
LEMMA InsideStep ==
  ASSUME IInv, NEW q \in Requests, NEW t \in Tx, Becomes(q, t), WellFormed(t),
         t.pc \in {"get", "create", "upsert", "commit"} =>
           \A r \in Requests \ {q} : HasLock(r) => HashText[tx[r].key] # HashText[t.key],
         t.row # NULL => HoldsAlone(q, t),
         UNCHANGED <<sent, answers, refusals>>
  PROVE  IInv'
<1>1. /\ LocksExclusive'
      /\ \A r \in Requests : WellFormed(tx[r])'
      /\ Rows'
  BY TxStep
<1>2. tx' \in [Requests -> Tx]
  BY TxBecomes DEF Becomes
<1>3. UNCHANGED <<updates, keys, now, sent, answers, refusals>>
  BY DEF Becomes
<1>4. TypeOK' /\ RefusalsHaveCause'
  BY <1>2, <1>3 DEF IInv, TypeOK, RefusalsHaveCause
<1>. QED
  BY <1>1, <1>3, <1>4, HistoryStep DEF IInv

(* Whoever has a lock keeps the others out.                                *)
LEMMA OthersLocked ==
  ASSUME IInv, NEW q \in Requests, HasLock(q)
  PROVE  \A r \in Requests \ {q} : HasLock(r) => HashText[tx[r].key] # HashText[tx[q].key]
BY DEF IInv, LocksExclusive

LEMMA LockStep ==
  ASSUME IInv, NEW q \in Requests, LockIdempotencyKey(q)
  PROVE  IInv'
<1>. DEFINE b == [tx[q] EXCEPT !.pc = "get"]
<1>1. tx[q] \in Tx /\ WellFormed(tx[q]) /\ tx \in [Requests -> Tx]
  BY DEF IInv, TypeOK
<1>2. PICK t \in Tx : t = b
  BY <1>1, Fields, IdsAreNumbers
<1>3. t.pc = "get" /\ t.key = tx[q].key /\ t.pair = tx[q].pair /\ t.start = tx[q].start
      /\ t.row = tx[q].row
  BY <1>1, <1>2 DEF Tx
<1>4. WellFormed(t)
  BY <1>1, <1>3 DEF WellFormed, LockIdempotencyKey
<1>5. \A r \in Requests : HasLock(r) => HashText[tx[r].key] # HashText[t.key]
  BY <1>3 DEF LockIdempotencyKey, LockHeld, HasLock
<1>6. Becomes(q, t) /\ UNCHANGED <<sent, answers, refusals>>
  BY <1>1, <1>2 DEF Becomes, LockIdempotencyKey
<1>7. t.row = NULL
  BY <1>3, <1>4 DEF WellFormed
<1>. QED
  BY <1>4, <1>5, <1>6, <1>7, InsideStep

LEMMA KeyFoundStep ==
  ASSUME IInv, NEW q \in Requests, KeyFound(q)
  PROVE  IInv'
<1>. DEFINE k == keys[tx[q].key]
            b == [tx[q] EXCEPT !.pc = "commit", !.id = k.update_id, !.expires = k.expires_at]
<1>1. tx[q] \in Tx /\ WellFormed(tx[q]) /\ tx \in [Requests -> Tx] /\ tx[q].pc = "get"
  BY DEF IInv, TypeOK, KeyFound
<1>2. k \in KeyRow
  BY <1>1 DEF WellFormed, KeyFound, Bound, IInv, TypeOK
<1>3. b \in Tx
  BY <1>1, <1>2, Fields DEF KeyRow
<1>4. PICK t \in Tx : t = b
  BY <1>3
<1>5. /\ t.pc = "commit" /\ t.key = tx[q].key /\ t.pair = tx[q].pair /\ t.start = tx[q].start
      /\ t.row = tx[q].row /\ t.id = k.update_id /\ t.expires = k.expires_at
  BY <1>1, <1>4 DEF Tx
<1>6. tx[q].row = NULL
  BY <1>1 DEF WellFormed
<1>7. k = [pair |-> t.pair, update_id |-> t.id, expires_at |-> t.expires]
  BY <1>2, <1>5 DEF KeyFound, KeyRow
<1>8. WellFormed(t)
  BY <1>1, <1>2, <1>5, <1>6, <1>7 DEF WellFormed, KeyRow
<1>9. Becomes(q, t) /\ UNCHANGED <<sent, answers, refusals>>
  BY <1>1, <1>4 DEF Becomes, KeyFound
<1>10. \A r \in Requests \ {q} : HasLock(r) => HashText[tx[r].key] # HashText[t.key]
  BY <1>1, <1>5, OthersLocked DEF HasLock
<1>. QED
  BY <1>5, <1>6, <1>8, <1>9, <1>10, InsideStep

LEMMA KeyMissingStep ==
  ASSUME IInv, NEW q \in Requests, KeyMissing(q)
  PROVE  IInv'
<1>. DEFINE b == [tx[q] EXCEPT !.pc = "create"]
<1>1. tx[q] \in Tx /\ WellFormed(tx[q]) /\ tx \in [Requests -> Tx] /\ tx[q].pc = "get"
  BY DEF IInv, TypeOK, KeyMissing
<1>2. PICK t \in Tx : t = b
  BY <1>1, Fields, IdsAreNumbers
<1>3. t.pc = "create" /\ t.key = tx[q].key /\ t.pair = tx[q].pair /\ t.start = tx[q].start
      /\ t.row = tx[q].row
  BY <1>1, <1>2 DEF Tx
<1>4. KeyFree(t)
  <2>1. tx[q].key \in Keys /\ tx[q].start \in Nat
    BY <1>1 DEF WellFormed, Tx
  <2>2. keys[tx[q].key] # NULL => keys[tx[q].key].expires_at \in Nat
    BY <2>1 DEF IInv, TypeOK, KeyRow
  <2>. QED
    BY <1>3, <2>1, <2>2 DEF KeyFree, KeyMissing, Bound
<1>5. WellFormed(t)
  BY <1>1, <1>3, <1>4 DEF WellFormed
<1>6. Becomes(q, t) /\ UNCHANGED <<sent, answers, refusals>>
  BY <1>1, <1>2 DEF Becomes, KeyMissing
<1>7. \A r \in Requests \ {q} : HasLock(r) => HashText[tx[r].key] # HashText[t.key]
  BY <1>1, <1>3, OthersLocked DEF HasLock
<1>8. t.row = NULL
  BY <1>3, <1>5 DEF WellFormed
<1>. QED
  BY <1>5, <1>6, <1>7, <1>8, InsideStep

(* The row is taken only when nobody else has one of its pair.             *)
LEMMA CreateStep ==
  ASSUME IInv, NEW q \in Requests, CreateOrGetActive(q)
  PROVE  IInv'
<1>1. tx[q] \in Tx /\ WellFormed(tx[q]) /\ tx \in [Requests -> Tx] /\ tx[q].pc = "create"
  BY DEF IInv, TypeOK, CreateOrGetActive
<1>2. PICK u \in Ids :
        /\ ~RowHeld(u)
        /\ \/ u \in Active(tx[q].pair)
           \/ /\ updates[u].status = "ABSENT"
              /\ Active(tx[q].pair) = {}
              /\ ~Inserting(tx[q].pair)
        /\ tx' = [tx EXCEPT ![q].pc = "upsert", ![q].row = u, ![q].id = u]
        /\ UNCHANGED <<updates, keys, now, sent, answers, refusals>>
  BY DEF CreateOrGetActive, Returns
<1>. DEFINE b == [tx[q] EXCEPT !.pc = "upsert", !.row = u, !.id = u]
<1>3. PICK t \in Tx : t = b
  BY <1>1, Fields, IdsAreNumbers
<1>4. /\ t.pc = "upsert" /\ t.key = tx[q].key /\ t.pair = tx[q].pair /\ t.start = tx[q].start
      /\ t.row = u /\ t.id = u
  BY <1>1, <1>3 DEF Tx
<1>5. u # NULL
  BY IdsAreNumbers
<1>6. WellFormed(t)
  BY <1>1, <1>4, <1>5 DEF WellFormed, KeyFree
<1>7. Becomes(q, t) /\ UNCHANGED <<sent, answers, refusals>>
  BY <1>1, <1>2, <1>3 DEF Becomes
<1>8. \A r \in Requests \ {q} : HasLock(r) => HashText[tx[r].key] # HashText[t.key]
  BY <1>1, <1>4, OthersLocked DEF HasLock
<1>9. HoldsAlone(q, t)
  <2>1. t.pair \in Pairs
    BY <1>1, <1>4 DEF WellFormed
  <2>2. updates[u] \in [status : {"ABSENT", "ACTIVE", "FINISHED"}, pair : Pairs \cup {NULL}]
    BY DEF IInv, TypeOK
  <2>3. updates[u] \in {Absent, ActiveRow(t.pair)}
    BY <1>2, <1>4, <2>2 DEF Active, Absent, ActiveRow, IInv, Rows
  <2>4. \A v \in Active(t.pair) : v = u
    BY <1>2, <1>4, <2>1 DEF IInv, Rows
  <2>5. ASSUME NEW r \in Requests, tx[r].row # NULL
        PROVE  tx[r].pair # t.pair
    <3>1. HoldsAlone(r, tx[r]) /\ tx[r].row # u /\ tx[r].row \in Ids
      BY <1>2, <2>5 DEF IInv, Rows, RowHeld, TypeOK, Tx
    <3>2. SUFFICES ASSUME tx[r].pair = t.pair PROVE FALSE
      OBVIOUS
    <3>3. CASE u \in Active(t.pair)
      BY <3>1, <3>2, <3>3 DEF HoldsAlone
    <3>4. CASE Active(t.pair) = {} /\ ~Inserting(t.pair)
      <4>1. updates[tx[r].row].status # "ABSENT"
        BY <2>5, <3>2, <3>4 DEF Inserting
      <4>2. updates[tx[r].row] = ActiveRow(t.pair)
        BY <3>1, <3>2, <4>1 DEF HoldsAlone, Absent
      <4>. QED
        BY <3>1, <3>4, <4>2 DEF Active, ActiveRow
    <3>. QED
      BY <1>2, <1>4, <3>3, <3>4
  <2>. QED
    BY <1>2, <1>4, <2>3, <2>4, <2>5 DEF HoldsAlone, RowHeld
<1>. QED
  BY <1>4, <1>6, <1>7, <1>8, <1>9, InsideStep

LEMMA UpsertStep ==
  ASSUME IInv, NEW q \in Requests, UpsertIdempotencyKey(q)
  PROVE  IInv'
<1>. DEFINE b == [tx[q] EXCEPT !.pc = "commit", !.expires = now + TTL]
<1>1. tx[q] \in Tx /\ WellFormed(tx[q]) /\ tx \in [Requests -> Tx] /\ tx[q].pc = "upsert"
  BY DEF IInv, TypeOK, UpsertIdempotencyKey
<1>2. now + TTL \in Nat /\ now + TTL \in 0 .. (now + TTL)
  BY RefreshAssumption DEF IInv, TypeOK
<1>3. PICK t \in Tx : t = b
  BY <1>1, <1>2, Fields
<1>4. /\ t.pc = "commit" /\ t.key = tx[q].key /\ t.pair = tx[q].pair /\ t.start = tx[q].start
      /\ t.row = tx[q].row /\ t.id = tx[q].id /\ t.expires = now + TTL
  BY <1>1, <1>3 DEF Tx
<1>5. t.row # NULL
  BY <1>1, <1>4 DEF WellFormed
<1>6. WellFormed(t)
  BY <1>1, <1>2, <1>4, <1>5 DEF WellFormed, KeyFree, Tx
<1>7. Becomes(q, t) /\ UNCHANGED <<sent, answers, refusals>>
  BY <1>1, <1>3 DEF Becomes, UpsertIdempotencyKey, ExpiresAt
<1>8. \A r \in Requests \ {q} : HasLock(r) => HashText[tx[r].key] # HashText[t.key]
  BY <1>1, <1>4, OthersLocked DEF HasLock
<1>9. HoldsAlone(q, t)
  BY <1>4, <1>5 DEF HoldsAlone, IInv, Rows
<1>. QED
  BY <1>6, <1>7, <1>8, <1>9, InsideStep

LEMMA RollbackStep ==
  ASSUME IInv, NEW q \in Requests, Rollback(q)
  PROVE  IInv'
<1>1. PICK t \in Tx : t = NoTx
  BY NoTxFits
<1>2. WellFormed(t) /\ t.row = NULL /\ t.pc = "idle"
  BY <1>1, NoTxFits DEF WellFormed
<1>3. Becomes(q, t) /\ UNCHANGED <<sent, answers, refusals>>
  BY <1>1 DEF Becomes, Rollback
<1>. QED
  BY <1>2, <1>3, InsideStep

(* The key is bound to another pair, so somebody was answered for that.    *)
LEMMA KeyConflictStep ==
  ASSUME IInv, NEW q \in Requests, KeyConflict(q)
  PROVE  IInv'
<1>. DEFINE k == tx[q].key
            n == [key |-> k, pair |-> tx[q].pair, start |-> tx[q].start]
<1>1. tx[q] \in Tx /\ WellFormed(tx[q]) /\ tx[q].pc = "get"
  BY DEF IInv, TypeOK, KeyConflict
<1>2. /\ Becomes(q, NoTx) /\ UNCHANGED <<sent, answers>>
      /\ refusals' = refusals \cup {n}
      /\ keys[k] # NULL /\ keys[k].expires_at > tx[q].start /\ keys[k].pair # tx[q].pair
  BY NoTxFits DEF Becomes, KeyConflict, Bound
<1>3. k \in Keys /\ n \in Refusal
  BY <1>1 DEF WellFormed, Refusal, Tx
<1>4. tx' \in [Requests -> Tx]
  BY <1>2, NoTxFits, TxBecomes DEF Becomes
<1>5. UNCHANGED <<updates, keys, now, sent, answers>>
  BY <1>2 DEF Becomes
<1>6. TypeOK'
  BY <1>2, <1>3, <1>4, <1>5 DEF IInv, TypeOK
<1>7. RefusalsHaveCause'
  <2>1. \E a \in answers : a.key = n.key /\ a.pair # n.pair /\ a.expires > n.start
    BY <1>2, <1>3 DEF IInv, KeysNamed
  <2>. QED
    BY <1>2, <1>5, <2>1 DEF IInv, RefusalsHaveCause
<1>. QED
  BY <1>2, <1>5, <1>6, <1>7, EndStep, HistoryStep DEF IInv

(* The answer of a transaction that commits.                               *)
AnswerOf(t) == [key |-> t.key, pair |-> t.pair, id |-> t.id, at |-> now, expires |-> t.expires]

(* The key was found: nothing but the answer is new.                       *)
LEMMA CommitRepeat ==
  ASSUME IInv, NEW q \in Requests, Commit(q), tx[q].row = NULL
  PROVE  UNCHANGED <<updates, keys>> /\ IInv'
<1>. DEFINE t == tx[q]
            n == AnswerOf(t)
<1>1. t \in Tx /\ WellFormed(t) /\ t.pc = "commit"
  BY DEF IInv, TypeOK, Commit
<1>2. updates' = updates
  <2>1. updates' = [u \in Ids |-> IF u = t.row THEN [status |-> "ACTIVE", pair |-> t.pair]
                                               ELSE updates[u]]
    BY DEF Commit
  <2>2. \A u \in Ids : u # t.row
    BY IdsAreNumbers
  <2>3. updates = [u \in Ids |-> updates[u]]
    BY DEF IInv, TypeOK
  <2>. QED
    BY <2>1, <2>2, <2>3
<1>3. keys' = keys
  BY DEF Commit, IInv, TypeOK
<1>4. answers' = answers \cup {n} /\ Becomes(q, NoTx) /\ UNCHANGED <<now, sent, refusals>>
  BY <1>2, <1>3, NoTxFits DEF Commit, Becomes, AnswerOf
<1>5. keys[t.key] = [pair |-> t.pair, update_id |-> t.id, expires_at |-> t.expires]
      /\ t.key \in Keys /\ keys[t.key] # NULL
  <2>1. keys[t.key] = [pair |-> t.pair, update_id |-> t.id, expires_at |-> t.expires]
        /\ t.key \in Keys /\ t.pair \in Pairs
    BY <1>1 DEF WellFormed
  <2>2. keys[t.key] # NULL
    <3>1. t.id \in Ids /\ t.expires \in Nat
      BY <1>1 DEF WellFormed
    <3>. QED
      BY <2>1, <3>1, NoRowAssumption DEF KeyRow
  <2>. QED
    BY <2>1, <2>2
<1>6. /\ n \in Answer
      /\ n.key = t.key /\ n.pair = t.pair /\ n.id = t.id /\ n.at = now /\ n.expires = t.expires
  BY <1>1 DEF IInv, TypeOK, Answer, AnswerOf, WellFormed
<1>7. tx' \in [Requests -> Tx]
  BY <1>4, NoTxFits, TxBecomes DEF Becomes
<1>8. TypeOK'
  BY <1>2, <1>3, <1>4, <1>6, <1>7 DEF IInv, TypeOK
<1>9. KeysNamed'
  BY <1>2, <1>3, <1>4 DEF IInv, KeysNamed
<1>10. AnswersKept'
  BY <1>3, <1>4, <1>5, <1>6 DEF IInv, AnswersKept
<1>11. AnswersName'
  BY <1>2, <1>4, <1>5 DEF IInv, AnswersName, KeysNamed, AnswerOf
<1>12. SameKeySameUpdate'
  <2>1. \A a \in answers : a.key = t.key => (a.id = t.id /\ a.pair = t.pair) \/ a.expires <= now
    <3>. SUFFICES ASSUME NEW a \in answers, a.key = t.key, ~(a.expires <= now)
                  PROVE  a.id = t.id /\ a.pair = t.pair
      OBVIOUS
    <3>1. keys[t.key] = [pair |-> a.pair, update_id |-> a.id, expires_at |-> a.expires]
      BY DEF IInv, AnswersKept
    <3>. QED
      BY <1>5, <3>1
  <2>. QED
    BY <1>4, <2>1, <1>6 DEF IInv, SameKeySameUpdate, TypeOK, Answer, AnswerOf
<1>13. RefusalsHaveCause'
  BY <1>4 DEF IInv, RefusalsHaveCause
<1>. QED
  BY <1>2, <1>3, <1>4, <1>8, <1>9, <1>10, <1>11, <1>12, <1>13, EndStep DEF IInv

(* The key is bound: by its lock and its row nobody else is in the way.    *)
LEMMA CommitBind ==
  ASSUME IInv, NEW q \in Requests, Commit(q), tx[q].row # NULL
  PROVE  IInv'
<1>. DEFINE t == tx[q]
            n == AnswerOf(t)
            k == [pair |-> t.pair, update_id |-> t.id, expires_at |-> t.expires]
<1>1. /\ t \in Tx /\ t.pc = "commit" /\ t.key \in Keys /\ t.pair \in Pairs /\ t.start <= now
      /\ t.row \in Ids /\ t.id = t.row /\ t.expires \in Nat
      /\ KeyFree(t) /\ HoldsAlone(q, t)
  <2>1. t \in Tx /\ t.pc = "commit" /\ WellFormed(t) /\ HoldsAlone(q, t)
    BY DEF IInv, TypeOK, Commit, Rows
  <2>. QED
    BY <2>1 DEF WellFormed
<1>2. updates' = [u \in Ids |-> IF u = t.row THEN ActiveRow(t.pair) ELSE updates[u]]
  BY DEF Commit, ActiveRow
<1>3. keys' = [j \in Keys |-> IF j = t.key THEN k ELSE keys[j]]
  BY DEF Commit
<1>4. /\ answers' = answers \cup {n}
      /\ tx' = [tx EXCEPT ![q] = NoTx]
      /\ UNCHANGED <<now, sent, refusals>>
  BY DEF Commit, AnswerOf
<1>5. /\ n \in Answer
      /\ n.key = t.key /\ n.pair = t.pair /\ n.id = t.id /\ n.at = now /\ n.expires = t.expires
  BY <1>1 DEF IInv, TypeOK, Answer, AnswerOf
<1>6. k \in KeyRow /\ k # NULL
      /\ k.pair = t.pair /\ k.update_id = t.row /\ k.expires_at = t.expires
  BY <1>1, NoRowAssumption DEF KeyRow
<1>7. /\ tx' \in [Requests -> Tx]
      /\ \A r \in Requests : tx'[r] = IF r = q THEN NoTx ELSE tx[r]
  BY <1>4, NoTxFits, TxBecomes
<1>8. TypeOK'
  <2>1. updates' \in [Ids -> [status : {"ABSENT", "ACTIVE", "FINISHED"}, pair : Pairs \cup {NULL}]]
    BY <1>1, <1>2 DEF ActiveRow, IInv, TypeOK
  <2>2. keys' \in [Keys -> KeyRow \cup {NULL}]
    BY <1>3, <1>6 DEF IInv, TypeOK
  <2>3. answers' \subseteq Answer
    BY <1>4, <1>5 DEF IInv, TypeOK
  <2>. QED
    BY <1>4, <1>7, <2>1, <2>2, <2>3 DEF IInv, TypeOK
<1>9. LocksExclusive'
  BY <1>7, NoTxFits DEF LocksExclusive, HasLock, IInv
<1>10. ASSUME NEW r \in Requests
       PROVE  WellFormed(tx[r])'
  <2>1. CASE r = q
    BY <1>7, <2>1, NoTxFits DEF WellFormed
  <2>2. CASE r # q
    <3>1. tx'[r] = tx[r] /\ WellFormed(tx[r]) /\ tx[r] \in Tx
      BY <1>7, <2>2 DEF IInv, TypeOK
    <3>2. CASE HasLock(r)
      <4>1. tx[r].key \in Keys /\ tx[r].key # t.key
        BY <1>1, <2>2, <3>1, <3>2, OthersLocked DEF HasLock, WellFormed
      <4>2. keys'[tx[r].key] = keys[tx[r].key]
        BY <1>3, <4>1
      <4>. QED
        BY <1>4, <3>1, <4>2 DEF WellFormed, KeyFree
    <3>3. CASE ~HasLock(r)
      BY <1>4, <3>1, <3>3 DEF WellFormed, HasLock
    <3>. QED
      BY <3>2, <3>3
  <2>. QED
    BY <2>1, <2>2
<1>11. \A u \in Ids : updates[u].status # "ABSENT" => updates'[u] = updates[u]
  BY <1>1, <1>2 DEF HoldsAlone, Absent
<1>12. \A p \in Pairs : \A u \in Active(p)' : IF p = t.pair THEN u = t.row ELSE u \in Active(p)
  BY <1>1, <1>2 DEF HoldsAlone, Active, ActiveRow
<1>13. Rows'
  <2>1. \A u \in Ids : updates'[u].status = "ABSENT" => updates'[u] = Absent
    BY <1>2 DEF IInv, Rows, ActiveRow
  <2>2. \A p \in Pairs : \A u, v \in Active(p)' : u = v
    BY <1>12 DEF IInv, Rows
  <2>3. ASSUME NEW r \in Requests, tx'[r].row # NULL
        PROVE  HoldsAlone(r, tx[r])'
    <3>1. r # q /\ tx'[r] = tx[r] /\ tx[r] \in Tx /\ HoldsAlone(r, tx[r])
      BY <1>7, <2>3, NoTxFits DEF IInv, Rows, TypeOK
    <3>2. tx[r].row \in Ids /\ tx[r].pair \in Pairs
      BY <1>7, <2>3, <3>1 DEF Tx, IInv, WellFormed
    <3>3. tx[r].row # t.row /\ tx[r].pair # t.pair
      BY <1>1, <1>7, <2>3, <3>1 DEF HoldsAlone
    <3>4. updates'[tx[r].row] = updates[tx[r].row]
      BY <1>2, <3>2, <3>3
    <3>5. \A u \in Active(tx[r].pair)' : u \in Active(tx[r].pair)
      BY <1>12, <3>1, <3>2, <3>3
    <3>6. \A x \in Requests \ {r} :
            tx'[x].row # tx[r].row /\ (tx'[x].row # NULL => tx'[x].pair # tx[r].pair)
      BY <1>7, <2>3, <3>1, NoTxFits DEF HoldsAlone
    <3>. QED
      BY <3>1, <3>4, <3>5, <3>6 DEF HoldsAlone
  <2>. QED
    BY <2>1, <2>2, <2>3 DEF Rows
<1>14. KeysNamed'
  <2>. SUFFICES ASSUME NEW j \in Keys, keys'[j] # NULL
                PROVE  /\ updates'[keys'[j].update_id].status # "ABSENT"
                       /\ updates'[keys'[j].update_id].pair = keys'[j].pair
                       /\ \E a \in answers' : /\ a.key = j /\ a.pair = keys'[j].pair
                                              /\ a.expires = keys'[j].expires_at
    BY DEF KeysNamed
  <2>1. CASE j = t.key
    BY <1>1, <1>2, <1>3, <1>4, <1>5, <1>6, <2>1 DEF ActiveRow
  <2>2. CASE j # t.key
    <3>1. keys'[j] = keys[j] /\ keys[j].update_id \in Ids
      BY <1>3, <2>2 DEF IInv, TypeOK, KeyRow
    <3>. QED
      BY <1>4, <1>11, <3>1 DEF IInv, KeysNamed
  <2>. QED
    BY <2>1, <2>2
<1>15. \A a \in answers : a \in Answer /\ (a.key = t.key => a.expires <= now)
  <2>. SUFFICES ASSUME NEW a \in answers, a.key = t.key, ~(a.expires <= now)
                PROVE  FALSE
    BY DEF IInv, TypeOK
  <2>1. keys[t.key] = [pair |-> a.pair, update_id |-> a.id, expires_at |-> a.expires]
        /\ keys[t.key] # NULL /\ a.expires \in Nat
    BY DEF IInv, AnswersKept, TypeOK, Answer
  <2>2. a.expires <= t.start
    BY <1>1, <2>1 DEF KeyFree
  <2>. QED
    BY <1>1, <2>1, <2>2 DEF IInv, TypeOK, Tx
<1>16. AnswersKept'
  <2>. SUFFICES ASSUME NEW a \in answers'
                PROVE  /\ keys'[a.key] # NULL
                       /\ \/ keys'[a.key] = [pair |-> a.pair, update_id |-> a.id,
                                             expires_at |-> a.expires]
                          \/ a.expires <= now
    BY <1>4 DEF AnswersKept
  <2>1. CASE a = n
    BY <1>1, <1>3, <1>5, <1>6, <2>1
  <2>2. CASE a \in answers
    <3>1. a.key \in Keys
      BY <1>15, <2>2 DEF Answer
    <3>. QED
      BY <1>3, <1>6, <1>15, <2>2, <3>1 DEF IInv, AnswersKept
  <2>. QED
    BY <1>4, <2>1, <2>2
<1>17. AnswersName'
  <2>1. updates'[n.id].status # "ABSENT" /\ updates'[n.id].pair = n.pair
    BY <1>1, <1>2, <1>5 DEF ActiveRow
  <2>2. \A a \in answers : a.id \in Ids
    BY <1>15 DEF Answer
  <2>. QED
    BY <1>4, <1>11, <2>1, <2>2 DEF IInv, AnswersName
<1>18. SameKeySameUpdate'
  BY <1>4, <1>5, <1>15 DEF IInv, SameKeySameUpdate
<1>19. RefusalsHaveCause'
  BY <1>4 DEF IInv, RefusalsHaveCause
<1>. QED
  BY <1>8, <1>9, <1>10, <1>13, <1>14, <1>16, <1>17, <1>18, <1>19 DEF IInv

(* A worker finishes only rows that no transaction holds.                  *)
LEMMA FinishStep ==
  ASSUME IInv, NEW u \in Ids, FinishUpdate(u)
  PROVE  IInv'
<1>1. /\ updates[u].status = "ACTIVE" /\ ~RowHeld(u)
      /\ updates' = [updates EXCEPT ![u].status = "FINISHED"]
      /\ UNCHANGED <<keys, tx, now, sent, answers, refusals>>
  BY DEF FinishUpdate
<1>2. /\ updates' \in [Ids -> [status : {"ABSENT", "ACTIVE", "FINISHED"}, pair : Pairs \cup {NULL}]]
      /\ \A v \in Ids : v # u => updates'[v] = updates[v]
      /\ updates'[u].status = "FINISHED" /\ updates'[u].pair = updates[u].pair
  BY <1>1 DEF IInv, TypeOK
<1>3. TypeOK'
  BY <1>1, <1>2 DEF IInv, TypeOK
<1>4. LocksExclusive'
  BY <1>1 DEF LocksExclusive, HasLock, IInv
<1>5. \A r \in Requests : WellFormed(tx[r])'
  BY <1>1 DEF IInv, WellFormed, KeyFree
<1>6. \A p : Active(p)' \subseteq Active(p)
  BY <1>2 DEF Active
<1>7. Rows'
  <2>1. \A v \in Ids : updates'[v].status = "ABSENT" => updates'[v] = Absent
    BY <1>2 DEF IInv, Rows
  <2>2. \A p \in Pairs : \A v, w \in Active(p)' : v = w
    BY <1>6 DEF IInv, Rows
  <2>3. ASSUME NEW r \in Requests, tx[r].row # NULL
        PROVE  HoldsAlone(r, tx[r])'
    <3>1. tx[r].row \in Ids /\ tx[r].row # u /\ HoldsAlone(r, tx[r])
      BY <1>1, <2>3 DEF IInv, TypeOK, Tx, Rows, RowHeld
    <3>2. updates'[tx[r].row] = updates[tx[r].row]
      BY <1>2, <3>1
    <3>. QED
      BY <1>1, <1>6, <3>1, <3>2 DEF HoldsAlone
  <2>. QED
    BY <1>1, <2>1, <2>2, <2>3 DEF Rows
<1>8. \A v \in Ids : /\ updates[v].status # "ABSENT" => updates'[v].status # "ABSENT"
                     /\ updates'[v].pair = updates[v].pair
  BY <1>1, <1>2
<1>9. KeysNamed' /\ AnswersName'
  BY <1>1, <1>8 DEF IInv, KeysNamed, AnswersName, TypeOK, KeyRow, Answer
<1>10. AnswersKept' /\ SameKeySameUpdate' /\ RefusalsHaveCause'
  BY <1>1 DEF IInv, AnswersKept, SameKeySameUpdate, RefusalsHaveCause
<1>. QED
  BY <1>3, <1>4, <1>5, <1>7, <1>9, <1>10 DEF IInv

(* Time passes: what has expired stays expired.                            *)
LEMMA TickStep ==
  ASSUME IInv, Tick
  PROVE  IInv'
<1>1. now \in Nat /\ now' = now + 1 /\ UNCHANGED <<updates, keys, tx, sent, answers, refusals>>
  BY DEF Tick, IInv, TypeOK
<1>2. TypeOK'
  BY <1>1 DEF IInv, TypeOK
<1>3. LocksExclusive' /\ Rows' /\ KeysNamed' /\ AnswersName' /\ SameKeySameUpdate' /\ RefusalsHaveCause'
  BY <1>1 DEF IInv, LocksExclusive, HasLock, Rows, HoldsAlone, Active, KeysNamed, AnswersName,
       SameKeySameUpdate, RefusalsHaveCause
<1>4. ASSUME NEW r \in Requests
      PROVE  WellFormed(tx[r])'
  <2>1. tx[r] \in Tx /\ WellFormed(tx[r])
    BY DEF IInv, TypeOK
  <2>. QED
    BY <1>1, <2>1, RefreshAssumption DEF WellFormed, KeyFree, Tx
<1>5. AnswersKept'
  <2>1. \A a \in answers : a.expires <= now => a.expires <= now + 1
    BY <1>1 DEF IInv, TypeOK, Answer
  <2>. QED
    BY <1>1, <2>1 DEF IInv, AnswersKept
<1>. QED
  BY <1>2, <1>3, <1>4, <1>5 DEF IInv

LEMMA Initially == Init => IInv
<1>. SUFFICES ASSUME Init PROVE IInv
  OBVIOUS
<1>1. \A q \in Requests : tx[q] = NoTx
  BY DEF Init
<1>2. TypeOK
  BY NoTxFits DEF Init, TypeOK
<1>3. \A q \in Requests : WellFormed(tx[q])
  BY <1>1, NoTxFits DEF WellFormed
<1>4. LocksExclusive
  BY <1>1, NoTxFits DEF LocksExclusive, HasLock
<1>5. Rows
  BY <1>1, NoTxFits DEF Init, Rows, Active, Absent
<1>6. KeysNamed /\ AnswersKept /\ AnswersName /\ SameKeySameUpdate /\ RefusalsHaveCause
  BY DEF Init, KeysNamed, AnswersKept, AnswersName, SameKeySameUpdate, RefusalsHaveCause
<1>. QED
  BY <1>2, <1>3, <1>4, <1>5, <1>6 DEF IInv

LEMMA NextStep ==
  ASSUME IInv, [Next]_vars
  PROVE  IInv'
<1>1. ASSUME NEW q \in Requests, Progress(q)
      PROVE  IInv'
  BY <1>1, LockStep, KeyFoundStep, KeyConflictStep, KeyMissingStep, CreateStep, UpsertStep,
     CommitRepeat, CommitBind DEF Progress
<1>2. CASE Next
  BY <1>1, <1>2, BeginStep, RollbackStep, FinishStep, TickStep DEF Next
<1>3. CASE UNCHANGED vars
  <2>1. UNCHANGED <<updates, keys, tx, now, sent, answers, refusals>>
    BY <1>3 DEF vars
  <2>2. TypeOK' /\ LocksExclusive' /\ Rows'
    BY <2>1 DEF IInv, TypeOK, LocksExclusive, HasLock, Rows, HoldsAlone, Active
  <2>3. \A q \in Requests : WellFormed(tx[q])'
    BY <2>1 DEF IInv, WellFormed, KeyFree
  <2>4. RefusalsHaveCause'
    BY <2>1 DEF IInv, RefusalsHaveCause
  <2>. QED
    BY <2>1, <2>2, <2>3, <2>4, HistoryStep DEF IInv
<1>. QED
  BY <1>2, <1>3

LEMMA Invariance == Spec => []IInv
BY Initially, NextStep, PTL DEF Spec

-----------------------------------------------------------------------------
(* The properties that the runs check.                                     *)

(* Every variable keeps its type, whatever requests interleave.            *)
THEOREM TypeCorrect == Spec => []TypeOK
<1>1. IInv => TypeOK
  BY DEF IInv
<1>. QED
  BY <1>1, Invariance, PTL

(* "Idempotency-Key makes retrying safe", for every number of requests,    *)
(* keys and pairs and every hash, colliding or not.                        *)
THEOREM RetryingIsSafe == Spec => []SameKeySameUpdate
<1>1. IInv => SameKeySameUpdate
  BY DEF IInv
<1>. QED
  BY <1>1, Invariance, PTL

(* A pair has one active update at most, the rows that open transactions   *)
(* are about to insert included.                                           *)
THEOREM OneActive == Spec => []OneActivePerPair
<1>1. IInv => OneActivePerPair
  <2>. SUFFICES ASSUME IInv, NEW p \in Pairs,
                       NEW u \in Active(p) \cup {tx[q].row : q \in {r \in Requests :
                                                   tx[r].row # NULL /\ tx[r].pair = p}},
                       NEW v \in Active(p) \cup {tx[q].row : q \in {r \in Requests :
                                                   tx[r].row # NULL /\ tx[r].pair = p}}
                PROVE  u = v
    BY DEF OneActivePerPair
  <2>1. \A q \in Requests : tx[q].row # NULL => HoldsAlone(q, tx[q])
    BY DEF IInv, Rows
  <2>2. ASSUME NEW q \in Requests, tx[q].row # NULL, tx[q].pair = p
        PROVE  /\ \A x \in Active(p) : x = tx[q].row
               /\ \A r \in Requests : tx[r].row # NULL /\ tx[r].pair = p => r = q
    BY <2>1, <2>2 DEF HoldsAlone
  <2>3. CASE u \in Active(p) /\ v \in Active(p)
    BY <2>3 DEF IInv, Rows
  <2>4. CASE u \notin Active(p)
    <3>1. PICK q \in Requests : tx[q].row # NULL /\ tx[q].pair = p /\ u = tx[q].row
      BY <2>4
    <3>. QED
      BY <2>2, <3>1
  <2>5. CASE v \notin Active(p)
    <3>1. PICK q \in Requests : tx[q].row # NULL /\ tx[q].pair = p /\ v = tx[q].row
      BY <2>5
    <3>. QED
      BY <2>2, <3>1
  <2>. QED
    BY <2>3, <2>4, <2>5
<1>. QED
  BY <1>1, Invariance, PTL

(* The update a client was told of exists and is for the pair it asked.    *)
THEOREM AnswersStayTrue == Spec => []AnswersName
<1>1. IInv => AnswersName
  BY DEF IInv
<1>. QED
  BY <1>1, Invariance, PTL

(* A 409 is never given to a request whose key was free for its pair.      *)
THEOREM RefusalsAreRight == Spec => []RefusalsHaveCause
<1>1. IInv => RefusalsHaveCause
  BY DEF IInv
<1>. QED
  BY <1>1, Invariance, PTL

(* A row that a commit changes is the one it inserts: its pair has none.   *)
LEMMA CommitAdvances ==
  ASSUME IInv, NEW q \in Requests, Commit(q), NEW u \in Ids, updates'[u] # updates[u]
  PROVE  /\ updates[u].status = "ABSENT" /\ updates'[u].status = "ACTIVE"
         /\ Active(updates'[u].pair) = {}
<1>. DEFINE t == tx[q]
<1>1. \A v \in Ids : updates'[v] = IF v = t.row THEN ActiveRow(t.pair) ELSE updates[v]
  BY DEF Commit, ActiveRow
<1>2. u = t.row /\ updates'[u] = ActiveRow(t.pair)
  BY <1>1
<1>3. updates[u] \in {Absent, ActiveRow(t.pair)} /\ \A v \in Active(t.pair) : v = u
  BY <1>2, IdsAreNumbers DEF IInv, Rows, HoldsAlone
<1>4. updates[u] = Absent
  BY <1>2, <1>3
<1>5. updates[u].status = "ABSENT" /\ updates'[u].status = "ACTIVE" /\ updates'[u].pair = t.pair
  BY <1>2, <1>4 DEF Absent, ActiveRow
<1>6. Active(t.pair) = {}
  BY <1>3, <1>5 DEF Active
<1>. QED
  BY <1>5, <1>6

(* Requests never take back, overwrite or revive an update, and a new one  *)
(* is made active only when its pair has no other: InsertQuoteUpdate of    *)
(* QuoteUpdates, where the transaction is one step, is all a worker sees.  *)
THEOREM Advances == Spec => UpdatesAdvance
<1>. DEFINE Advance ==
              \A u \in Ids : updates'[u] # updates[u] =>
                \/ /\ updates[u].status = "ABSENT" /\ updates'[u].status = "ACTIVE"
                   /\ Active(updates'[u].pair) = {}
                \/ /\ updates[u].status = "ACTIVE" /\ updates'[u].status = "FINISHED"
                   /\ updates'[u].pair = updates[u].pair
<1>1. ASSUME IInv, Next
      PROVE  Advance
  <2>1. ASSUME NEW q \in Requests, Commit(q)
        PROVE  Advance
    BY <1>1, <2>1, CommitAdvances
  <2>2. ASSUME NEW u \in Ids, FinishUpdate(u)
        PROVE  Advance
    <3>1. /\ updates[u].status = "ACTIVE"
          /\ updates' = [updates EXCEPT ![u].status = "FINISHED"]
      BY <2>2 DEF FinishUpdate
    <3>2. /\ updates'[u].status = "FINISHED" /\ updates'[u].pair = updates[u].pair
          /\ \A v \in Ids : v # u => updates'[v] = updates[v]
      BY <1>1, <3>1 DEF IInv, TypeOK
    <3>. QED
      BY <3>1, <3>2
  <2>3. CASE UNCHANGED updates
    BY <2>3
  <2>. QED
    BY <1>1, <2>1, <2>2, <2>3
       DEF Next, Progress, Begin, LockIdempotencyKey, KeyFound, KeyConflict, KeyMissing,
           CreateOrGetActive, UpsertIdempotencyKey, Rollback, Tick
<1>2. IInv /\ [Next]_vars => [Advance]_vars
  BY <1>1
<1>. QED
  BY <1>2, Invariance, PTL DEF Spec, UpdatesAdvance

-----------------------------------------------------------------------------
(* Deadlock.                                                               *)

(* A request that is still in progress has not inserted its row yet, and   *)
(* a row that is not committed is held by the request that inserts it.     *)
OwnIds ==
  /\ \A q \in Requests : tx[q].pc # "idle" => q <= sent
  /\ \A q \in Requests :
       tx[q].row # NULL /\ updates[tx[q].row].status = "ABSENT" => tx[q].row = q
  /\ \A u \in Ids : updates[u].status # "ABSENT" => u <= sent /\ tx[u].pc = "idle"

(* Steps that begin nothing, take no row and commit nothing.               *)
LEMMA OwnIdsKept ==
  ASSUME OwnIds, UNCHANGED <<updates, sent>>,
         \A r \in Requests : /\ tx'[r].row \in {tx[r].row, NULL}
                             /\ tx'[r].pc # "idle" => tx[r].pc # "idle"
  PROVE  OwnIds'
BY DEF OwnIds, Ids

LEMMA OwnIdsBegin ==
  ASSUME IInv, OwnIds, NEW q \in Requests, NEW k \in Keys, NEW p \in Pairs, Begin(q, k, p)
  PROVE  OwnIds'
<1>. DEFINE b == [NoTx EXCEPT !.pc = "lock", !.key = k, !.pair = p, !.start = now]
<1>1. b.row = NULL /\ b.pc = "lock"
  BY DEF NoTx
<1>2. q = sent + 1 /\ sent' = q /\ updates' = updates /\ sent \in Nat
  BY DEF Begin, IInv, TypeOK
<1>3. \A r \in Requests : tx'[r] = IF r = q THEN b ELSE tx[r]
  BY DEF Begin, IInv, TypeOK
<1>4. \A u \in Ids : updates[u].status # "ABSENT" => u # q
  BY <1>2 DEF OwnIds, Ids, Requests
<1>. HIDE DEF b
<1>. QED
  BY <1>1, <1>2, <1>3, <1>4 DEF OwnIds, Ids, Requests

LEMMA OwnIdsCreate ==
  ASSUME IInv, OwnIds, NEW q \in Requests, CreateOrGetActive(q)
  PROVE  OwnIds'
<1>1. PICK u \in Ids :
        /\ Returns(q, u)
        /\ tx' = [tx EXCEPT ![q].pc = "upsert", ![q].row = u, ![q].id = u]
        /\ UNCHANGED <<updates, keys, now, sent, answers, refusals>>
  BY DEF CreateOrGetActive
<1>2. tx[q].pc = "create" /\ tx[q] \in Tx /\ tx \in [Requests -> Tx]
  BY DEF CreateOrGetActive, IInv, TypeOK
<1>3. /\ tx'[q].row = u /\ tx'[q].pc = "upsert"
      /\ \A r \in Requests \ {q} : tx'[r] = tx[r]
  BY <1>1, <1>2 DEF Tx
<1>4. updates[u].status = "ABSENT" => u = q
  BY <1>1 DEF Returns, Active
<1>5. q <= sent /\ updates[q].status = "ABSENT"
  BY <1>2 DEF OwnIds, Ids
<1>. QED
  BY <1>1, <1>3, <1>4, <1>5 DEF OwnIds, Ids

LEMMA OwnIdsCommit ==
  ASSUME IInv, OwnIds, NEW q \in Requests, Commit(q)
  PROVE  OwnIds'
<1>1. tx[q].pc = "commit" /\ q <= sent /\ sent' = sent
  BY DEF Commit, OwnIds
<1>2. \A r \in Requests : tx'[r] = IF r = q THEN NoTx ELSE tx[r]
  <2>1. tx' = [tx EXCEPT ![q] = NoTx]
    BY DEF Commit
  <2>. QED
    BY <2>1, NoTxFits, TxBecomes
<1>3. \A u \in Ids : updates'[u] = IF u = tx[q].row THEN [status |-> "ACTIVE", pair |-> tx[q].pair]
                                                    ELSE updates[u]
  BY DEF Commit
<1>4. \A u \in Ids : u # tx[q].row => updates'[u] = updates[u]
  BY <1>3
<1>5. tx[q].row \in Ids => updates'[tx[q].row].status = "ACTIVE"
  BY <1>3
<1>6. tx[q].row \in Ids /\ updates[tx[q].row].status = "ABSENT" => tx[q].row = q
  BY IdsAreNumbers DEF OwnIds
<1>7. \A r \in Requests : tx[r].row \in Ids \cup {NULL}
  BY DEF IInv, TypeOK, Tx
<1>8. \A r \in Requests : tx'[r].pc # "idle" => r # q /\ tx'[r] = tx[r]
  BY <1>2, NoTxFits
<1>9. \A r \in Requests : tx'[r].row # NULL => r # q /\ tx'[r] = tx[r]
  BY <1>2, NoTxFits
<1>10. \A r \in Requests : r # q /\ tx[r].row # NULL => tx[r].row # tx[q].row
  BY DEF IInv, Rows, HoldsAlone
<1>11. ASSUME NEW r \in Requests, tx'[r].row # NULL, updates'[tx'[r].row].status = "ABSENT"
       PROVE  tx'[r].row = r
  BY <1>4, <1>7, <1>9, <1>10, <1>11 DEF OwnIds
<1>12. ASSUME NEW u \in Ids, updates'[u].status # "ABSENT"
       PROVE  u <= sent' /\ tx'[u].pc = "idle"
  <2>1. CASE updates[u].status # "ABSENT"
    BY <1>1, <1>8, <2>1 DEF OwnIds, Ids
  <2>2. CASE updates[u].status = "ABSENT"
    <3>1. u = q
      BY <1>4, <1>6, <1>12, <2>2
    <3>. QED
      BY <1>1, <1>2, <3>1, NoTxFits
  <2>. QED
    BY <2>1, <2>2
<1>. QED
  BY <1>1, <1>8, <1>11, <1>12 DEF OwnIds

LEMMA OwnIdsStep == IInv /\ OwnIds /\ [Next]_vars => OwnIds'
<1>. SUFFICES ASSUME IInv, OwnIds, [Next]_vars PROVE OwnIds'
  OBVIOUS
<1>1. tx \in [Requests -> Tx] /\ NoTx.row = NULL /\ NoTx.pc = "idle"
  BY NoTxFits DEF IInv, TypeOK
<1>2. ASSUME NEW q \in Requests, LockIdempotencyKey(q) \/ KeyMissing(q)
      PROVE  OwnIds'
  <2>1. UNCHANGED <<updates, sent>> /\ tx[q].pc # "idle"
    BY <1>2 DEF LockIdempotencyKey, KeyMissing
  <2>2. \A r \in Requests : tx'[r].row = tx[r].row /\ (r # q => tx'[r] = tx[r])
    BY <1>1, <1>2 DEF LockIdempotencyKey, KeyMissing, Tx
  <2>. QED
    BY <2>1, <2>2, OwnIdsKept
<1>3. ASSUME NEW q \in Requests, KeyFound(q) \/ UpsertIdempotencyKey(q)
      PROVE  OwnIds'
  <2>1. UNCHANGED <<updates, sent>> /\ tx[q].pc # "idle"
    BY <1>3 DEF KeyFound, UpsertIdempotencyKey
  <2>2. \A r \in Requests : tx'[r].row = tx[r].row /\ (r # q => tx'[r] = tx[r])
    BY <1>1, <1>3 DEF KeyFound, UpsertIdempotencyKey, Tx
  <2>. QED
    BY <2>1, <2>2, OwnIdsKept
<1>4. ASSUME NEW q \in Requests, KeyConflict(q) \/ Rollback(q)
      PROVE  OwnIds'
  <2>1. UNCHANGED <<updates, sent>> /\ tx' = [tx EXCEPT ![q] = NoTx]
    BY <1>4 DEF KeyConflict, Rollback
  <2>2. \A r \in Requests : tx'[r] = IF r = q THEN NoTx ELSE tx[r]
    BY <2>1, NoTxFits, TxBecomes
  <2>. QED
    BY <1>1, <2>1, <2>2, OwnIdsKept
<1>5. ASSUME NEW u \in Ids, FinishUpdate(u)
      PROVE  OwnIds'
  <2>1. UNCHANGED <<tx, sent>> /\ updates[u].status = "ACTIVE"
    BY <1>5 DEF FinishUpdate
  <2>2. \A v \in Ids : updates'[v].status = "ABSENT" <=> updates[v].status = "ABSENT"
    BY <1>5, <2>1 DEF FinishUpdate, IInv, TypeOK
  <2>3. \A r \in Requests : tx[r].row \in Ids \cup {NULL}
    BY <1>1 DEF Tx
  <2>. QED
    BY <2>1, <2>2, <2>3 DEF OwnIds
<1>6. CASE Tick
  BY <1>6 DEF Tick, OwnIds
<1>7. CASE UNCHANGED vars
  BY <1>7 DEF vars, OwnIds
<1>. QED
  BY <1>2, <1>3, <1>4, <1>5, <1>6, <1>7, OwnIdsBegin, OwnIdsCreate, OwnIdsCommit
     DEF Next, Progress

LEMMA OwnIdsInvariance == Spec => []OwnIds
<1>1. Init => OwnIds
  <2>. SUFFICES ASSUME Init PROVE OwnIds
    OBVIOUS
  <2>1. /\ \A q \in Requests : tx[q].row = NULL /\ tx[q].pc = "idle"
        /\ \A u \in Ids : updates[u].status = "ABSENT"
    BY NoTxFits DEF Init
  <2>. QED
    BY <2>1 DEF OwnIds
<1>. QED
  BY <1>1, OwnIdsStep, Invariance, PTL DEF Spec

(* A request that waits for a row waits for one that holds a row of its    *)
(* pair: at most the two statements that are left to it are in the way.    *)
LEMMA RowHolder ==
  ASSUME IInv, OwnIds, NEW q \in Requests, tx[q].pc = "create", Waits(q)
  PROVE  \E r \in Requests : WaitsFor(q, r) /\ tx[r].pc \in {"upsert", "commit"}
<1>1. \A u \in Ids : ~Returns(q, u)
  BY DEF Waits
<1>2. \A r \in Requests : tx[r].row # NULL => tx[r].pc \in {"upsert", "commit"}
  BY DEF IInv, WellFormed
<1>3. \A r \in Requests : tx[r].row # NULL => updates[tx[r].row] \in {Absent, ActiveRow(tx[r].pair)}
  BY DEF IInv, Rows, HoldsAlone
<1>4. SUFFICES \E r \in Requests : tx[r].row # NULL /\ tx[r].pair = tx[q].pair
  BY <1>2, <1>4 DEF WaitsFor
<1>5. CASE Active(tx[q].pair) # {}
  <2>1. PICK u \in Ids : updates[u].status = "ACTIVE" /\ updates[u].pair = tx[q].pair
    BY <1>5 DEF Active
  <2>2. RowHeld(u)
    BY <1>1, <2>1 DEF Returns, Active
  <2>3. PICK r \in Requests : tx[r].row = u
    BY <2>2 DEF RowHeld
  <2>4. tx[r].row # NULL
    BY <2>3, IdsAreNumbers
  <2>5. updates[u] = ActiveRow(tx[r].pair)
    BY <1>3, <2>1, <2>3, <2>4 DEF Absent
  <2>. QED
    BY <2>1, <2>4, <2>5 DEF ActiveRow
<1>6. CASE Inserting(tx[q].pair)
  BY <1>6 DEF Inserting
<1>7. CASE Active(tx[q].pair) = {} /\ ~Inserting(tx[q].pair)
  <2>1. q \in Ids /\ updates[q].status = "ABSENT"
    BY DEF OwnIds, Ids
  <2>2. RowHeld(q)
    BY <1>1, <1>7, <2>1 DEF Returns
  <2>3. PICK r \in Requests : tx[r].row = q
    BY <2>2 DEF RowHeld
  <2>4. r = q
    BY <2>1, <2>3, IdsAreNumbers DEF OwnIds
  <2>. QED
    BY <2>1, <2>3, <2>4, IdsAreNumbers
<1>. QED
  BY <1>5, <1>6, <1>7

(* No requests wait for each other in a circle, nor for nobody, for every  *)
(* number of requests and every hash: the advisory lock is taken before    *)
(* the row, and what a request that holds a row does next never waits.     *)
THEOREM DeadlockFree == Spec => []NoDeadlock
<1>1. IInv /\ OwnIds => NoDeadlock
  <2>. SUFFICES ASSUME IInv, OwnIds,
                       NEW S \in (SUBSET {q \in Requests : tx[q].pc # "idle"}) \ {{}}
                PROVE  \E q \in S : ~Waits(q) \/ \E r \in Requests \ S : WaitsFor(q, r)
    BY DEF NoDeadlock
  <2>. SUFFICES ASSUME \A q \in S : Waits(q)
                PROVE  \E q \in S : \E r \in Requests \ S : WaitsFor(q, r)
    BY Zenon
  <2>. S \subseteq Requests /\ S # {}
    OBVIOUS
  <2>1. CASE \E q \in S : tx[q].pc = "create"
    <3>1. PICK q \in S : tx[q].pc = "create"
      BY <2>1
    <3>2. PICK r \in Requests : WaitsFor(q, r) /\ tx[r].pc \in {"upsert", "commit"}
      BY <3>1, RowHolder
    <3>3. ~Waits(r)
      BY <3>2 DEF Waits
    <3>. QED
      BY <3>2, <3>3
  <2>2. CASE \A q \in S : tx[q].pc # "create"
    <3>1. PICK q \in S : tx[q].pc = "lock" /\ LockHeld(q)
      BY <2>2 DEF Waits
    <3>2. PICK r \in Requests : /\ tx[r].pc \in {"get", "create", "upsert", "commit"}
                                /\ HashText[tx[r].key] = HashText[tx[q].key]
      BY <3>1 DEF LockHeld
    <3>3. WaitsFor(q, r)
      BY <3>1, <3>2 DEF WaitsFor
    <3>4. r \notin S
      BY <2>2, <3>2 DEF Waits
    <3>. QED
      BY <3>3, <3>4
  <2>. QED
    BY <2>1, <2>2
<1>. QED
  BY <1>1, Invariance, OwnIdsInvariance, PTL

(* How many statements a request has left.                                 *)
Left(t) ==
  CASE t.pc = "idle"   -> 0
    [] t.pc = "commit" -> 1
    [] t.pc = "upsert" -> 2
    [] t.pc = "create" -> 3
    [] t.pc = "get"    -> 4
    [] t.pc = "lock"   -> 5

LEMMA LeftAt ==
  ASSUME NEW t
  PROVE  /\ t.pc = "idle" => Left(t) = 0
         /\ t.pc = "commit" => Left(t) = 1
         /\ t.pc = "upsert" => Left(t) = 2
         /\ t.pc = "create" => Left(t) = 3
         /\ t.pc = "get" => Left(t) = 4
         /\ t.pc = "lock" => Left(t) = 5
BY DEF Left

LEMMA LeftChanges ==
  ASSUME IInv, NEW q \in Requests, NEW t, tx' = [tx EXCEPT ![q] = t], Left(t) < Left(tx[q])
  PROVE  \A r \in Requests : tx'[r] # tx[r] => Left(tx'[r]) < Left(tx[r])
BY DEF IInv, TypeOK

LEMMA OneStatementLess ==
  ASSUME IInv, NEW q \in Requests, Progress(q) \/ Rollback(q)
  PROVE  \E t : tx' = [tx EXCEPT ![q] = t] /\ Left(t) < Left(tx[q])
<1>1. tx \in [Requests -> Tx] /\ tx[q] \in Tx
  BY DEF IInv, TypeOK
<1>2. CASE LockIdempotencyKey(q)
  <2>. DEFINE t == [tx[q] EXCEPT !.pc = "get"]
  <2>1. tx' = [tx EXCEPT ![q] = t] /\ t.pc = "get" /\ tx[q].pc = "lock"
    BY <1>1, <1>2 DEF LockIdempotencyKey, Tx
  <2>. HIDE DEF t
  <2>2. Left(t) < Left(tx[q])
    BY <2>1, LeftAt
  <2>. QED
    BY <2>1, <2>2, Zenon
<1>3. CASE KeyFound(q)
  <2>. DEFINE t == [tx[q] EXCEPT !.pc = "commit", !.id = keys[tx[q].key].update_id,
                                 !.expires = keys[tx[q].key].expires_at]
  <2>1. tx' = [tx EXCEPT ![q] = t] /\ t.pc = "commit" /\ tx[q].pc = "get"
    BY <1>1, <1>3 DEF KeyFound, Tx
  <2>. HIDE DEF t
  <2>2. Left(t) < Left(tx[q])
    BY <2>1, LeftAt
  <2>. QED
    BY <2>1, <2>2, Zenon
<1>4. CASE KeyMissing(q)
  <2>. DEFINE t == [tx[q] EXCEPT !.pc = "create"]
  <2>1. tx' = [tx EXCEPT ![q] = t] /\ t.pc = "create" /\ tx[q].pc = "get"
    BY <1>1, <1>4 DEF KeyMissing, Tx
  <2>. HIDE DEF t
  <2>2. Left(t) < Left(tx[q])
    BY <2>1, LeftAt
  <2>. QED
    BY <2>1, <2>2, Zenon
<1>5. CASE CreateOrGetActive(q)
  <2>1. PICK u \in Ids : tx' = [tx EXCEPT ![q].pc = "upsert", ![q].row = u, ![q].id = u]
    BY <1>5 DEF CreateOrGetActive
  <2>. DEFINE t == [tx[q] EXCEPT !.pc = "upsert", !.row = u, !.id = u]
  <2>2. tx' = [tx EXCEPT ![q] = t] /\ t.pc = "upsert" /\ tx[q].pc = "create"
    BY <1>1, <1>5, <2>1 DEF CreateOrGetActive, Tx
  <2>. HIDE DEF t
  <2>3. Left(t) < Left(tx[q])
    BY <2>2, LeftAt
  <2>. QED
    BY <2>2, <2>3, Zenon
<1>6. CASE UpsertIdempotencyKey(q)
  <2>. DEFINE t == [tx[q] EXCEPT !.pc = "commit", !.expires = ExpiresAt]
  <2>1. tx' = [tx EXCEPT ![q] = t] /\ t.pc = "commit" /\ tx[q].pc = "upsert"
    BY <1>1, <1>6 DEF UpsertIdempotencyKey, Tx
  <2>. HIDE DEF t
  <2>2. Left(t) < Left(tx[q])
    BY <2>1, LeftAt
  <2>. QED
    BY <2>1, <2>2, Zenon
<1>7. CASE KeyConflict(q) \/ Commit(q) \/ Rollback(q)
  <2>1. tx' = [tx EXCEPT ![q] = NoTx] /\ tx[q].pc # "idle"
    BY <1>7 DEF KeyConflict, Commit, Rollback
  <2>2. tx[q].pc \in {"lock", "get", "create", "upsert", "commit"}
    BY <1>1, <2>1 DEF Tx
  <2>3. Left(NoTx) = 0 /\ Left(tx[q]) > 0
    BY <2>2, NoTxFits, LeftAt
  <2>. QED
    BY <2>1, <2>3
<1>. QED
  BY <1>2, <1>3, <1>4, <1>5, <1>6, <1>7 DEF Progress

(* No request goes back to an earlier statement, and none that has ended   *)
(* begins again: with DeadlockFree, a finite number of requests always has *)
(* an end in reach, whatever the hash and whatever they wait for.          *)
THEOREM RequestsOnlyAdvance ==
  Spec => [][\A q \in Requests : tx'[q] # tx[q] =>
               (sent < q /\ sent' = q) \/ Left(tx'[q]) < Left(tx[q])]_vars
<1>. DEFINE Forward == \A q \in Requests : tx'[q] # tx[q] =>
                         (sent < q /\ sent' = q) \/ Left(tx'[q]) < Left(tx[q])
<1>1. ASSUME IInv, Next
      PROVE  Forward
  <2>1. ASSUME NEW q \in Requests, Progress(q) \/ Rollback(q)
        PROVE  Forward
    <3>1. PICK t : tx' = [tx EXCEPT ![q] = t] /\ Left(t) < Left(tx[q])
      BY <1>1, <2>1, OneStatementLess
    <3>. QED
      BY <1>1, <3>1, LeftChanges
  <2>2. ASSUME NEW q \in Requests, NEW k \in Keys, NEW p \in Pairs, Begin(q, k, p)
        PROVE  Forward
    <3>1. sent < q /\ sent' = q
      BY <1>1, <2>2 DEF Begin, IInv, TypeOK
    <3>2. \A r \in Requests : r # q => tx'[r] = tx[r]
      BY <1>1, <2>2 DEF Begin, IInv, TypeOK
    <3>. QED
      BY <3>1, <3>2
  <2>3. CASE UNCHANGED tx
    BY <2>3
  <2>. QED
    BY <1>1, <2>1, <2>2, <2>3 DEF Next, FinishUpdate, Tick
<1>2. IInv /\ [Next]_vars => [Forward]_vars
  BY <1>1
<1>. QED
  BY <1>2, Invariance, PTL DEF Spec

-----------------------------------------------------------------------------
(* The refinement.                                                         *)

(* A transaction takes effect where it commits: it repeats the answer of   *)
(* its key, or binds the key.                                              *)
LEMMA CommitIsAtomic ==
  ASSUME IInv, NEW q \in Requests, Commit(q)
  PROVE  Atomic!INext
<1>. DEFINE t == tx[q]
            k == [pair |-> t.pair, update_id |-> t.id, expires_at |-> t.expires]
<1>1. /\ t \in Tx /\ t.key \in Keys /\ t.pair \in Pairs /\ t.start <= now
      /\ t.pc = "commit" /\ WellFormed(t)
  <2>1. t \in Tx /\ t.pc = "commit" /\ WellFormed(t)
    BY DEF IInv, TypeOK, Commit
  <2>. QED
    BY <2>1 DEF WellFormed
<1>2. /\ answers' = answers \cup {AnswerOf(t)}
      /\ UNCHANGED <<now, refusals>>
  BY DEF Commit, AnswerOf
<1>3. ASSUME keys'[t.key] = k
      PROVE  Atomic!Answered(t.key)
  <2>1. k.pair = t.pair /\ k.update_id = t.id /\ k.expires_at = t.expires
    OBVIOUS
  <2>. QED
    BY <1>2, <1>3, <2>1 DEF Atomic!Answered, AnswerOf
<1>4. CASE t.row = NULL
  <2>1. UNCHANGED <<updates, keys>>
    BY <1>4, CommitRepeat
  <2>2. keys[t.key] = k /\ k.pair = t.pair
    BY <1>1, <1>4 DEF WellFormed
  <2>3. k # NULL
    BY <1>1, NoRowAssumption DEF WellFormed, KeyRow
  <2>4. Atomic!Repeat(t.key, t.pair)
    BY <1>2, <1>3, <2>1, <2>2, <2>3 DEF Atomic!Repeat
  <2>. QED
    BY <1>1, <2>4 DEF Atomic!INext
<1>5. CASE t.row # NULL
  <2>1. /\ t.row \in Ids /\ t.id = t.row /\ t.expires \in 0 .. (now + TTL)
        /\ KeyFree(t) /\ HoldsAlone(q, t)
    BY <1>1, <1>5, RefreshAssumption DEF WellFormed, Tx, IInv, Rows, TypeOK
  <2>2. keys[t.key] # NULL => keys[t.key].expires_at <= now
    <3>1. keys[t.key] # NULL => keys[t.key].expires_at \in Nat
      BY <1>1 DEF IInv, TypeOK, KeyRow
    <3>. QED
      BY <1>1, <2>1, <3>1 DEF KeyFree, IInv, TypeOK, Tx
  <2>3. updates' = [updates EXCEPT ![t.row] = [status |-> "ACTIVE", pair |-> t.pair]]
    BY <2>1 DEF Commit, IInv, TypeOK
  <2>4. keys' = [keys EXCEPT ![t.key] = [pair |-> t.pair, update_id |-> t.row,
                                         expires_at |-> t.expires]]
    BY <1>1, <1>5, <2>1 DEF Commit, IInv, TypeOK
  <2>5. Atomic!Answered(t.key)
    BY <1>1, <1>3, <2>1, <2>4 DEF IInv, TypeOK
  <2>6. updates[t.row] \in {[status |-> "ACTIVE", pair |-> t.pair], [status |-> "ABSENT", pair |-> NULL]}
    BY <2>1 DEF HoldsAlone, Absent, ActiveRow
  <2>7. \A v \in Ids : updates[v].status = "ACTIVE" /\ updates[v].pair = t.pair => v = t.row
    BY <2>1 DEF HoldsAlone, Active
  <2>8. Atomic!Bind(t.key, t.pair, t.row, t.expires)
    BY <1>2, <2>2, <2>3, <2>4, <2>5, <2>6, <2>7 DEF Atomic!Bind
  <2>. QED
    BY <1>1, <2>1, <2>8 DEF Atomic!INext
<1>. QED
  BY <1>4, <1>5

(* ... or where it finds that its key was bound to another pair.           *)
LEMMA ConflictIsAtomic ==
  ASSUME IInv, NEW q \in Requests, KeyConflict(q)
  PROVE  Atomic!INext
<1>. DEFINE t == tx[q]
<1>1. t.key \in Keys /\ t.pair \in Pairs /\ t.start \in 0 .. now
  <2>1. t \in Tx /\ t.pc = "get" /\ WellFormed(t) /\ now \in Nat
    BY DEF IInv, TypeOK, KeyConflict
  <2>. QED
    BY <2>1 DEF WellFormed, Tx
<1>2. Atomic!Refuse(t.key, t.pair, t.start)
  BY DEF Atomic!Refuse, KeyConflict, Bound
<1>. QED
  BY <1>1, <1>2 DEF Atomic!INext

LEMMA StepIsAtomic ==
  ASSUME IInv, [Next]_vars
  PROVE  [Atomic!INext]_(Atomic!ivars)
<1>1. ASSUME NEW q \in Requests, Progress(q)
      PROVE  [Atomic!INext]_(Atomic!ivars)
  <2>1. CASE LockIdempotencyKey(q)
    BY <2>1 DEF LockIdempotencyKey, Atomic!ivars
  <2>2. CASE KeyFound(q)
    BY <2>2 DEF KeyFound, Atomic!ivars
  <2>3. CASE KeyConflict(q)
    BY <2>3, ConflictIsAtomic
  <2>4. CASE KeyMissing(q)
    BY <2>4 DEF KeyMissing, Atomic!ivars
  <2>5. CASE CreateOrGetActive(q)
    BY <2>5 DEF CreateOrGetActive, Atomic!ivars
  <2>6. CASE UpsertIdempotencyKey(q)
    BY <2>6 DEF UpsertIdempotencyKey, Atomic!ivars
  <2>7. CASE Commit(q)
    BY <2>7, CommitIsAtomic
  <2>. QED
    BY <1>1, <2>1, <2>2, <2>3, <2>4, <2>5, <2>6, <2>7 DEF Progress
<1>2. ASSUME NEW q \in Requests, Rollback(q)
      PROVE  UNCHANGED Atomic!ivars
  BY <1>2 DEF Rollback, Atomic!ivars
<1>3. ASSUME NEW q \in Requests, NEW k \in Keys, NEW p \in Pairs, Begin(q, k, p)
      PROVE  UNCHANGED Atomic!ivars
  BY <1>3 DEF Begin, Atomic!ivars
<1>4. ASSUME NEW u \in Ids, FinishUpdate(u)
      PROVE  Atomic!INext
  BY <1>4 DEF FinishUpdate, Atomic!INext, Atomic!Finish
<1>5. CASE Tick
  BY <1>5 DEF Tick, Atomic!INext, Atomic!Pass
<1>6. CASE UNCHANGED vars
  BY <1>6 DEF vars, Atomic!ivars
<1>. QED
  BY <1>1, <1>2, <1>3, <1>4, <1>5, <1>6 DEF Next

(* The transactions of repo.Refresh, interleaved statement by statement,   *)
(* implement requests that are a single step.                              *)
THEOREM Refinement == Spec => RefreshSpec
<1>1. Init => Atomic!IInit
  BY DEF Init, Atomic!IInit
<1>2. IInv /\ [Next]_vars => [Atomic!INext]_(Atomic!ivars)
  BY StepIsAtomic
<1>. QED
  BY <1>1, <1>2, Invariance, PTL DEF Spec, RefreshSpec, Atomic!ISpec

-----------------------------------------------------------------------------
(* What the refined specification is worth: requests that are a single     *)
(* step keep the promises of RefreshTx, said of the same variables.        *)

OneCommitted == \A p \in Pairs : \A u, v \in Active(p) : u = v

Typed ==
  /\ updates \in [Ids -> [status : {"ABSENT", "ACTIVE", "FINISHED"}, pair : Pairs \cup {NULL}]]
  /\ keys \in [Keys -> KeyRow \cup {NULL}]
  /\ now \in Nat
  /\ answers \subseteq Answer

Promises ==
  /\ Typed
  /\ OneCommitted
  /\ KeysNamed
  /\ AnswersKept
  /\ AnswersName
  /\ SameKeySameUpdate
  /\ RefusalsHaveCause

(* A request is answered with what its key stands for from now on, r.      *)
LEMMA AnswerKeepsPromises ==
  ASSUME Promises, NEW k \in Keys, NEW r \in KeyRow, keys' = [keys EXCEPT ![k] = r],
         keys[k] \in {r, NULL} \/ keys[k].expires_at <= now,
         Atomic!Answered(k), UNCHANGED <<now, refusals>>,
         updates' \in [Ids -> [status : {"ABSENT", "ACTIVE", "FINISHED"}, pair : Pairs \cup {NULL}]],
         \A u \in Ids : updates[u].status # "ABSENT" => updates'[u] = updates[u],
         updates'[r.update_id].status # "ABSENT", updates'[r.update_id].pair = r.pair,
         OneCommitted'
  PROVE  Promises'
<1>. DEFINE n == [key |-> k, pair |-> r.pair, id |-> r.update_id, at |-> now,
                  expires |-> r.expires_at]
<1>1. keys \in [Keys -> KeyRow \cup {NULL}] /\ answers \subseteq Answer /\ now \in Nat
  BY DEF Promises, Typed
<1>2. \A j \in Keys : keys'[j] = IF j = k THEN r ELSE keys[j]
  BY <1>1
<1>3. r.pair \in Pairs /\ r.update_id \in Ids /\ r.expires_at \in Nat /\ r # NULL
  BY NoRowAssumption DEF KeyRow
<1>4. answers' = answers \cup {n}
  BY <1>2 DEF Atomic!Answered
<1>5. /\ n \in Answer
      /\ n.key = k /\ n.pair = r.pair /\ n.id = r.update_id /\ n.at = now
      /\ n.expires = r.expires_at
  BY <1>1, <1>3 DEF Answer
<1>6. r = [pair |-> n.pair, update_id |-> n.id, expires_at |-> n.expires]
  BY <1>5 DEF KeyRow
<1>. HIDE DEF n
<1>7. Typed'
  BY <1>1, <1>2, <1>4, <1>5 DEF Typed
<1>8. KeysNamed'
  <2>. SUFFICES ASSUME NEW j \in Keys, keys'[j] # NULL
                PROVE  /\ updates'[keys'[j].update_id].status # "ABSENT"
                       /\ updates'[keys'[j].update_id].pair = keys'[j].pair
                       /\ \E a \in answers' : /\ a.key = j /\ a.pair = keys'[j].pair
                                              /\ a.expires = keys'[j].expires_at
    BY DEF KeysNamed
  <2>1. CASE j = k
    BY <1>2, <1>4, <1>5, <2>1
  <2>2. CASE j # k
    <3>1. keys'[j] = keys[j] /\ keys[j].update_id \in Ids
      BY <1>1, <1>2, <2>2 DEF KeyRow
    <3>. QED
      BY <1>4, <3>1 DEF Promises, KeysNamed
  <2>. QED
    BY <2>1, <2>2
<1>9. \A a \in answers : a \in Answer /\ (a.key = k => (a.id = n.id /\ a.pair = n.pair /\ keys[k] = r)
                                                       \/ a.expires <= now)
  <2>. SUFFICES ASSUME NEW a \in answers, a.key = k, ~(a.expires <= now)
                PROVE  a.id = n.id /\ a.pair = n.pair /\ keys[k] = r
    BY <1>1
  <2>1. keys[k] # NULL
        /\ keys[k] = [pair |-> a.pair, update_id |-> a.id, expires_at |-> a.expires]
    BY DEF Promises, AnswersKept
  <2>2. keys[k] = r
    BY <2>1
  <2>. QED
    BY <1>5, <2>1, <2>2
<1>10. AnswersKept'
  <2>. SUFFICES ASSUME NEW a \in answers'
                PROVE  /\ keys'[a.key] # NULL
                       /\ \/ keys'[a.key] = [pair |-> a.pair, update_id |-> a.id,
                                             expires_at |-> a.expires]
                          \/ a.expires <= now
    BY DEF AnswersKept
  <2>1. CASE a = n
    BY <1>2, <1>3, <1>5, <1>6, <2>1
  <2>2. CASE a \in answers
    <3>1. a.key \in Keys
      BY <1>9, <2>2 DEF Answer
    <3>2. CASE a.key = k
      BY <1>2, <1>3, <1>9, <2>2, <3>2 DEF Promises, AnswersKept
    <3>3. CASE a.key # k
      BY <1>2, <2>2, <3>1, <3>3 DEF Promises, AnswersKept
    <3>. QED
      BY <3>2, <3>3
  <2>. QED
    BY <1>4, <2>1, <2>2
<1>11. AnswersName'
  <2>1. \A a \in answers : a.id \in Ids
    BY <1>1 DEF Answer
  <2>. QED
    BY <1>4, <1>5, <2>1 DEF Promises, AnswersName
<1>12. SameKeySameUpdate'
  BY <1>4, <1>5, <1>9 DEF Promises, SameKeySameUpdate
<1>13. RefusalsHaveCause'
  BY <1>4 DEF Promises, RefusalsHaveCause
<1>. QED
  BY <1>7, <1>8, <1>10, <1>11, <1>12, <1>13 DEF Promises

LEMMA RepeatKeepsPromises ==
  ASSUME Promises, NEW k \in Keys, NEW p \in Pairs, Atomic!Repeat(k, p)
  PROVE  Promises'
<1>1. PICK r \in KeyRow : keys[k] = r
  BY DEF Atomic!Repeat, Promises, Typed
<1>2. keys' = [keys EXCEPT ![k] = r] /\ UNCHANGED updates
  BY <1>1 DEF Atomic!Repeat, Promises, Typed
<1>3. OneCommitted'
  BY <1>2 DEF Promises, OneCommitted, Active
<1>4. updates[r.update_id].status # "ABSENT" /\ updates[r.update_id].pair = r.pair
  BY <1>1 DEF Atomic!Repeat, Promises, KeysNamed
<1>. QED
  BY <1>1, <1>2, <1>3, <1>4, AnswerKeepsPromises DEF Atomic!Repeat, Promises, Typed

LEMMA BindKeepsPromises ==
  ASSUME Promises, NEW k \in Keys, NEW p \in Pairs, NEW u \in Ids, NEW e \in 0 .. now + TTL,
         Atomic!Bind(k, p, u, e)
  PROVE  Promises'
<1>1. e \in Nat
  BY RefreshAssumption DEF Promises, Typed
<1>2. PICK r \in KeyRow : r = [pair |-> p, update_id |-> u, expires_at |-> e]
  BY <1>1 DEF KeyRow
<1>3. r.pair = p /\ r.update_id = u
  BY <1>2
<1>4. /\ keys' = [keys EXCEPT ![k] = r]
      /\ updates[u] \in {ActiveRow(p), Absent}
      /\ updates' = [updates EXCEPT ![u] = ActiveRow(p)]
      /\ \A v \in Active(p) : v = u
      /\ keys[k] # NULL => keys[k].expires_at <= now
      /\ Atomic!Answered(k) /\ UNCHANGED <<now, refusals>>
  BY <1>2 DEF Atomic!Bind, ActiveRow, Absent, Active
<1>5. /\ updates' \in [Ids -> [status : {"ABSENT", "ACTIVE", "FINISHED"}, pair : Pairs \cup {NULL}]]
      /\ \A v \in Ids : updates'[v] = IF v = u THEN ActiveRow(p) ELSE updates[v]
  BY <1>4 DEF ActiveRow, Promises, Typed
<1>6. \A v \in Ids : updates[v].status # "ABSENT" => updates'[v] = updates[v]
  BY <1>4, <1>5 DEF Absent
<1>7. \A q \in Pairs : \A v \in Active(q)' : IF q = p THEN v = u ELSE v \in Active(q)
  BY <1>4, <1>5 DEF Active, ActiveRow
<1>8. OneCommitted'
  BY <1>7 DEF Promises, OneCommitted
<1>9. updates'[u].status # "ABSENT" /\ updates'[u].pair = p
  BY <1>5 DEF ActiveRow
<1>. QED
  BY <1>3, <1>4, <1>5, <1>6, <1>8, <1>9, AnswerKeepsPromises

LEMMA RefuseKeepsPromises ==
  ASSUME Promises, NEW k \in Keys, NEW p \in Pairs, NEW t \in 0 .. now, Atomic!Refuse(k, p, t)
  PROVE  Promises'
<1>1. \E a \in answers : a.key = k /\ a.pair # p /\ a.expires > t
  BY DEF Atomic!Refuse, Promises, KeysNamed
<1>2. UNCHANGED <<updates, keys, now, answers>>
      /\ refusals' = refusals \cup {[key |-> k, pair |-> p, start |-> t]}
  BY DEF Atomic!Refuse
<1>3. RefusalsHaveCause'
  BY <1>1, <1>2 DEF Promises, RefusalsHaveCause
<1>. QED
  BY <1>2, <1>3 DEF Promises, Typed, OneCommitted, Active, KeysNamed, AnswersKept, AnswersName,
                    SameKeySameUpdate

LEMMA FinishKeepsPromises ==
  ASSUME Promises, NEW u \in Ids, Atomic!Finish(u)
  PROVE  Promises'
<1>1. /\ updates' = [updates EXCEPT ![u].status = "FINISHED"] /\ updates[u].status = "ACTIVE"
      /\ UNCHANGED <<keys, now, answers, refusals>>
  BY DEF Atomic!Finish
<1>2. /\ updates' \in [Ids -> [status : {"ABSENT", "ACTIVE", "FINISHED"}, pair : Pairs \cup {NULL}]]
      /\ \A v \in Ids : /\ updates'[v].pair = updates[v].pair
                        /\ updates[v].status # "ABSENT" => updates'[v].status # "ABSENT"
                        /\ updates'[v].status = "ACTIVE" => updates[v].status = "ACTIVE"
  BY <1>1 DEF Promises, Typed
<1>3. Typed'
  BY <1>1, <1>2 DEF Promises, Typed
<1>4. OneCommitted'
  BY <1>2 DEF Promises, OneCommitted, Active
<1>5. KeysNamed'
  BY <1>1, <1>2 DEF Promises, Typed, KeysNamed, KeyRow
<1>6. AnswersName'
  BY <1>1, <1>2 DEF Promises, Typed, AnswersName, Answer
<1>. QED
  BY <1>1, <1>3, <1>4, <1>5, <1>6
     DEF Promises, AnswersKept, SameKeySameUpdate, RefusalsHaveCause

LEMMA PassKeepsPromises ==
  ASSUME Promises, Atomic!Pass
  PROVE  Promises'
<1>1. now \in Nat /\ now' = now + 1 /\ UNCHANGED <<updates, keys, answers, refusals>>
  BY DEF Atomic!Pass, Promises, Typed
<1>2. \A a \in answers : a.expires <= now => a.expires <= now'
  BY <1>1 DEF Promises, Typed, Answer
<1>3. AnswersKept'
  BY <1>1, <1>2 DEF Promises, AnswersKept
<1>4. Typed'
  BY <1>1 DEF Promises, Typed
<1>. QED
  BY <1>1, <1>3, <1>4 DEF Promises, OneCommitted, Active, KeysNamed, AnswersName,
                          SameKeySameUpdate, RefusalsHaveCause

(* IdempotentRefresh promises what its name says: its steps alone, without *)
(* locks or statements, keep the idempotency of the keys, the one active   *)
(* update per pair, the truth of the answers and the cause of the          *)
(* refusals, so that Refinement carries them all over to repo.Refresh.     *)
THEOREM PromisesKept ==
  Atomic!ISpec => [](SameKeySameUpdate /\ OneCommitted /\ AnswersName /\ RefusalsHaveCause)
<1>1. Atomic!IInit => Promises
  <2>. SUFFICES ASSUME Atomic!IInit PROVE Promises
    OBVIOUS
  <2>1. Typed
    BY DEF Atomic!IInit, Typed
  <2>2. OneCommitted
    BY DEF Atomic!IInit, OneCommitted, Active
  <2>. QED
    BY <2>1, <2>2 DEF Atomic!IInit, Promises, KeysNamed, AnswersKept, AnswersName,
                      SameKeySameUpdate, RefusalsHaveCause
<1>2. Promises /\ [Atomic!INext]_(Atomic!ivars) => Promises'
  <2>. SUFFICES ASSUME Promises, [Atomic!INext]_(Atomic!ivars) PROVE Promises'
    OBVIOUS
  <2>1. CASE Atomic!INext
    BY <2>1, RepeatKeepsPromises, BindKeepsPromises, RefuseKeepsPromises, FinishKeepsPromises,
       PassKeepsPromises
       DEF Atomic!INext
  <2>2. CASE UNCHANGED Atomic!ivars
    BY <2>2 DEF Atomic!ivars, Promises, Typed, OneCommitted, Active, KeysNamed, AnswersKept,
                AnswersName, SameKeySameUpdate, RefusalsHaveCause
  <2>. QED
    BY <2>1, <2>2
<1>3. Promises => SameKeySameUpdate /\ OneCommitted /\ AnswersName /\ RefusalsHaveCause
  BY DEF Promises
<1>. QED
  BY <1>1, <1>2, <1>3, PTL DEF Atomic!ISpec
=============================================================================
