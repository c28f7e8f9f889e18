-------------------------- MODULE IdempotentRefresh -------------------------
(***************************************************************************)
(* What POST /quotes/refresh promises, as if every request were a single   *)
(* step: a key names one update until it expires, a pair has one active    *)
(* update, and a key that is bound to another pair is refused.             *)
(***************************************************************************)
EXTENDS Naturals

CONSTANTS Keys, Pairs, Ids, TTL, None

VARIABLES
  updates,   \* updates[u]: status and pair
  bindings,  \* bindings[k]: the pair and update a key stands for, or None
  now,
  answers,   \* every update that was named in an answer
  refusals   \* every request that was refused

ivars == <<updates, bindings, now, answers, refusals>>

IInit ==
  /\ updates = [u \in Ids |-> [status |-> "ABSENT", pair |-> None]]
  /\ bindings = [k \in Keys |-> None]
  /\ now = 0
  /\ answers = {}
  /\ refusals = {}

Answered(k) ==
  answers' = answers \cup {[key |-> k, pair |-> bindings'[k].pair, id |-> bindings'[k].update_id,
                            at |-> now, expires |-> bindings'[k].expires_at]}

(* The key stands for this very pair: its update is the answer.            *)
Repeat(k, p) ==
  /\ bindings[k] # None
  /\ bindings[k].pair = p
  /\ UNCHANGED <<updates, bindings, now, refusals>>
  /\ Answered(k)

(* The key is free: it is bound to the active update of the pair, or to a  *)
(* new one if the pair has none.                                           *)
Bind(k, p, u, e) ==
  /\ bindings[k] # None => bindings[k].expires_at <= now
  /\ updates[u] \in {[status |-> "ACTIVE", pair |-> p], [status |-> "ABSENT", pair |-> None]}
  /\ \A v \in Ids : updates[v].status = "ACTIVE" /\ updates[v].pair = p => v = u
  /\ updates' = [updates EXCEPT ![u] = [status |-> "ACTIVE", pair |-> p]]
  /\ bindings' = [bindings EXCEPT ![k] = [pair |-> p, update_id |-> u, expires_at |-> e]]
  /\ Answered(k)
  /\ UNCHANGED <<now, refusals>>

(* The key stood for another pair when the request came in, at time t.     *)
Refuse(k, p, t) ==
  /\ bindings[k] # None
  /\ bindings[k].pair # p
  /\ bindings[k].expires_at > t
  /\ refusals' = refusals \cup {[key |-> k, pair |-> p, start |-> t]}
  /\ UNCHANGED <<updates, bindings, now, answers>>

Finish(u) ==
  /\ updates[u].status = "ACTIVE"
  /\ updates' = [updates EXCEPT ![u].status = "FINISHED"]
  /\ UNCHANGED <<bindings, now, answers, refusals>>

Pass ==
  /\ now' = now + 1
  /\ UNCHANGED <<updates, bindings, answers, refusals>>

INext ==
  \/ \E k \in Keys, p \in Pairs :
       \/ Repeat(k, p)
       \/ \E u \in Ids, e \in 0 .. now + TTL : Bind(k, p, u, e)
       \/ \E t \in 0 .. now : Refuse(k, p, t)
  \/ \E u \in Ids : Finish(u)
  \/ Pass

ISpec == IInit /\ [][INext]_ivars
=============================================================================
