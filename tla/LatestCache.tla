----------------------------- MODULE LatestCache ----------------------------
(***************************************************************************)
(* GET /quotes/latest for one pair: the Redis entry, filled by readers     *)
(* (service.GetLatest) and invalidated by workers (Worker.ProcessOnce),    *)
(* each of them in several steps that interleave.  The n-th saved rate is  *)
(* represented by n; QuoteWorker's LatestIsNewest is why GetLatestByPair   *)
(* returns the one saved last.                                             *)
(***************************************************************************)
EXTENDS Integers

CONSTANTS
  Readers,    \* requests in progress at once
  Workers,
  MaxSaved,   \* bound on the rates ever saved
  Failures,   \* whether Redis calls fail and workers stop
  NULL

ASSUME CacheAssumption ==
  /\ MaxSaved \in Nat
  /\ Failures \in BOOLEAN
  /\ NULL \notin Nat

VARIABLES
  latest,   \* the last rate saved in PostgreSQL, 0 if none
  cache,    \* the Redis entry of the pair, or NULL
  reader,   \* reader[r]: where a GetLatest is, and the row it has read
  worker,   \* worker[w]: "idle", or "deleting" once its mark has succeeded
  late,     \* history: the entry was older than latest when it was written
  missed    \* history: an invalidation failed since the entry was written

vars == <<latest, cache, reader, worker, late, missed>>

-----------------------------------------------------------------------------
Init ==
  /\ latest = 0
  /\ cache = NULL
  /\ reader = [r \in Readers |-> [pc |-> "idle", quote |-> 0]]
  /\ worker = [w \in Workers |-> "idle"]
  /\ late = FALSE
  /\ missed = FALSE

Return(r) == reader' = [reader EXCEPT ![r] = [pc |-> "idle", quote |-> 0]]

(* No entry, or Redis fails, or this instance runs without Redis.  (A hit  *)
(* answers with the entry and changes nothing.)                            *)
CacheMiss(r) ==
  /\ reader[r].pc = "idle"
  /\ cache = NULL \/ Failures
  /\ reader' = [reader EXCEPT ![r].pc = "db"]
  /\ UNCHANGED <<latest, cache, worker, late, missed>>

(* Mutant: a pair without a quote is cached too.                           *)
Found_Always(quote) == TRUE

Found(quote) == quote # 0

(* repo.GetLatest: ErrQuoteNotFound ends the request.                      *)
ReadLatest(r) ==
  /\ reader[r].pc = "db"
  /\ IF Found(latest)
       THEN reader' = [reader EXCEPT ![r] = [pc |-> "set", quote |-> latest]]
       ELSE Return(r)
  /\ UNCHANGED <<latest, cache, worker, late, missed>>

(* SetLatest; its error is ignored.                                        *)
SetLatest(r) ==
  /\ reader[r].pc = "set"
  /\ \/ /\ cache' = reader[r].quote
        /\ late' = (reader[r].quote # latest)
        /\ missed' = FALSE
     \/ Failures /\ UNCHANGED <<cache, late, missed>>
  /\ Return(r)
  /\ UNCHANGED <<latest, worker>>

(* Mutant: the invalidation is forgotten.                                  *)
AfterSuccess_Idle == "idle"

AfterSuccess == "deleting"

(* MarkSucceeded commits.                                                  *)
MarkSucceeded(w) ==
  /\ worker[w] = "idle"
  /\ latest < MaxSaved
  /\ latest' = latest + 1
  /\ worker' = [worker EXCEPT ![w] = AfterSuccess]
  /\ UNCHANGED <<cache, reader, late, missed>>

Removed == cache' = NULL /\ late' = FALSE /\ missed' = FALSE

DeleteLatest(w) ==
  /\ worker[w] = "deleting"
  /\ Removed
  /\ worker' = [worker EXCEPT ![w] = "idle"]
  /\ UNCHANGED <<latest, reader>>

(* DeleteLatest fails, which is only logged; or the reply of MarkSucceeded *)
(* was lost, the worker stopped, or its instance runs without Redis.       *)
DeleteSkipped(w) ==
  /\ Failures
  /\ worker[w] = "deleting"
  /\ worker' = [worker EXCEPT ![w] = "idle"]
  /\ missed' = TRUE
  /\ UNCHANGED <<latest, cache, reader, late>>

(* Mutant: entries are written without a TTL.                              *)
HasTTL_Never == FALSE

HasTTL == TRUE

Expire ==
  /\ HasTTL
  /\ cache # NULL
  /\ Removed
  /\ UNCHANGED <<latest, reader, worker>>

Read(r) == CacheMiss(r) \/ ReadLatest(r) \/ SetLatest(r)

Next ==
  \/ \E r \in Readers : Read(r)
  \/ \E w \in Workers : MarkSucceeded(w) \/ DeleteLatest(w) \/ DeleteSkipped(w)
  \/ Expire

(* A request that has missed goes on, a worker goes on, the TTL runs out.  *)
Spec ==
  /\ Init /\ [][Next]_vars
  /\ \A r \in Readers : WF_vars(ReadLatest(r) \/ SetLatest(r))
  /\ \A w \in Workers : WF_vars(DeleteLatest(w))
  /\ WF_vars(Expire)

-----------------------------------------------------------------------------
TypeOK ==
  /\ latest \in 0 .. MaxSaved
  /\ cache \in (1 .. MaxSaved) \cup {NULL}
  /\ reader \in [Readers -> [pc : {"idle", "db", "set"}, quote : 0 .. MaxSaved]]
  /\ worker \in [Workers -> {"idle", "deleting"}]
  /\ late \in BOOLEAN /\ missed \in BOOLEAN

(* The entry differs from the last saved rate for three reasons only: its  *)
(* invalidation is still to come, has failed, or came before the entry was *)
(* written by a reader that had read the table earlier.                    *)
StaleHasCause ==
  cache \notin {NULL, latest} =>
    late \/ missed \/ \E w \in Workers : worker[w] = "deleting"

(* Once rates are no longer saved, the entry ends up absent or right for   *)
(* good, whatever raced and failed before: the TTL is what guarantees it.  *)
EventuallyFresh == <>[](cache \in {NULL, latest})

(* "After a worker stores a newer successful quote, it invalidates the     *)
(* corresponding cache key": with no invalidation left to do, the entry is *)
(* absent or the most recent rate.                                         *)
FreshAfterInvalidation ==
  (\A w \in Workers : worker[w] = "idle") => cache \in {NULL, latest}
=============================================================================
