--------------------------- MODULE WorkerProgress ---------------------------
(***************************************************************************)
(* Does every accepted update end?  The queue and its workers over an      *)
(* unbounded run: what QuoteWorker says with times is said here with what  *)
(* a time decides: whether a row is due, which due row comes first and     *)
(* whether a lease has run out.                                            *)
(* next_attempt_at may be older than the moment at which a row is due: it  *)
(* is the start of the transaction that writes it, or the application's    *)
(* clock.  A row that arrives may thus get ahead of others, but not of one *)
(* that has been due for longer than transactions last and clocks differ.  *)
(* A pair has at most one active row, so the pair stands for it; a final   *)
(* row leaves the queue.  A worker holds at most one lease and forgets it  *)
(* when it stops, so the worker stands for the lease token.                *)
(***************************************************************************)
EXTENDS Integers, Sequences, SequencesExt

CONSTANTS
  Pairs, Workers,
  MaxAttempts,   \* Config.MaxAttempts
  MaxFaults,     \* bound: crashes, failed statements, lost replies, overrun leases
  Unsavable,     \* pairs whose rates may not fit NUMERIC(18,8)
  NULL

ASSUME ProgressAssumption ==
  /\ MaxAttempts \in Nat \ {0}
  /\ MaxFaults \in Nat
  /\ Unsavable \subseteq Pairs /\ IsFiniteSet(Pairs)
  /\ NULL \notin Workers \cup Pairs

VARIABLES
  row,        \* row[p]: the active row of pair p
  due,        \* pairs of due PENDING rows, ORDER BY next_attempt_at, created_at
  settled,    \* pairs of rows that have been due for long
  locked,     \* pairs whose active row an open Refresh transaction has locked
  work,       \* work[w]: where worker w is, as in QuoteWorker
  faults

vars == <<row, due, settled, locked, work, faults>>

-----------------------------------------------------------------------------
NoRow == [status |-> "NONE", attempts |-> 0, holder |-> NULL, expired |-> FALSE]

Idle(pc) == [pc |-> pc, pair |-> NULL, ok |-> FALSE, inTime |-> FALSE]

Init ==
  /\ row = [p \in Pairs |-> NoRow]
  /\ due = <<>>
  /\ settled = {}
  /\ locked = {}
  /\ work = [w \in Workers |-> Idle("down")]
  /\ faults = 0

Goto(w, pc) == work' = [work EXCEPT ![w] = Idle(pc)]

Fault == faults < MaxFaults /\ faults' = faults + 1

(* Either all goes well, or the reply is lost and the loop ends.           *)
Reply(w, pc) ==
  \/ Goto(w, pc) /\ UNCHANGED faults
  \/ Goto(w, "waiting") /\ Fault

(* Attempts count up to MaxAttempts: beyond it they all compare the same.  *)
Attempt(n) == IF n < MaxAttempts THEN n + 1 ELSE n

Pending(r) == [r EXCEPT !.status = "PENDING", !.holder = NULL, !.expired = FALSE]

(* The pairs in S become due: they get in anywhere behind the settled      *)
(* ones, and those that are due already keep their order.                  *)
Precedes(s, p, q) == \E i, j \in DOMAIN s : i < j /\ s[i] = p /\ s[j] = q

Arrive(S) ==
  /\ due' \in {s \in SetToSeqs(ToSet(due) \cup S) :
                 /\ \A i, j \in DOMAIN due : i < j => Precedes(s, due[i], due[j])
                 /\ \A p \in settled, q \in S : Precedes(s, p, q)}
  /\ UNCHANGED settled

(* The worker that has the row's lease and knows it.                       *)
Holds(w, p) == work[w].pair = p /\ row[p].status = "PROCESSING" /\ row[p].holder = w

-----------------------------------------------------------------------------
(* Clients and time.                                                       *)

(* CreateOrGetActiveQuoteUpdate where the pair has no active row: the      *)
(* INSERT, when its transaction commits.                                   *)
InsertQuoteUpdate(p) ==
  /\ row[p].status = "NONE"
  /\ row' = [row EXCEPT ![p] = Pending(NoRow)]
  /\ Arrive({p})
  /\ UNCHANGED <<locked, work, faults>>

(* ... and where it has one: ON CONFLICT DO UPDATE locks the row until the *)
(* transaction ends.                                                       *)
TouchQuoteUpdate(p) ==
  /\ row[p].status # "NONE"
  /\ p \notin locked
  /\ locked' = locked \cup {p}
  /\ UNCHANGED <<row, due, settled, work, faults>>

Refresh(p) == InsertQuoteUpdate(p) \/ TouchQuoteUpdate(p)

EndRefresh(p) ==
  /\ p \in locked
  /\ locked' = locked \ {p}
  /\ UNCHANGED <<row, due, settled, work, faults>>

(* The retry's date, time.Now() plus a delay that may be 0, has come.      *)
BecomesDue(p) ==
  /\ row[p].status = "PENDING"
  /\ p \notin ToSet(due)
  /\ Arrive({p})
  /\ UNCHANGED <<row, locked, work, faults>>

(* No transaction or clock is old enough to date a row before this one.    *)
Settle(p) ==
  /\ p \in ToSet(due) \ settled
  /\ settled' = settled \cup {p}
  /\ UNCHANGED <<row, due, locked, work, faults>>

LeaseRunsOut(p) ==
  /\ row[p].status = "PROCESSING"
  /\ ~row[p].expired
  /\ \A w \in Workers : ~Holds(w, p)
  /\ row' = [row EXCEPT ![p].expired = TRUE]
  /\ UNCHANGED <<due, settled, locked, work, faults>>

(* The provider or the database takes longer than LeaseDuration.           *)
LeaseOverrun(p) ==
  /\ row[p].status = "PROCESSING"
  /\ ~row[p].expired
  /\ \E w \in Workers : Holds(w, p)
  /\ Fault
  /\ row' = [row EXCEPT ![p].expired = TRUE]
  /\ UNCHANGED <<due, settled, locked, work>>

-----------------------------------------------------------------------------
(* Workers.                                                                *)

Start(w) ==
  /\ work[w].pc = "down"
  /\ Goto(w, "requeue")
  /\ UNCHANGED <<row, due, settled, locked, faults>>

Crash(w) ==
  /\ work[w].pc # "down"
  /\ Fault
  /\ Goto(w, "down")
  /\ UNCHANGED <<row, due, settled, locked>>

StatementFails(w) ==
  /\ work[w].pc \in {"requeue", "claim", "marking"}
  /\ Fault
  /\ Goto(w, "waiting")
  /\ UNCHANGED <<row, due, settled, locked>>

Expired == {p \in Pairs : row[p].status = "PROCESSING" /\ row[p].expired}

(* One UPDATE: it waits for the rows that are locked.                      *)
RequeueExpired(w) ==
  /\ work[w].pc = "requeue"
  /\ Expired \cap locked = {}
  /\ row' = [p \in Pairs |-> IF p \in Expired THEN Pending(row[p]) ELSE row[p]]
  /\ Arrive(Expired)
  /\ Reply(w, "claim")
  /\ UNCHANGED locked

(* FOR UPDATE SKIP LOCKED.                                                 *)
Claimable == {i \in DOMAIN due : due[i] \notin locked}

(* Mutant: ORDER BY next_attempt_at DESC.                                  *)
NextDue_Newest(i) == \A j \in Claimable : j <= i

(* ORDER BY next_attempt_at LIMIT 1.                                       *)
NextDue(i) == \A j \in Claimable : i <= j

ClaimNext(w) ==
  /\ work[w].pc = "claim"
  /\ \E i \in Claimable :
       /\ NextDue(i)
       /\ row' = [row EXCEPT ![due[i]].status = "PROCESSING",
                             ![due[i]].holder = w,
                             ![due[i]].attempts = Attempt(@)]
       /\ due' = RemoveAt(due, i)
       /\ settled' = settled \ {due[i]}
       /\ \/ work' = [work EXCEPT ![w] = [Idle("calling") EXCEPT !.pair = due[i]]] /\ UNCHANGED faults
          \/ Goto(w, "waiting") /\ Fault
  /\ UNCHANGED locked

NothingDue(w) ==
  /\ work[w].pc = "claim"
  /\ Claimable = {}
  /\ Goto(w, "waiting")
  /\ UNCHANGED <<row, due, settled, locked, faults>>

(* The answer, and whether locked_until > NOW() when the mark is sent.     *)
GetRate(w) ==
  /\ work[w].pc = "calling"
  /\ \E ok \in BOOLEAN :
       work' = [work EXCEPT ![w].pc = "marking", ![w].ok = ok,
                            ![w].inTime = ~row[work[w].pair].expired]
  /\ UNCHANGED <<row, due, settled, locked, faults>>

(* Mutant: a stale statement applies too.                                  *)
Applies_ById(w) == work[w].pc = "marking"

Applies(w) == work[w].pc = "marking" /\ work[w].inTime /\ Holds(w, work[w].pair)

(* MarkSucceeded, or MarkFailed after the last attempt.  An UPDATE waits   *)
(* for a row that is locked, and is judged by its own NOW() afterwards.    *)
Finish(w) ==
  /\ Applies(w)
  /\ work[w].pair \notin locked
  /\ work[w].ok \/ row[work[w].pair].attempts >= MaxAttempts
  /\ row' = [row EXCEPT ![work[w].pair] = NoRow]
  /\ Reply(w, IF work[w].ok THEN "invalidating" ELSE "claim")
  /\ UNCHANGED <<due, settled, locked>>

(* MarkSucceeded fails, as often as the provider gives such a rate: the    *)
(* worker goes on at its next tick, the row waits for its lease to end.    *)
SaveFails(w) ==
  /\ Applies(w)
  /\ work[w].ok /\ work[w].pair \in Unsavable
  /\ Goto(w, "waiting")
  /\ UNCHANGED <<row, due, settled, locked, faults>>

ScheduleRetry(w) ==
  /\ Applies(w)
  /\ work[w].pair \notin locked
  /\ ~work[w].ok /\ row[work[w].pair].attempts < MaxAttempts
  /\ row' = [row EXCEPT ![work[w].pair] = Pending(@)]
  /\ Reply(w, "claim")
  /\ UNCHANGED <<due, settled, locked>>

LeaseLost(w) ==
  /\ work[w].pc = "marking"
  /\ ~Applies(w)
  /\ Goto(w, "claim")
  /\ UNCHANGED <<row, due, settled, locked, faults>>

DeleteLatest(w) ==
  /\ work[w].pc = "invalidating"
  /\ Goto(w, "claim")
  /\ UNCHANGED <<row, due, settled, locked, faults>>

(* Mutant: expired leases are requeued only when the worker starts.        *)
PollTick_NoRequeue(w) ==
  /\ work[w].pc = "waiting"
  /\ Goto(w, "claim")
  /\ UNCHANGED <<row, due, settled, locked, faults>>

PollTick(w) ==
  /\ work[w].pc = "waiting"
  /\ Goto(w, "requeue")
  /\ UNCHANGED <<row, due, settled, locked, faults>>

Run(w) ==
  \/ Start(w)
  \/ RequeueExpired(w)
  \/ ClaimNext(w)
  \/ NothingDue(w)
  \/ GetRate(w)
  \/ Finish(w)
  \/ SaveFails(w)
  \/ ScheduleRetry(w)
  \/ LeaseLost(w)
  \/ DeleteLatest(w)
  \/ PollTick(w)

Next ==
  \/ \E p \in Pairs : \/ Refresh(p) \/ EndRefresh(p) \/ BecomesDue(p) \/ Settle(p)
                      \/ LeaseRunsOut(p) \/ LeaseOverrun(p)
  \/ \E w \in Workers : Run(w) \/ Crash(w) \/ StatementFails(w)

(* Time passes, Refresh transactions end, an instance that stopped is      *)
(* started again, and a running worker goes on: its ticker ticks, its      *)
(* calls return, and a statement that waits for a row gets it, however     *)
(* often clients lock it, as PostgreSQL queues those who wait.             *)
Spec ==
  /\ Init /\ [][Next]_vars
  /\ \A p \in Pairs : /\ WF_vars(EndRefresh(p)) /\ WF_vars(BecomesDue(p))
                     /\ WF_vars(Settle(p)) /\ WF_vars(LeaseRunsOut(p))
  /\ \A w \in Workers : SF_vars(Run(w))

-----------------------------------------------------------------------------
(* Every variable has its type, due lists PENDING rows only, each once, and *)
(* a Refresh transaction locks active rows only: no statement of a worker  *)
(* ends a row under the lock.                                              *)
TypeOK ==
  /\ row \in [Pairs -> [status : {"NONE", "PENDING", "PROCESSING"}, attempts : 0 .. MaxAttempts,
                        holder : Workers \cup {NULL}, expired : BOOLEAN]]
  /\ ToSet(due) \subseteq {p \in Pairs : row[p].status = "PENDING"}
  /\ IsInjective(due)
  /\ settled \subseteq ToSet(due)
  /\ locked \subseteq {p \in Pairs : row[p].status # "NONE"}
  /\ work \in [Workers -> [pc : {"down", "requeue", "claim", "calling", "marking",
                                 "invalidating", "waiting"},
                           pair : Pairs \cup {NULL}, ok : BOOLEAN, inTime : BOOLEAN]]
  /\ faults \in 0 .. MaxFaults

(* Once clients stop refreshing, every accepted update ends in SUCCESS or  *)
(* FAILED, in spite of crashes, lost replies, overrun leases and a failing *)
(* provider.  An update whose rates cannot be saved, and which may be tried *)
(* for ever, does not stand in the way of the others.                      *)
EveryUpdateEnds ==
  <>[][\A p \in Pairs : ~Refresh(p)]_vars =>
    \A p \in Pairs \ Unsavable : row[p].status # "NONE" ~> row[p].status = "NONE"

(* A due row is claimed once clients leave its own pair alone, even if they *)
(* never stop refreshing others: rows of other pairs that come and go, and *)
(* locks on them that hold up the workers' statements, only delay it.      *)
(* While its own pair is refreshed without a pause it may be locked at     *)
(* every claim, and claims skip it.                                        *)
DueIsClaimed ==
  \A p \in Pairs : <>[][~Refresh(p)]_vars => (p \in ToSet(due) ~> p \notin ToSet(due))

(* "Expired leases are returned to the pending queue."                     *)
ExpiredIsRequeued ==
  \A p \in Pairs : p \in Expired ~> p \notin Expired
=============================================================================
