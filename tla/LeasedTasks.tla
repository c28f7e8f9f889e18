----------------------------- MODULE LeasedTasks ----------------------------
(***************************************************************************)
(* What the quote queue promises, without clocks, tokens or statements:    *)
(* at most one open task per subject, each open task in the hands of at    *)
(* most one worker, a result only from the worker that has the task, and   *)
(* no task abandoned before it was tried MaxTries times.                   *)
(***************************************************************************)
EXTENDS Integers

CONSTANTS Tasks, Subjects, Workers, Results, MaxTries, None

VARIABLES
  phase,    \* phase[k]: "new", "open", "taken", "done" or "abandoned"
  subject,  \* subject[k]: what the task is about
  holders,  \* holders[k]: the workers that have the task
  tries,    \* tries[k]: how often the task was taken
  result    \* result[k]: the result of a task that is done

tvars == <<phase, subject, holders, tries, result>>

TInit ==
  /\ phase = [k \in Tasks |-> "new"]
  /\ subject = [k \in Tasks |-> None]
  /\ holders = [k \in Tasks |-> {}]
  /\ tries = [k \in Tasks |-> 0]
  /\ result = [k \in Tasks |-> None]

(* A task is accepted for a subject that has none in progress.             *)
Accept(k, s) ==
  /\ phase[k] = "new"
  /\ \A j \in Tasks : phase[j] \in {"open", "taken"} => subject[j] # s
  /\ phase' = [phase EXCEPT ![k] = "open"]
  /\ subject' = [subject EXCEPT ![k] = s]
  /\ UNCHANGED <<holders, tries, result>>

(* A task is taken by a worker, or for one that never learns of it.        *)
Take(k, H) ==
  /\ phase[k] = "open"
  /\ phase' = [phase EXCEPT ![k] = "taken"]
  /\ holders' = [holders EXCEPT ![k] = H]
  /\ tries' = [tries EXCEPT ![k] = @ + 1]
  /\ UNCHANGED <<subject, result>>

(* A worker forgets the task it has.                                       *)
Forget(k) ==
  /\ holders[k] # {}
  /\ holders' = [holders EXCEPT ![k] = {}]
  /\ UNCHANGED <<phase, subject, tries, result>>

(* Tasks go back to the queue, and nobody has them any more.               *)
Release(K) ==
  /\ K # {}
  /\ \A k \in K : phase[k] = "taken"
  /\ phase' = [k \in Tasks |-> IF k \in K THEN "open" ELSE phase[k]]
  /\ holders' = [k \in Tasks |-> IF k \in K THEN {} ELSE holders[k]]
  /\ UNCHANGED <<subject, tries, result>>

Finish(k, r) ==
  /\ phase[k] = "taken"
  /\ holders[k] # {}
  /\ phase' = [phase EXCEPT ![k] = "done"]
  /\ result' = [result EXCEPT ![k] = r]
  /\ holders' = [holders EXCEPT ![k] = {}]
  /\ UNCHANGED <<subject, tries>>

Abandon(k) ==
  /\ phase[k] = "taken"
  /\ holders[k] # {}
  /\ tries[k] >= MaxTries
  /\ phase' = [phase EXCEPT ![k] = "abandoned"]
  /\ holders' = [holders EXCEPT ![k] = {}]
  /\ UNCHANGED <<subject, tries, result>>

TNext ==
  \/ \E k \in Tasks, s \in Subjects : Accept(k, s)
  \/ \E k \in Tasks, H \in {{}} \cup {{w} : w \in Workers} : Take(k, H)
  \/ \E k \in Tasks : Forget(k)
  \/ \E K \in SUBSET Tasks : Release(K)
  \/ \E k \in Tasks, r \in Results : Finish(k, r)
  \/ \E k \in Tasks : Abandon(k)

TSpec == TInit /\ [][TNext]_tvars
=============================================================================
