------------------------- MODULE AppLifecycleProofs -------------------------
(***************************************************************************)
(* Proofs about AppLifecycle, for every number of HTTP requests in         *)
(* progress.                                                               *)
(***************************************************************************)
EXTENDS AppLifecycle, TLAPS

-----------------------------------------------------------------------------
(* The inductive invariant.                                                *)

(* Nothing of the process runs before New has returned, and no connection  *)
(* is taken once the pool is closing.                                      *)
StartedByMain ==
  /\ main = "new" => start = "none" /\ pool = "none" /\ http = "new"
  /\ http = "new" => Busy = {}
  /\ main \in {"select", "shutdown", "draining", "cancel", "wait"} => pool = "open"
  /\ main = "close" => pool = "closing"
  /\ main = "stopped" => pool = "closed" /\ ~InUse
  /\ code = "0" => main = "exited"
  /\ main # "exited" => code = "none"

(* The worker exists from the moment Start has launched it, which is after *)
(* it has set a.cancel and called wg.Add.                                  *)
WorkerLaunched == worker # "none" <=> start \in {"launched", "serving", "returned"}

(* Stop begins when a signal was caught or Start has returned, and unless  *)
(* it was the signal it sees the a.cancel that Start has set.              *)
StopHasCause ==
  /\ cause = "signal" => signal
  /\ cause = "server" => start = "returned"
  /\ main \in {"shutdown", "draining", "cancel", "wait", "close", "stopped"}
       => cause \in {"signal", "server"}
  /\ main \in {"wait", "close", "stopped"} => signal \/ cancelled

(* From e.Shutdown on no request is accepted, and if it did not give up,   *)
(* none was left when it returned.                                         *)
NoRequestLeft ==
  /\ main \in {"draining", "cancel", "wait", "close", "stopped"} => http = "shut"
  /\ main \in {"cancel", "wait", "close", "stopped"} /\ ~timedOut => Busy = {}

(* A process that exits with 0 went through the whole of Stop.             *)
ZeroIsWhole ==
  code = "0" => signal /\ ~timedOut /\ Busy = {} /\ ~InUse /\ pool = "closed"

IInv ==
  /\ TypeOK
  /\ StartedByMain
  /\ WorkerLaunched
  /\ StopHasCause
  /\ NoRequestLeft
  /\ ZeroIsWhole
  /\ WorkerDoneBeforeClose
  /\ RefusedOnlyAfterTimeout

-----------------------------------------------------------------------------
(* The steps of main, of Start and of the worker leave requests alone.     *)

LEMMA Initially == Init => IInv
BY DEF Init, IInv, TypeOK, StartedByMain, WorkerLaunched, StopHasCause, NoRequestLeft,
       ZeroIsWhole, WorkerDoneBeforeClose, RefusedOnlyAfterTimeout, Busy, InUse, WorkerCtxDone,
       Main, Starter, Worker, Handler, Server, Pool, Cause, Code

LEMMA SignalStep ==
  ASSUME IInv, Signal
  PROVE  IInv'
<1>1. Busy' = Busy /\ (InUse' <=> InUse)
  BY DEF Signal, Running, IInv, TypeOK, Busy, InUse
<1>2. TypeOK'
  <2>1. UNCHANGED <<main, start, worker, handler, http, pool, cancelled, cause, timedOut, refused, code>>
    BY DEF Signal
  <2>2. signal' = TRUE
    BY DEF Signal, IInv, TypeOK
  <2>. QED
    BY <2>1, <2>2 DEF IInv, TypeOK
<1>3. StartedByMain' /\ WorkerLaunched'
  BY <1>1 DEF Signal, Running, IInv, TypeOK, StartedByMain, WorkerLaunched
<1>4. StopHasCause'
  BY <1>1 DEF Signal, Running, IInv, TypeOK, StopHasCause
<1>5. NoRequestLeft' /\ ZeroIsWhole' /\ RefusedOnlyAfterTimeout'
  BY <1>1 DEF Signal, Running, IInv, StartedByMain, NoRequestLeft, ZeroIsWhole,
       RefusedOnlyAfterTimeout
<1>6. WorkerDoneBeforeClose'
  BY DEF Signal, Running, IInv, StartedByMain, WorkerLaunched, StopHasCause,
       WorkerCtxDone, WorkerDoneBeforeClose
<1>. QED
  BY <1>2, <1>3, <1>4, <1>5, <1>6 DEF IInv

LEMMA SelectStep ==
  ASSUME IInv, New \/ NewFails \/ SelectErrChan \/ SelectDone
  PROVE  IInv'
<1>1. CASE New
  BY <1>1 DEF New, dbPool, IInv, TypeOK, StartedByMain, WorkerLaunched, StopHasCause, NoRequestLeft,
       ZeroIsWhole, WorkerDoneBeforeClose, RefusedOnlyAfterTimeout, Busy, InUse, WorkerCtxDone,
       Main, Starter, Worker, Handler, Server, Pool, Cause, Code
<1>2. CASE NewFails
  BY <1>2 DEF NewFails, IInv, TypeOK, StartedByMain, WorkerLaunched, StopHasCause, NoRequestLeft,
       ZeroIsWhole, WorkerDoneBeforeClose, RefusedOnlyAfterTimeout, Busy, InUse, WorkerCtxDone,
       Main, Starter, Worker, Handler, Server, Pool, Cause, Code
<1>3. CASE SelectErrChan
  BY <1>3 DEF SelectErrChan, IInv, TypeOK, StartedByMain, WorkerLaunched, StopHasCause, NoRequestLeft,
       ZeroIsWhole, WorkerDoneBeforeClose, RefusedOnlyAfterTimeout, Busy, InUse, WorkerCtxDone,
       Main, Starter, Worker, Handler, Server, Pool, Cause, Code
<1>4. CASE SelectDone
  <2>1. Busy' = Busy /\ (InUse' <=> InUse)
    BY <1>4 DEF SelectDone, IInv, TypeOK, Busy, InUse
  <2>2. TypeOK'
    BY <1>4 DEF SelectDone, IInv, TypeOK, Main, Cause
  <2>3. StartedByMain' /\ WorkerLaunched'
    BY <1>4, <2>1 DEF SelectDone, IInv, TypeOK, StartedByMain, WorkerLaunched
  <2>4. StopHasCause'
    BY <1>4, <2>1 DEF SelectDone, IInv, TypeOK, StopHasCause
  <2>5. NoRequestLeft' /\ ZeroIsWhole' /\ RefusedOnlyAfterTimeout'
    BY <1>4, <2>1 DEF SelectDone, IInv, StartedByMain, NoRequestLeft,
         ZeroIsWhole, RefusedOnlyAfterTimeout
  <2>6. WorkerDoneBeforeClose'
    BY <1>4 DEF SelectDone, IInv, StartedByMain, WorkerLaunched,
         StopHasCause, WorkerCtxDone, WorkerDoneBeforeClose
  <2>. QED
    BY <2>2, <2>3, <2>4, <2>5, <2>6 DEF IInv
<1>. QED
  BY <1>1, <1>2, <1>3, <1>4

LEMMA StopStep ==
  ASSUME IInv, Shutdown \/ ShutdownReturns \/ Cancel \/ Wait \/ ClosePool \/ Exit
  PROVE  IInv'
<1>1. CASE Shutdown
  <2>1. Busy' = Busy /\ (InUse' <=> InUse)
    BY <1>1 DEF Shutdown, IInv, TypeOK, Busy, InUse
  <2>2. TypeOK'
    BY <1>1 DEF Shutdown, IInv, TypeOK, Main, Server
  <2>3. StartedByMain' /\ WorkerLaunched'
    BY <1>1, <2>1 DEF Shutdown, IInv, TypeOK, StartedByMain, WorkerLaunched
  <2>4. StopHasCause'
    BY <1>1, <2>1 DEF Shutdown, IInv, TypeOK, StopHasCause
  <2>5. NoRequestLeft' /\ ZeroIsWhole' /\ RefusedOnlyAfterTimeout'
    BY <1>1, <2>1 DEF Shutdown, IInv, StartedByMain, NoRequestLeft,
         ZeroIsWhole, RefusedOnlyAfterTimeout
  <2>6. WorkerDoneBeforeClose'
    BY <1>1 DEF Shutdown, IInv, StartedByMain, WorkerLaunched,
         StopHasCause, WorkerCtxDone, WorkerDoneBeforeClose
  <2>. QED
    BY <2>2, <2>3, <2>4, <2>5, <2>6 DEF IInv
<1>2. CASE ShutdownReturns
  <2>1. Busy' = Busy /\ (InUse' <=> InUse) /\ (timedOut' \/ Busy = {})
    BY <1>2 DEF ShutdownReturns, Drained, IInv, TypeOK, Busy, InUse
  <2>2. TypeOK'
    BY <1>2 DEF ShutdownReturns, Drained, IInv, TypeOK, Main
  <2>3. StartedByMain' /\ WorkerLaunched'
    BY <1>2, <2>1 DEF ShutdownReturns, Drained, IInv, TypeOK, StartedByMain, WorkerLaunched
  <2>4. StopHasCause'
    BY <1>2, <2>1 DEF ShutdownReturns, Drained, IInv, TypeOK, StopHasCause
  <2>5. NoRequestLeft' /\ ZeroIsWhole' /\ RefusedOnlyAfterTimeout'
    BY <1>2, <2>1 DEF ShutdownReturns, Drained, IInv, StartedByMain, NoRequestLeft,
         ZeroIsWhole, RefusedOnlyAfterTimeout
  <2>6. WorkerDoneBeforeClose'
    BY <1>2 DEF ShutdownReturns, Drained, IInv, StartedByMain, WorkerLaunched,
         StopHasCause, WorkerCtxDone, WorkerDoneBeforeClose
  <2>. QED
    BY <2>2, <2>3, <2>4, <2>5, <2>6 DEF IInv
<1>3. CASE Cancel
  <2>1. Busy' = Busy /\ (InUse' <=> InUse)
    BY <1>3 DEF Cancel, CancelSeen, CancelSet, IInv, TypeOK, Busy, InUse
  <2>2. TypeOK'
    <3>1. UNCHANGED <<start, worker, handler, http, pool, signal, cause, timedOut, refused, code>>
      BY <1>3 DEF Cancel, CancelSeen, CancelSet
    <3>2. main' = "wait" /\ cancelled' \in BOOLEAN
      <4>1. main' = "wait" /\ cancelled' \in CancelSeen
        BY <1>3 DEF Cancel
      <4>2. CancelSeen \subseteq {CancelSet, FALSE}
        BY DEF CancelSeen
      <4>3. CancelSet \in BOOLEAN
        BY DEF CancelSet
      <4>. QED
        BY <4>1, <4>2, <4>3, Zenon
    <3>. QED
      BY <3>1, <3>2 DEF IInv, TypeOK, Main, Worker
  <2>3. StartedByMain' /\ WorkerLaunched'
    BY <1>3, <2>1 DEF Cancel, CancelSeen, CancelSet, IInv, TypeOK, StartedByMain, WorkerLaunched
  <2>4. StopHasCause'
    BY <1>3, <2>1 DEF Cancel, CancelSeen, CancelSet, IInv, TypeOK, StopHasCause
  <2>5. NoRequestLeft' /\ ZeroIsWhole' /\ RefusedOnlyAfterTimeout'
    BY <1>3, <2>1 DEF Cancel, CancelSeen, CancelSet, IInv, StartedByMain, NoRequestLeft, ZeroIsWhole,
           RefusedOnlyAfterTimeout
  <2>6. WorkerDoneBeforeClose'
    BY <1>3 DEF Cancel, CancelSeen, CancelSet, IInv, StartedByMain, WorkerLaunched, StopHasCause,
           WorkerCtxDone, WorkerDoneBeforeClose
  <2>. QED
    BY <2>2, <2>3, <2>4, <2>5, <2>6 DEF IInv
<1>4. CASE Wait
  BY <1>4 DEF Wait, WgAdded, IInv, TypeOK, StartedByMain, WorkerLaunched, StopHasCause, NoRequestLeft,
       ZeroIsWhole, WorkerDoneBeforeClose, RefusedOnlyAfterTimeout, Busy, InUse, WorkerCtxDone,
       Main, Starter, Worker, Handler, Server, Pool, Cause, Code
<1>5. CASE ClosePool
  <2>1. Busy' = Busy /\ (InUse' <=> InUse) /\ ~InUse
    BY <1>5 DEF ClosePool, IInv, TypeOK, Busy, InUse
  <2>2. TypeOK'
    BY <1>5 DEF ClosePool, IInv, TypeOK, Main, Pool
  <2>3. StartedByMain' /\ WorkerLaunched'
    BY <1>5, <2>1 DEF ClosePool, IInv, TypeOK, StartedByMain, WorkerLaunched
  <2>4. StopHasCause'
    BY <1>5, <2>1 DEF ClosePool, IInv, TypeOK, StopHasCause
  <2>5. NoRequestLeft' /\ ZeroIsWhole' /\ RefusedOnlyAfterTimeout'
    BY <1>5, <2>1 DEF ClosePool, IInv, StartedByMain, NoRequestLeft,
         ZeroIsWhole, RefusedOnlyAfterTimeout
  <2>6. WorkerDoneBeforeClose'
    BY <1>5 DEF ClosePool, IInv, StartedByMain, WorkerLaunched,
         StopHasCause, WorkerCtxDone, WorkerDoneBeforeClose
  <2>. QED
    BY <2>2, <2>3, <2>4, <2>5, <2>6 DEF IInv
<1>6. CASE Exit
  <2>1. Busy' = Busy /\ (InUse' <=> InUse)
    BY <1>6 DEF Exit, StopErr, IInv, TypeOK, Busy, InUse
  <2>2. TypeOK'
    BY <1>6 DEF Exit, StopErr, IInv, TypeOK, Main, Code
  <2>3. StartedByMain' /\ WorkerLaunched'
    BY <1>6, <2>1 DEF Exit, StopErr, IInv, TypeOK, StartedByMain, WorkerLaunched
  <2>4. StopHasCause'
    BY <1>6, <2>1 DEF Exit, StopErr, IInv, TypeOK, StopHasCause
  <2>5. NoRequestLeft' /\ ZeroIsWhole' /\ RefusedOnlyAfterTimeout'
    BY <1>6, <2>1 DEF Exit, StopErr, IInv, StartedByMain, StopHasCause, NoRequestLeft,
         ZeroIsWhole, RefusedOnlyAfterTimeout
  <2>6. WorkerDoneBeforeClose'
    BY <1>6 DEF Exit, StopErr, IInv, StartedByMain, WorkerLaunched,
         StopHasCause, WorkerCtxDone, WorkerDoneBeforeClose
  <2>. QED
    BY <2>2, <2>3, <2>4, <2>5, <2>6 DEF IInv
<1>. QED
  BY <1>1, <1>2, <1>3, <1>4, <1>5, <1>6

LEMMA StartAction ==
  ASSUME IInv, Start
  PROVE  IInv'
<1>1. CASE SetCancel
  <2>1. Busy' = Busy /\ (InUse' <=> InUse)
    BY <1>1 DEF SetCancel, StartStep, Running, IInv, TypeOK, Busy, InUse
  <2>2. TypeOK'
    BY <1>1 DEF SetCancel, StartStep, Running, IInv, TypeOK, Starter
  <2>3. StartedByMain' /\ WorkerLaunched'
    BY <1>1, <2>1 DEF SetCancel, StartStep, Running, IInv, TypeOK, StartedByMain, WorkerLaunched
  <2>4. StopHasCause'
    BY <1>1, <2>1 DEF SetCancel, StartStep, Running, IInv, TypeOK, StopHasCause
  <2>5. NoRequestLeft' /\ ZeroIsWhole' /\ RefusedOnlyAfterTimeout'
    BY <1>1, <2>1 DEF SetCancel, StartStep, Running, IInv, StartedByMain, NoRequestLeft,
         ZeroIsWhole, RefusedOnlyAfterTimeout
  <2>6. WorkerDoneBeforeClose'
    BY <1>1 DEF SetCancel, StartStep, Running, IInv, StartedByMain, WorkerLaunched,
         StopHasCause, WorkerCtxDone, WorkerDoneBeforeClose
  <2>. QED
    BY <2>2, <2>3, <2>4, <2>5, <2>6 DEF IInv
<1>2. CASE WgAdd
  <2>1. Busy' = Busy /\ (InUse' <=> InUse)
    BY <1>2 DEF WgAdd, StartStep, Running, IInv, TypeOK, Busy, InUse
  <2>2. TypeOK'
    BY <1>2 DEF WgAdd, StartStep, Running, IInv, TypeOK, Starter
  <2>3. StartedByMain' /\ WorkerLaunched'
    BY <1>2, <2>1 DEF WgAdd, StartStep, Running, IInv, TypeOK, StartedByMain, WorkerLaunched
  <2>4. StopHasCause'
    BY <1>2, <2>1 DEF WgAdd, StartStep, Running, IInv, TypeOK, StopHasCause
  <2>5. NoRequestLeft' /\ ZeroIsWhole' /\ RefusedOnlyAfterTimeout'
    BY <1>2, <2>1 DEF WgAdd, StartStep, Running, IInv, StartedByMain, NoRequestLeft,
         ZeroIsWhole, RefusedOnlyAfterTimeout
  <2>6. WorkerDoneBeforeClose'
    BY <1>2 DEF WgAdd, StartStep, Running, IInv, StartedByMain, WorkerLaunched,
         StopHasCause, WorkerCtxDone, WorkerDoneBeforeClose
  <2>. QED
    BY <2>2, <2>3, <2>4, <2>5, <2>6 DEF IInv
<1>3. CASE GoWorker
  BY <1>3 DEF GoWorker, StartStep, Running, IInv, TypeOK, StartedByMain, WorkerLaunched, StopHasCause, NoRequestLeft,
       ZeroIsWhole, WorkerDoneBeforeClose, RefusedOnlyAfterTimeout, Busy, InUse, WorkerCtxDone,
       Main, Starter, Worker, Handler, Server, Pool, Cause, Code
<1>4. CASE Listen
  BY <1>4 DEF Listen, StartStep, Running, IInv, TypeOK, StartedByMain, WorkerLaunched, StopHasCause, NoRequestLeft,
       ZeroIsWhole, WorkerDoneBeforeClose, RefusedOnlyAfterTimeout, Busy, InUse, WorkerCtxDone,
       Main, Starter, Worker, Handler, Server, Pool, Cause, Code
<1>5. CASE StartReturns
  <2>1. Busy' = Busy /\ (InUse' <=> InUse)
    BY <1>5 DEF StartReturns, StartStep, Running, IInv, TypeOK, Busy, InUse
  <2>2. TypeOK'
    BY <1>5 DEF StartReturns, StartStep, Running, IInv, TypeOK, Starter, Server
  <2>3. StartedByMain' /\ WorkerLaunched'
    BY <1>5, <2>1 DEF StartReturns, StartStep, Running, IInv, TypeOK, StartedByMain, WorkerLaunched
  <2>4. StopHasCause'
    BY <1>5, <2>1 DEF StartReturns, StartStep, Running, IInv, TypeOK, StopHasCause
  <2>5. NoRequestLeft' /\ ZeroIsWhole' /\ RefusedOnlyAfterTimeout'
    BY <1>5, <2>1 DEF StartReturns, StartStep, Running, IInv, StartedByMain, NoRequestLeft, ZeroIsWhole,
           RefusedOnlyAfterTimeout
  <2>6. WorkerDoneBeforeClose'
    BY <1>5 DEF StartReturns, StartStep, Running, IInv, StartedByMain, WorkerLaunched, StopHasCause,
           WorkerCtxDone, WorkerDoneBeforeClose
  <2>. QED
    BY <2>2, <2>3, <2>4, <2>5, <2>6 DEF IInv
<1>. QED
  BY <1>1, <1>2, <1>3, <1>4, <1>5 DEF Start, Launch

LEMMA WorkStep ==
  ASSUME IInv, Work
  PROVE  IInv'
<1>1. CASE WorkerAcquires
  <2>1. Busy' = Busy /\ pool = "open"
    BY <1>1 DEF WorkerAcquires, WorkerStep, Running, IInv, TypeOK, Busy, InUse
  <2>2. TypeOK'
    BY <1>1 DEF WorkerAcquires, WorkerStep, Running, IInv, TypeOK, Worker
  <2>3. StartedByMain' /\ WorkerLaunched'
    BY <1>1, <2>1 DEF WorkerAcquires, WorkerStep, Running, IInv, TypeOK, StartedByMain, WorkerLaunched
  <2>4. StopHasCause'
    BY <1>1, <2>1 DEF WorkerAcquires, WorkerStep, Running, IInv, TypeOK, StopHasCause
  <2>5. NoRequestLeft' /\ ZeroIsWhole' /\ RefusedOnlyAfterTimeout'
    BY <1>1, <2>1 DEF WorkerAcquires, WorkerStep, Running, IInv, StartedByMain, NoRequestLeft,
         ZeroIsWhole, RefusedOnlyAfterTimeout
  <2>6. WorkerDoneBeforeClose'
    BY <1>1 DEF WorkerAcquires, WorkerStep, Running, IInv, StartedByMain, WorkerLaunched,
         StopHasCause, WorkerCtxDone, WorkerDoneBeforeClose
  <2>. QED
    BY <2>2, <2>3, <2>4, <2>5, <2>6 DEF IInv
<1>2. CASE WorkerReleases
  <2>1. Busy' = Busy /\ (InUse' => InUse)
    BY <1>2 DEF WorkerReleases, WorkerStep, Running, IInv, TypeOK, Busy, InUse
  <2>2. TypeOK'
    <3>1. UNCHANGED <<main, start, handler, http, pool, signal, cancelled, cause, timedOut, refused, code>>
      BY <1>2 DEF WorkerReleases, WorkerStep
    <3>2. worker' = "polling"
      BY <1>2 DEF WorkerReleases, WorkerStep, IInv, TypeOK
    <3>. QED
      BY <3>1, <3>2 DEF IInv, TypeOK, Main, Worker
  <2>3. StartedByMain' /\ WorkerLaunched'
    BY <1>2, <2>1 DEF WorkerReleases, WorkerStep, Running, IInv, TypeOK, StartedByMain, WorkerLaunched
  <2>4. StopHasCause'
    BY <1>2, <2>1 DEF WorkerReleases, WorkerStep, Running, IInv, TypeOK, StopHasCause
  <2>5. NoRequestLeft' /\ ZeroIsWhole' /\ RefusedOnlyAfterTimeout'
    BY <1>2, <2>1 DEF WorkerReleases, WorkerStep, Running, IInv, StartedByMain, NoRequestLeft, ZeroIsWhole,
           RefusedOnlyAfterTimeout
  <2>6. WorkerDoneBeforeClose'
    BY <1>2 DEF WorkerReleases, WorkerStep, Running, IInv, StartedByMain, WorkerLaunched, StopHasCause,
           WorkerCtxDone, WorkerDoneBeforeClose
  <2>. QED
    BY <2>2, <2>3, <2>4, <2>5, <2>6 DEF IInv
<1>3. CASE WorkerReturns
  <2>1. Busy' = Busy /\ (InUse' <=> InUse)
    BY <1>3 DEF WorkerReturns, WorkerStep, Running, IInv, TypeOK, Busy, InUse
  <2>2. TypeOK'
    <3>1. UNCHANGED <<main, start, handler, http, pool, signal, cancelled, cause, timedOut, refused, code>>
      BY <1>3 DEF WorkerReturns, WorkerStep
    <3>2. worker' = "done"
      BY <1>3 DEF WorkerReturns, WorkerStep, IInv, TypeOK
    <3>. QED
      BY <3>1, <3>2 DEF IInv, TypeOK, Main, Worker
  <2>3. StartedByMain' /\ WorkerLaunched'
    BY <1>3, <2>1 DEF WorkerReturns, WorkerStep, Running, IInv, TypeOK, StartedByMain, WorkerLaunched
  <2>4. StopHasCause'
    BY <1>3, <2>1 DEF WorkerReturns, WorkerStep, Running, IInv, TypeOK, StopHasCause
  <2>5. NoRequestLeft' /\ ZeroIsWhole' /\ RefusedOnlyAfterTimeout'
    BY <1>3, <2>1 DEF WorkerReturns, WorkerStep, Running, IInv, StartedByMain, NoRequestLeft, ZeroIsWhole,
           RefusedOnlyAfterTimeout
  <2>6. WorkerDoneBeforeClose'
    BY <1>3 DEF WorkerReturns, WorkerStep, Running, IInv, StartedByMain, WorkerLaunched, StopHasCause,
           WorkerCtxDone, WorkerDoneBeforeClose
  <2>. QED
    BY <2>2, <2>3, <2>4, <2>5, <2>6 DEF IInv
<1>. QED
  BY <1>1, <1>2, <1>3 DEF Work

(* A request is accepted only while the server listens, and takes a        *)
(* connection only while the pool is open.                                 *)
LEMMA HandleStep ==
  ASSUME IInv, NEW h \in Handlers, Accept(h) \/ Handle(h)
  PROVE  IInv'
<1>1. CASE Accept(h)
  <2>1. http = "listening" /\ (InUse' <=> InUse)
    BY <1>1 DEF Accept, HandlerStep, Running, IInv, TypeOK, Busy, InUse
  <2>2. TypeOK'
    BY <1>1 DEF Accept, HandlerStep, Running, IInv, TypeOK, Handler
  <2>3. StartedByMain' /\ WorkerLaunched'
    BY <1>1, <2>1 DEF Accept, HandlerStep, Running, IInv, TypeOK, StartedByMain, WorkerLaunched
  <2>4. StopHasCause'
    BY <1>1, <2>1 DEF Accept, HandlerStep, Running, IInv, TypeOK, StopHasCause
  <2>5. NoRequestLeft' /\ ZeroIsWhole' /\ RefusedOnlyAfterTimeout'
    BY <1>1, <2>1 DEF Accept, HandlerStep, Running, IInv, StartedByMain, NoRequestLeft,
         ZeroIsWhole, RefusedOnlyAfterTimeout
  <2>6. WorkerDoneBeforeClose'
    BY <1>1 DEF Accept, HandlerStep, Running, IInv, StartedByMain, WorkerLaunched,
         StopHasCause, WorkerCtxDone, WorkerDoneBeforeClose
  <2>. QED
    BY <2>2, <2>3, <2>4, <2>5, <2>6 DEF IInv
<1>2. CASE Acquire(h)
  <2>1. Busy' = Busy /\ Busy # {} /\ pool = "open"
    BY <1>2 DEF Acquire, HandlerStep, Running, IInv, TypeOK, Busy, InUse
  <2>2. TypeOK'
    <3>1. UNCHANGED <<main, start, worker, http, pool, signal, cancelled, cause, timedOut, refused, code>>
      BY <1>2 DEF Acquire, HandlerStep
    <3>2. handler' \in [Handlers -> Handler]
      BY <1>2 DEF Acquire, HandlerStep, IInv, TypeOK, Handler
    <3>. QED
      BY <3>1, <3>2 DEF IInv, TypeOK, Main, Worker
  <2>3. StartedByMain' /\ WorkerLaunched'
    BY <1>2, <2>1 DEF Acquire, HandlerStep, Running, IInv, TypeOK, StartedByMain, WorkerLaunched
  <2>4. StopHasCause'
    BY <1>2, <2>1 DEF Acquire, HandlerStep, Running, IInv, TypeOK, StopHasCause
  <2>5. NoRequestLeft' /\ ZeroIsWhole' /\ RefusedOnlyAfterTimeout'
    BY <1>2, <2>1 DEF Acquire, HandlerStep, Running, IInv, StartedByMain, NoRequestLeft, ZeroIsWhole,
           RefusedOnlyAfterTimeout
  <2>6. WorkerDoneBeforeClose'
    BY <1>2 DEF Acquire, HandlerStep, Running, IInv, StartedByMain, WorkerLaunched, StopHasCause,
           WorkerCtxDone, WorkerDoneBeforeClose
  <2>. QED
    BY <2>2, <2>3, <2>4, <2>5, <2>6 DEF IInv
<1>3. CASE Refuse(h)
  <2>1. Busy' \subseteq Busy /\ Busy # {} /\ (InUse' => InUse)
    BY <1>3 DEF Refuse, HandlerStep, Running, IInv, TypeOK, Busy, InUse
  <2>2. TypeOK'
    BY <1>3 DEF Refuse, HandlerStep, Running, IInv, TypeOK, Handler
  <2>3. StartedByMain' /\ WorkerLaunched'
    BY <1>3, <2>1 DEF Refuse, HandlerStep, Running, IInv, TypeOK, StartedByMain, WorkerLaunched
  <2>4. StopHasCause'
    BY <1>3, <2>1 DEF Refuse, HandlerStep, Running, IInv, TypeOK, StopHasCause
  <2>5. NoRequestLeft' /\ ZeroIsWhole' /\ RefusedOnlyAfterTimeout'
    BY <1>3, <2>1 DEF Refuse, HandlerStep, Running, IInv, TypeOK, Main, StartedByMain, NoRequestLeft,
         ZeroIsWhole, RefusedOnlyAfterTimeout
  <2>6. WorkerDoneBeforeClose'
    BY <1>3 DEF Refuse, HandlerStep, Running, IInv, StartedByMain, WorkerLaunched,
         StopHasCause, WorkerCtxDone, WorkerDoneBeforeClose
  <2>. QED
    BY <2>2, <2>3, <2>4, <2>5, <2>6 DEF IInv
<1>4. CASE Reply(h)
  <2>1. Busy' \subseteq Busy /\ (InUse' => InUse)
    BY <1>4 DEF Reply, HandlerStep, Running, IInv, TypeOK, Busy, InUse
  <2>2. TypeOK'
    BY <1>4 DEF Reply, HandlerStep, Running, IInv, TypeOK, Handler
  <2>3. StartedByMain' /\ WorkerLaunched'
    BY <1>4, <2>1 DEF Reply, HandlerStep, Running, IInv, TypeOK, StartedByMain, WorkerLaunched
  <2>4. StopHasCause'
    BY <1>4, <2>1 DEF Reply, HandlerStep, Running, IInv, TypeOK, StopHasCause
  <2>5. NoRequestLeft' /\ ZeroIsWhole' /\ RefusedOnlyAfterTimeout'
    BY <1>4, <2>1 DEF Reply, HandlerStep, Running, IInv, StartedByMain, NoRequestLeft, ZeroIsWhole,
           RefusedOnlyAfterTimeout
  <2>6. WorkerDoneBeforeClose'
    BY <1>4 DEF Reply, HandlerStep, Running, IInv, StartedByMain, WorkerLaunched, StopHasCause,
           WorkerCtxDone, WorkerDoneBeforeClose
  <2>. QED
    BY <2>2, <2>3, <2>4, <2>5, <2>6 DEF IInv
<1>. QED
  BY <1>1, <1>2, <1>3, <1>4 DEF Handle

LEMMA Invariance == Spec => []IInv
<1>1. IInv /\ [Next]_vars => IInv'
  <2>. SUFFICES ASSUME IInv, [Next]_vars PROVE IInv'
    OBVIOUS
  <2>1. CASE Next
    BY <2>1, SignalStep, SelectStep, StopStep, StartAction, WorkStep, HandleStep DEF Next, Run
  <2>2. CASE UNCHANGED vars
    <3>1. Busy' = Busy /\ (InUse' <=> InUse)
      BY <2>2 DEF vars, IInv, TypeOK, Busy, InUse
    <3>2. TypeOK'
      <4>1. UNCHANGED <<main, start, worker, handler, http, pool, signal, cancelled, cause, timedOut, refused, code>>
        BY <2>2 DEF vars
      <4>. QED
        BY <4>1 DEF IInv, TypeOK
    <3>3. StartedByMain' /\ WorkerLaunched'
      BY <2>2, <3>1 DEF vars, IInv, TypeOK, StartedByMain, WorkerLaunched
    <3>4. StopHasCause'
      BY <2>2, <3>1 DEF vars, IInv, TypeOK, StopHasCause
    <3>5. NoRequestLeft' /\ ZeroIsWhole' /\ RefusedOnlyAfterTimeout'
      BY <2>2, <3>1 DEF vars, IInv, StartedByMain, NoRequestLeft, ZeroIsWhole,
               RefusedOnlyAfterTimeout
    <3>6. WorkerDoneBeforeClose'
      BY <2>2 DEF vars, IInv, StartedByMain, WorkerLaunched, StopHasCause,
               WorkerCtxDone, WorkerDoneBeforeClose
    <3>. QED
      BY <3>2, <3>3, <3>4, <3>5, <3>6 DEF IInv
  <2>. QED
    BY <2>1, <2>2
<1>. QED
  BY <1>1, Initially, PTL DEF Spec

-----------------------------------------------------------------------------
(* Every part of the process is in one of the places its code has.         *)
THEOREM TypeCorrect == Spec => []TypeOK
<1>1. IInv => TypeOK
  BY DEF IInv
<1>. QED
  BY <1>1, Invariance, PTL

(* app.Stop never closes the pool under the worker, not even when a signal *)
(* overtakes Start and Stop finds nothing to cancel and to wait for.       *)
THEOREM WorkerOutlivedByPool == Spec => []WorkerDoneBeforeClose
<1>1. IInv => WorkerDoneBeforeClose
  BY DEF IInv
<1>. QED
  BY <1>1, Invariance, PTL

(* No request that e.Shutdown waited for finds the pool closed, however    *)
(* many are in progress.                                                   *)
THEOREM RefusedOnlyIfTimedOut == Spec => []RefusedOnlyAfterTimeout
<1>1. IInv => RefusedOnlyAfterTimeout
  BY DEF IInv
<1>. QED
  BY <1>1, Invariance, PTL

(* Exit status 0 means that a signal asked for the shutdown and that       *)
(* nothing was cut off by it.                                              *)
THEOREM ZeroMeansGraceful == Spec => []SuccessMeansGraceful
<1>1. IInv => SuccessMeansGraceful
  BY DEF IInv, ZeroIsWhole, RefusedOnlyAfterTimeout, SuccessMeansGraceful
<1>. QED
  BY <1>1, Invariance, PTL

(* Stop never waits for a worker whose context nobody will cancel, nor for *)
(* one that was added and is not launched, and the pool is never kept open *)
(* by the worker: only requests that Shutdown gave up on can delay it.     *)
THEOREM StopIsNotStuck == Spec => []StopWaitsEnd
<1>1. IInv => StopWaitsEnd
  <2>. SUFFICES ASSUME IInv PROVE StopWaitsEnd
    OBVIOUS
  <2>1. main = "wait" /\ WgAdded => WorkerCtxDone /\ (worker = "none" => start = "added")
    BY DEF IInv, StopHasCause, WorkerLaunched, WorkerCtxDone, WgAdded
  <2>2. main = "close" => pool = "closing" /\ (~timedOut => Busy = {})
    BY DEF IInv, StartedByMain, NoRequestLeft
  <2>3. pool = "closing" => worker # "using"
    BY DEF IInv, WorkerDoneBeforeClose
  <2>4. Busy = {} /\ worker # "using" => ~InUse
    BY DEF Busy, InUse
  <2>. QED
    BY <2>1, <2>2, <2>3, <2>4 DEF StopWaitsEnd
<1>. QED
  BY <1>1, Invariance, PTL
=============================================================================
