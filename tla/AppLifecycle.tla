---------------------------- MODULE AppLifecycle ----------------------------
(***************************************************************************)
(* The life of one process: run of cmd/app/main.go with App.New, Start and *)
(* Stop.  main waits for a signal or for Start, which runs in a goroutine  *)
(* of its own, to return; Start launches the worker in a third one; HTTP   *)
(* handlers run beside them.  Worker and handlers use connections of the   *)
(* pool that Stop closes.                                                  *)
(***************************************************************************)
CONSTANT Handlers   \* requests that may be in progress at once

VARIABLES
  main,      \* where run is
  start,     \* where the goroutine is that calls Start
  worker,    \* the goroutine of Worker.Run
  handler,   \* handler[h]: an HTTP request, "using" while it has a connection
  http,      \* the HTTP server
  pool,      \* the connection pool
  signal,    \* ctx is done: SIGINT or SIGTERM was caught
  cancelled, \* Stop has called a.cancel
  cause,     \* which case of the select was taken
  timedOut,  \* Shutdown gave up waiting for requests
  refused,   \* history: a request found the pool closed
  code       \* the exit status

vars == <<main, start, worker, handler, http, pool, signal, cancelled, cause, timedOut,
          refused, code>>

-----------------------------------------------------------------------------
(* Where run, the goroutines, the server and the pool can be.              *)
Main    == {"new", "select", "shutdown", "draining", "cancel", "wait", "close", "stopped", "exited"}
Starter == {"none", "spawned", "cancel set", "added", "launched", "serving", "returned"}
Worker  == {"none", "polling", "using", "done"}
Handler == {"idle", "accepted", "using"}
Server  == {"new", "listening", "failed", "shut"}
Pool    == {"none", "open", "closing", "closed"}
Cause   == {"none", "signal", "server"}
Code    == {"none", "0", "1"}

Init ==
  /\ main = "new"
  /\ start = "none"
  /\ worker = "none"
  /\ handler = [h \in Handlers |-> "idle"]
  /\ http = "new"
  /\ pool = "none"
  /\ signal = FALSE
  /\ cancelled = FALSE
  /\ cause = "none"
  /\ timedOut = FALSE
  /\ refused = FALSE
  /\ code = "none"

Running == main # "exited"

(* Mutant: the worker is started with a context of its own.                *)
WorkerCtxDone_Background == cancelled

(* workerCtx is derived from the context that a signal cancels.            *)
WorkerCtxDone == signal \/ cancelled

(* Start has assigned a.cancel; it has called a.wg.Add(1).                 *)
CancelSet == start \in {"cancel set", "added", "launched", "serving", "returned"}
WgAdded   == start \in {"added", "launched", "serving", "returned"}

Busy == {h \in Handlers : handler[h] # "idle"}

InUse == worker = "using" \/ \E h \in Handlers : handler[h] = "using"

-----------------------------------------------------------------------------
(* The environment.                                                        *)

Signal ==
  /\ Running
  /\ signal' = TRUE
  /\ UNCHANGED <<main, start, worker, handler, http, pool, cancelled, cause, timedOut,
                 refused, code>>

-----------------------------------------------------------------------------
(* run up to the select.                                                   *)

(* Mutant: initDB forgets to assign a.dbPool.                              *)
dbPool_Unset == "nil"

dbPool == "open"

New ==
  /\ main = "new"
  /\ main' = "select"
  /\ start' = "spawned"
  /\ pool' = dbPool
  /\ UNCHANGED <<worker, handler, http, signal, cancelled, cause, timedOut, refused, code>>

(* initDB fails; migrateDB or initEcho fails, and the pool stays open; or  *)
(* worker.New fails, and New closes the pool.                              *)
NewFails ==
  /\ main = "new"
  /\ main' = "exited"
  /\ code' = "1"
  /\ pool' \in {"none", "open", "closed"}
  /\ UNCHANGED <<start, worker, handler, http, signal, cancelled, cause, timedOut, refused>>

SelectErrChan ==
  /\ main = "select"
  /\ start = "returned"
  /\ main' = "shutdown"
  /\ cause' = "server"
  /\ UNCHANGED <<start, worker, handler, http, pool, signal, cancelled, timedOut, refused, code>>

SelectDone ==
  /\ main = "select"
  /\ signal
  /\ main' = "shutdown"
  /\ cause' = "signal"
  /\ UNCHANGED <<start, worker, handler, http, pool, signal, cancelled, timedOut, refused, code>>

-----------------------------------------------------------------------------
(* Stop.                                                                   *)

(* e.Shutdown stops listening, also on a server that has yet to start.     *)
Shutdown ==
  /\ main = "shutdown"
  /\ main' = "draining"
  /\ http' = "shut"
  /\ UNCHANGED <<start, worker, handler, pool, signal, cancelled, cause, timedOut, refused, code>>

(* Mutant: Stop does not wait for requests in progress.                    *)
Drained_AtOnce == TRUE

Drained == Busy = {}

(* It returns when no request is left, or after ten seconds.               *)
ShutdownReturns ==
  /\ main = "draining"
  /\ \/ Drained /\ UNCHANGED timedOut
     \/ ~Drained /\ timedOut' = TRUE
  /\ main' = "cancel"
  /\ UNCHANGED <<start, worker, handler, http, pool, signal, cancelled, cause, refused, code>>

(* Mutant: Stop leaves the cancelling to the signal.                       *)
CancelSeen_Never == {FALSE}

(* Whether a.cancel is found to be set.  After a signal nothing orders the *)
(* assignment in Start before the read in Stop, which may then see nil.    *)
CancelSeen == IF cause = "signal" THEN {CancelSet, FALSE} ELSE {CancelSet}

Cancel ==
  /\ main = "cancel"
  /\ cancelled' \in CancelSeen
  /\ main' = "wait"
  /\ UNCHANGED <<start, worker, handler, http, pool, signal, cause, timedOut, refused, code>>

(* wg.Wait returns; dbPool.Close refuses connections from now on.          *)
Wait ==
  /\ main = "wait"
  /\ WgAdded => worker = "done"
  /\ main' = "close"
  /\ pool' = "closing"
  /\ UNCHANGED <<start, worker, handler, http, signal, cancelled, cause, timedOut, refused, code>>

(* dbPool.Close returns when every connection was given back.              *)
ClosePool ==
  /\ main = "close"
  /\ ~InUse
  /\ main' = "stopped"
  /\ pool' = "closed"
  /\ UNCHANGED <<start, worker, handler, http, signal, cancelled, cause, timedOut, refused, code>>

(* Mutant: the error of Shutdown is logged and forgotten.                  *)
StopErr_Ignored == FALSE

StopErr == timedOut

(* run returns, and with it the process ends; closing Redis may fail.      *)
Exit ==
  /\ main = "stopped"
  /\ main' = "exited"
  /\ \/ code' = IF cause = "signal" /\ ~StopErr THEN "0" ELSE "1"
     \/ code' = "1"
  /\ UNCHANGED <<start, worker, handler, http, pool, signal, cancelled, cause, timedOut, refused>>

-----------------------------------------------------------------------------
(* Start.                                                                  *)

StartStep(from, to) ==
  /\ Running
  /\ start = from
  /\ start' = to
  /\ UNCHANGED <<main, handler, pool, signal, cancelled, cause, timedOut, refused, code>>

SetCancel == StartStep("spawned", "cancel set") /\ UNCHANGED <<worker, http>>

WgAdd == StartStep("cancel set", "added") /\ UNCHANGED <<worker, http>>

GoWorker == StartStep("added", "launched") /\ worker' = "polling" /\ UNCHANGED http

Listen ==
  /\ StartStep("launched", "serving")
  /\ http = "new" /\ http' = "listening"
  /\ UNCHANGED worker

(* e.Start returns: ErrServerClosed after Shutdown, or another error       *)
(* because it cannot listen or accept.                                     *)
StartReturns ==
  /\ \/ StartStep("launched", "returned")
     \/ StartStep("serving", "returned")
  /\ http' = IF http = "shut" THEN "shut" ELSE "failed"
  /\ UNCHANGED worker

-----------------------------------------------------------------------------
(* Worker.Run: polls until its context is done.                            *)

WorkerStep(from, to) ==
  /\ Running
  /\ worker = from
  /\ worker' = to
  /\ UNCHANGED <<main, start, handler, http, pool, signal, cancelled, cause, timedOut,
                 refused, code>>

WorkerAcquires == ~WorkerCtxDone /\ pool = "open" /\ WorkerStep("polling", "using")

(* The statement ends, or its context is done.                             *)
WorkerReleases == WorkerStep("using", "polling")

WorkerReturns == WorkerCtxDone /\ WorkerStep("polling", "done")

-----------------------------------------------------------------------------
(* A request: it is accepted, takes a connection of the pool if it needs   *)
(* one, gives it back, and is answered.                                    *)

HandlerStep(h, from, to) ==
  /\ Running
  /\ handler[h] = from
  /\ handler' = [handler EXCEPT ![h] = to]
  /\ UNCHANGED <<main, start, worker, http, pool, signal, cancelled, cause, timedOut, code>>

Accept(h) ==
  http = "listening" /\ HandlerStep(h, "idle", "accepted") /\ UNCHANGED refused

Acquire(h) ==
  pool = "open" /\ HandlerStep(h, "accepted", "using") /\ UNCHANGED refused

(* The pool is closed: the request is answered with status 500.            *)
Refuse(h) ==
  pool # "open" /\ HandlerStep(h, "accepted", "idle") /\ refused' = TRUE

Reply(h) ==
  /\ HandlerStep(h, "accepted", "idle") \/ HandlerStep(h, "using", "idle")
  /\ UNCHANGED refused

-----------------------------------------------------------------------------
Run ==
  \/ New \/ NewFails \/ SelectErrChan \/ SelectDone
  \/ Shutdown \/ ShutdownReturns \/ Cancel \/ Wait \/ ClosePool \/ Exit

Launch == SetCancel \/ WgAdd \/ GoWorker

Start == Launch \/ Listen \/ StartReturns

Work == WorkerAcquires \/ WorkerReleases \/ WorkerReturns

Handle(h) == Acquire(h) \/ Refuse(h) \/ Reply(h)

Next ==
  \/ Signal \/ Run \/ Start \/ Work
  \/ \E h \in Handlers : Accept(h) \/ Handle(h)

(* Goroutines are scheduled, and statements end.  Nothing makes a server   *)
(* that serves return, so of Start only the launch of the worker is fair.  *)
Spec ==
  /\ Init /\ [][Next]_vars
  /\ WF_vars(Run) /\ WF_vars(Launch)
  /\ WF_vars(Work)
  /\ \A h \in Handlers : WF_vars(Handle(h))

-----------------------------------------------------------------------------
TypeOK ==
  /\ main \in Main /\ start \in Starter /\ worker \in Worker
  /\ handler \in [Handlers -> Handler]
  /\ http \in Server /\ pool \in Pool
  /\ signal \in BOOLEAN /\ cancelled \in BOOLEAN
  /\ cause \in Cause
  /\ timedOut \in BOOLEAN /\ refused \in BOOLEAN
  /\ code \in Code

(* When the pool is closed the worker is idle for good: it has returned,   *)
(* or a signal that came before Start makes it return before it does       *)
(* anything, although Stop could neither cancel it nor wait for it.        *)
WorkerDoneBeforeClose ==
  pool \in {"closing", "closed"} => worker # "using" /\ (worker = "polling" => WorkerCtxDone)

(* A request that was accepted is served before the pool is closed, unless *)
(* it outlasted the ten seconds of Shutdown.                               *)
RefusedOnlyAfterTimeout == refused => timedOut

(* The process reports success only for a shutdown that a signal asked for *)
(* and that left nothing undone: no request, no connection, no worker      *)
(* statement.                                                              *)
SuccessMeansGraceful ==
  code = "0" => signal /\ Busy = {} /\ ~refused /\ ~InUse /\ pool = "closed"

(* What Stop waits for has a reason to end.  At wg.Wait the context of the *)
(* worker is done, whether the signal or a.cancel did it, and the worker   *)
(* that was added exists or is about to; dbPool.Close waits for requests   *)
(* that outlasted the ten seconds, and never for the worker.               *)
StopWaitsEnd ==
  /\ main = "wait" /\ WgAdded => WorkerCtxDone /\ (worker = "none" => start = "added")
  /\ main = "close" /\ InUse => timedOut /\ worker # "using"

(* Once a signal was caught or Start has returned, the process ends: the   *)
(* goroutines do not wait for each other for ever.                         *)
EveryStopEnds == signal \/ start = "returned" ~> main = "exited"
=============================================================================
