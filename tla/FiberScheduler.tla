-------------------------- MODULE FiberScheduler --------------------------
(***************************************************************************)
(* The N:M fiber scheduler of src/ancfl/scheduler.{h,cc} with the fibers   *)
(* of src/ancfl/fiber.cc that it switches between, and the semaphore those *)
(* fibers block on (FiberSemaphore, src/ancfl/mutex.cc).                   *)
(*                                                                         *)
(* Worker threads execute Scheduler::run.  Everything between two accesses *)
(* to shared state is one step: taking an entry under m_mutex, entering    *)
(* the fiber, each call the fiber makes, writing its state, leaving its    *)
(* stack, decrementing the active counter, reading the state back and      *)
(* writing it.  A callback entry of the queue is a fiber in state INIT: the *)
(* worker builds (or resets) a fiber for it and treats it the same way.    *)
(***************************************************************************)
EXTENDS Naturals, Sequences, FiniteSets, SequencesExt

CONSTANTS
  Threads,      \* threads that execute Scheduler::run
  Caller,       \* {} or {the thread that built the scheduler with use_caller}
  Fibers,       \* the fibers the clients create
  Ops,          \* which scheduler calls the fibers' code makes
  MaxPermits,   \* bound on the permits the clients release
  AnyThread,          \* FiberAndThread::thread = -1: any thread may run the entry
  NoFiber       \* a worker holds no entry

Calls == {"wait", "notify", "ready", "switch", "spawn", "wake", "throw"}

ASSUME ThreadsAssumption == IsFiniteSet(Threads) /\ Threads # {} /\ AnyThread \notin Threads
ASSUME CallerAssumption  == Caller \subseteq Threads
ASSUME FibersAssumption  == NoFiber \notin Fibers
ASSUME OpsAssumption     == Ops \subseteq Calls
ASSUME PermitsAssumption == MaxPermits \in Nat

VARIABLES
  queue,     \* m_fibers: the entries waiting for a worker
  fstate,    \* Fiber::m_state
  pc,        \* where each worker is in run()
  cur,       \* the fiber a worker took (ft.fiber or cb_fiber)
  active,    \* m_activeThreadCount
  idleTerm,  \* the worker's idle fiber has returned
  stopReq,   \* m_autoStop && m_stopping
  permits,   \* FiberSemaphore::m_concurrency
  waiters    \* FiberSemaphore::m_waiters

vars == <<queue, fstate, pc, cur, active, idleTerm, stopReq, permits, waiters>>

States == {"INIT", "HOLD", "EXEC", "TERM", "READY", "EXCEPT"}
Places == {"parked", "pick", "swapin", "run", "hold", "swap", "out",
           "check", "sethold", "idle", "exit"}
Entry  == [fiber : Fibers, thread : Threads \cup {AnyThread}]

Over(f)   == fstate[f] \in {"TERM", "EXCEPT"}
Busy(t)   == pc[t] \in {"swapin", "run", "hold", "swap", "out"}
OnFiber(t) == pc[t] \in {"run", "hold", "swap"}

\* Two workers execute on one fiber's stack.  swapIn has then resumed a
\* context nobody saved: what follows is undefined, and the model stops there.
Torn == \E t, u \in Threads : t # u /\ OnFiber(t) /\ OnFiber(u) /\ cur[t] = cur[u]

\* An assertion of swapIn or of a yield has failed: the program aborts.
Aborted ==
  \E t \in Threads :
    \/ pc[t] = "hold" /\ fstate[cur[t]] # "EXEC"
    \/ pc[t] = "swapin" /\ fstate[cur[t]] = "EXEC"

Running == ~Torn /\ ~Aborted

\* Variant: stopping() that does not look at the queue.
StoppingIgnoresQueue == stopReq /\ active = 0

\* Scheduler::stopping()
Stopping == stopReq /\ queue = <<>> /\ active = 0

Goto(t, place) == pc' = [pc EXCEPT ![t] = place]
SetState(f, s) == fstate' = [fstate EXCEPT ![f] = s]
Schedule(f, t) == queue' = Append(queue, [fiber |-> f, thread |-> t])

Init ==
  /\ queue = <<>>
  /\ fstate = [f \in Fibers |-> "INIT"]
  /\ pc = [t \in Threads |-> IF t \in Caller THEN "parked" ELSE "pick"]
  /\ cur = [t \in Threads |-> NoFiber]
  /\ active = 0
  /\ idleTerm = [t \in Threads |-> FALSE]
  /\ stopReq = FALSE
  /\ permits = 0
  /\ waiters = <<>>

---------------------------------------------------------------------------
(* The worker loop: Scheduler::run *)

\* Entries this worker may take: not pinned elsewhere, not executing now.
Suitable(t) ==
  {i \in DOMAIN queue : /\ queue[i].thread \in {AnyThread, t}
                        /\ fstate[queue[i].fiber] # "EXEC"}

\* Variant: the newest entry first.
TakeNewest(t) ==
  /\ pc[t] = "pick"
  /\ \E i \in Suitable(t) :
       /\ \A j \in Suitable(t) : i >= j
       /\ cur' = [cur EXCEPT ![t] = queue[i].fiber]
       /\ queue' = RemoveAt(queue, i)
  /\ active' = active + 1
  /\ Goto(t, "swapin")
  /\ UNCHANGED <<fstate, idleTerm, stopReq, permits, waiters>>

Take(t) ==
  /\ pc[t] = "pick"
  /\ \E i \in Suitable(t) :
       /\ \A j \in Suitable(t) : i <= j
       /\ cur' = [cur EXCEPT ![t] = queue[i].fiber]
       /\ queue' = RemoveAt(queue, i)
  /\ active' = active + 1
  /\ Goto(t, "swapin")
  /\ UNCHANGED <<fstate, idleTerm, stopReq, permits, waiters>>

\* Nothing to take: enter the idle fiber, or leave run() once it has returned.
TakeNone(t) ==
  /\ pc[t] = "pick"
  /\ Suitable(t) = {}
  /\ Goto(t, IF idleTerm[t] THEN "exit" ELSE "idle")
  /\ UNCHANGED <<queue, fstate, cur, active, idleTerm, stopReq, permits, waiters>>

\* Variant: a dropped entry keeps the worker counted as active.
DropEntryActive(t) ==
  /\ pc[t] = "swapin"
  /\ Over(cur[t])
  /\ cur' = [cur EXCEPT ![t] = NoFiber]
  /\ Goto(t, "pick")
  /\ UNCHANGED <<queue, fstate, active, idleTerm, stopReq, permits, waiters>>

\* The entry's fiber has finished meanwhile: the entry is dropped.
DropEntry(t) ==
  /\ pc[t] = "swapin"
  /\ Over(cur[t])
  /\ active' = active - 1
  /\ cur' = [cur EXCEPT ![t] = NoFiber]
  /\ Goto(t, "pick")
  /\ UNCHANGED <<queue, fstate, idleTerm, stopReq, permits, waiters>>

\* Fiber::swapIn; its assertion stops the program when the fiber executes.
SwapIn(t) ==
  /\ pc[t] = "swapin"
  /\ ~Over(cur[t])
  /\ fstate[cur[t]] # "EXEC"
  /\ SetState(cur[t], "EXEC")
  /\ Goto(t, "run")
  /\ UNCHANGED <<queue, cur, active, idleTerm, stopReq, permits, waiters>>

\* Variant: no decrement after the fiber left.
ReturnActive(t) ==
  /\ pc[t] = "out"
  /\ Goto(t, "check")
  /\ UNCHANGED <<queue, fstate, cur, active, idleTerm, stopReq, permits, waiters>>

\* Back on the worker's own stack.
Return(t) ==
  /\ pc[t] = "out"
  /\ active' = active - 1
  /\ Goto(t, "check")
  /\ UNCHANGED <<queue, fstate, cur, idleTerm, stopReq, permits, waiters>>

\* The state read back: READY is scheduled again, an ended fiber released.
CheckReady(t) ==
  /\ pc[t] = "check"
  /\ fstate[cur[t]] = "READY"
  /\ Schedule(cur[t], AnyThread)
  /\ cur' = [cur EXCEPT ![t] = NoFiber]
  /\ Goto(t, "pick")
  /\ UNCHANGED <<fstate, active, idleTerm, stopReq, permits, waiters>>

\* Variant: the ended fiber is not released.
CheckOverKeeps(t) ==
  /\ pc[t] = "check"
  /\ Over(cur[t])
  /\ Goto(t, "pick")
  /\ UNCHANGED <<queue, fstate, cur, active, idleTerm, stopReq, permits, waiters>>

CheckOver(t) ==
  /\ pc[t] = "check"
  /\ Over(cur[t])
  /\ cur' = [cur EXCEPT ![t] = NoFiber]
  /\ Goto(t, "pick")
  /\ UNCHANGED <<queue, fstate, active, idleTerm, stopReq, permits, waiters>>

CheckOther(t) ==
  /\ pc[t] = "check"
  /\ fstate[cur[t]] # "READY" /\ ~Over(cur[t])
  /\ Goto(t, "sethold")
  /\ UNCHANGED <<queue, fstate, cur, active, idleTerm, stopReq, permits, waiters>>

\* ... and any other state is overwritten, by a write of its own.
SetHold(t) ==
  /\ pc[t] = "sethold"
  /\ SetState(cur[t], "HOLD")
  /\ cur' = [cur EXCEPT ![t] = NoFiber]
  /\ Goto(t, "pick")
  /\ UNCHANGED <<queue, active, idleTerm, stopReq, permits, waiters>>

\* One turn of the idle fiber: it returns once stopping() holds.
Idle(t) ==
  /\ pc[t] = "idle"
  /\ idleTerm' = [idleTerm EXCEPT ![t] = Stopping]
  /\ Goto(t, "pick")
  /\ UNCHANGED <<queue, fstate, cur, active, stopReq, permits, waiters>>

---------------------------------------------------------------------------
(* What the code on a fiber's stack calls *)

Calling(t, op) == pc[t] = "run" /\ op \in Ops

\* FiberSemaphore::wait with a permit, and without one
WaitTakes(t) ==
  /\ Calling(t, "wait")
  /\ permits > 0
  /\ permits' = permits - 1
  /\ UNCHANGED <<queue, fstate, pc, cur, active, idleTerm, stopReq, waiters>>

WaitBlocks(t) ==
  /\ Calling(t, "wait")
  /\ permits = 0
  /\ waiters' = Append(waiters, cur[t])
  /\ Goto(t, "hold")
  /\ UNCHANGED <<queue, fstate, cur, active, idleTerm, stopReq, permits>>

\* Variant: a permit is always added.
NotifyAlwaysAdds ==
  \/ /\ waiters # <<>>
     /\ Schedule(Head(waiters), AnyThread)
     /\ permits < MaxPermits
     /\ permits' = permits + 1
     /\ UNCHANGED waiters
  \/ /\ waiters = <<>>
     /\ permits < MaxPermits
     /\ permits' = permits + 1
     /\ UNCHANGED <<queue, waiters>>

\* FiberSemaphore::notify: the first waiter is scheduled, or a permit kept
NotifyBody ==
  \/ /\ waiters # <<>>
     /\ Schedule(Head(waiters), AnyThread)
     /\ waiters' = Tail(waiters)
     /\ UNCHANGED permits
  \/ /\ waiters = <<>>
     /\ permits < MaxPermits
     /\ permits' = permits + 1
     /\ UNCHANGED <<queue, waiters>>

Notify(t) ==
  /\ Calling(t, "notify")
  /\ NotifyBody
  /\ UNCHANGED <<fstate, pc, cur, active, idleTerm, stopReq>>

\* Scheduler::switchTo(u)
SwitchTo(t) ==
  /\ Calling(t, "switch")
  /\ \E u \in Threads \ {t} : Schedule(cur[t], u)
  /\ Goto(t, "hold")
  /\ UNCHANGED <<fstate, cur, active, idleTerm, stopReq, permits, waiters>>

InQueue(f) == \E i \in DOMAIN queue : queue[i].fiber = f

\* A fiber nothing refers to: a new one, or one whose callback has returned
\* and that Fiber::reset prepares for the next.
Unused(f) ==
  /\ fstate[f] \in {"INIT", "TERM", "EXCEPT"}
  /\ \A t \in Threads : cur[t] # f
  /\ ~InQueue(f)

\* Scheduler::schedule(callback, u)
Spawn(t) ==
  /\ Calling(t, "spawn")
  /\ \E f \in Fibers, u \in Threads \cup {AnyThread} :
       Unused(f) /\ SetState(f, "INIT") /\ Schedule(f, u)
  /\ UNCHANGED <<pc, cur, active, idleTerm, stopReq, permits, waiters>>

\* Scheduler::schedule(fiber) by someone who holds the pointer (a timer, a
\* second event), whatever the fiber does.  Bound: not while it is queued or
\* waits already.
Wake(t) ==
  /\ Calling(t, "wake")
  /\ \E f \in Fibers : /\ fstate[f] # "INIT"
                       /\ ~InQueue(f) /\ ~Contains(waiters, f)
                       /\ Schedule(f, AnyThread)
  /\ UNCHANGED <<fstate, pc, cur, active, idleTerm, stopReq, permits, waiters>>

\* Variant: the fiber schedules itself before it leaves its stack.
YieldToReadyEarly(t) ==
  /\ Calling(t, "ready")
  /\ fstate[cur[t]] = "EXEC"
  /\ SetState(cur[t], "READY")
  /\ Schedule(cur[t], AnyThread)
  /\ Goto(t, "swap")
  /\ UNCHANGED <<cur, active, idleTerm, stopReq, permits, waiters>>

\* Fiber::YieldToReady
YieldToReady(t) ==
  /\ Calling(t, "ready")
  /\ fstate[cur[t]] = "EXEC"
  /\ SetState(cur[t], "READY")
  /\ Goto(t, "swap")
  /\ UNCHANGED <<queue, cur, active, idleTerm, stopReq, permits, waiters>>

\* Fiber::YieldToHold: the state is written while still on the fiber's stack
YieldToHold(t) ==
  /\ pc[t] = "hold"
  /\ fstate[cur[t]] = "EXEC"
  /\ SetState(cur[t], "HOLD")
  /\ Goto(t, "swap")
  /\ UNCHANGED <<queue, cur, active, idleTerm, stopReq, permits, waiters>>

\* Fiber::MainFunc: the callback returned, or threw
Finish(t) ==
  /\ pc[t] = "run"
  /\ \/ SetState(cur[t], "TERM")
     \/ "throw" \in Ops /\ SetState(cur[t], "EXCEPT")
  /\ Goto(t, "swap")
  /\ UNCHANGED <<queue, cur, active, idleTerm, stopReq, permits, waiters>>

\* Fiber::swapOut: the context is saved and the stack left
SwapOut(t) ==
  /\ pc[t] = "swap"
  /\ Goto(t, "out")
  /\ UNCHANGED <<queue, fstate, cur, active, idleTerm, stopReq, permits, waiters>>

---------------------------------------------------------------------------
(* The program around the scheduler *)

\* Scheduler::schedule from another thread; the program ends its producers
\* before it calls stop().
Submit ==
  /\ ~stopReq
  /\ \E f \in Fibers, u \in Threads \cup {AnyThread} :
       Unused(f) /\ SetState(f, "INIT") /\ Schedule(f, u)
  /\ UNCHANGED <<pc, cur, active, idleTerm, stopReq, permits, waiters>>

\* Scheduler::stop: the flags, ...
Stop ==
  /\ ~stopReq
  /\ stopReq' = TRUE
  /\ UNCHANGED <<queue, fstate, pc, cur, active, idleTerm, permits, waiters>>

\* ... then the calling thread runs the root fiber unless all is done.
StopCall(t) ==
  /\ stopReq
  /\ pc[t] = "parked"
  /\ Goto(t, IF Stopping THEN "exit" ELSE "pick")
  /\ UNCHANGED <<queue, fstate, cur, active, idleTerm, stopReq, permits, waiters>>

AllExited == \A t \in Threads : pc[t] = "exit"

\* stop() has joined every thread
Stopped == AllExited /\ UNCHANGED vars

Loop(t) ==
  \/ Take(t) \/ TakeNone(t) \/ DropEntry(t) \/ SwapIn(t) \/ Return(t)
  \/ CheckReady(t) \/ CheckOver(t) \/ CheckOther(t) \/ SetHold(t)
  \/ Idle(t) \/ StopCall(t)

Call(t) ==
  \/ WaitTakes(t) \/ WaitBlocks(t) \/ Notify(t) \/ SwitchTo(t) \/ Spawn(t)
  \/ Wake(t) \/ YieldToReady(t) \/ Finish(t)

Leave(t) == YieldToHold(t) \/ SwapOut(t)

Next ==
  /\ Running
  /\ \/ \E t \in Threads : Loop(t) \/ Call(t) \/ Leave(t)
     \/ Submit \/ Stop \/ Stopped

Spec == Init /\ [][Next]_vars

\* The operating system runs every thread; a fiber's callback ends.
Fairness ==
  \A t \in Threads : /\ WF_vars(Running /\ (Loop(t) \/ Leave(t)))
                     /\ SF_vars(Running /\ Finish(t))

FairSpec == Spec /\ Fairness

---------------------------------------------------------------------------
(* Properties *)

TypeOK ==
  /\ queue \in Seq(Entry)
  /\ fstate \in [Fibers -> States]
  /\ pc \in [Threads -> Places]
  /\ cur \in [Threads -> Fibers \cup {NoFiber}]
  /\ \A t \in Threads :
       cur[t] = NoFiber <=> pc[t] \in {"parked", "pick", "idle", "exit"}
  /\ active \in Nat
  /\ idleTerm \in [Threads -> BOOLEAN]
  /\ stopReq \in BOOLEAN
  /\ permits \in 0..MaxPermits
  /\ waiters \in Seq(Fibers)

\* m_activeThreadCount is exactly the number of workers between the increment
\* under the lock and the decrement after the fiber left: no path of run()
\* (dropped entry, ended, READY or held fiber) forgets or repeats one.
ActiveExact == active = Cardinality({t \in Threads : Busy(t)})

\* FiberSemaphore never keeps a permit while a fiber waits for one.
NoIdlePermit == permits > 0 => waiters = <<>>

\* No fiber's stack is executed by two threads at a time.
SingleExecution == ~Torn

Queued(f)  == Cardinality({i \in DOMAIN queue : queue[i].fiber = f})
Waiting(f) == Cardinality({i \in DOMAIN waiters : waiters[i] = f})

\* A suspended fiber is in exactly one place that can resume it: the queue,
\* the semaphore, or the worker that is about to file it; never lost, and
\* never in two places, from which it would be resumed twice.
OneHome ==
  \A f \in Fibers :
    LET carried == Cardinality({t \in Threads : cur[t] = f})
    IN  /\ Queued(f) + Waiting(f) <= 1
        /\ ~Over(f) /\ fstate[f] # "INIT" => carried + Queued(f) + Waiting(f) >= 1
        /\ fstate[f] = "INIT" => Queued(f) + carried <= 1 /\ Waiting(f) = 0

\* When stop() has joined the workers nothing is left in the queue, pinned or not.
DrainedAtExit == AllExited => queue = <<>> /\ active = 0

Executing(f) == \E t \in Threads : cur[t] = f /\ OnFiber(t)

\* A scheduled fiber is eventually executed: the scan that skips executing
\* and foreign entries starves nobody.  (An entry pinned to the caller of
\* stop() waits for that call.)
Runnable(f) == \E i \in DOMAIN queue :
  queue[i].fiber = f /\ (queue[i].thread \in Threads => pc[queue[i].thread] # "parked")
ScheduledRuns == \A f \in Fibers : Runnable(f) ~> (Executing(f) \/ Over(f))

\* stop() returns: every worker leaves run() once the flags are set.
StopReturns == stopReq ~> AllExited
===========================================================================
