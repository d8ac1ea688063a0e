----------------------------- MODULE IOManager -----------------------------
(***************************************************************************)
(* The epoll scheduler of src/ancfl/iomanager.cc with its two callers: the *)
(* hooked I/O call do_io and the hooked close of src/ancfl/hook.cc, and    *)
(* the one-shot timers do_io arms (src/ancfl/timer.cc).                    *)
(*                                                                         *)
(* A task is a fiber that makes MaxCalls blocking calls on one descriptor, *)
(* or closes one.  Workers execute Scheduler::run, which FiberScheduler    *)
(* models in detail; here a worker takes the first entry that is not on    *)
(* another worker's stack, and is active as long as it executes it.  One   *)
(* step is what happens under one lock (the vector's m_mutex, the          *)
(* FdContext's mutex, the TimerManager's), or one read of shared state.    *)
(* A descriptor is not reused after its close.                             *)
(***************************************************************************)
EXTENDS Naturals, Sequences, FiniteSets, SequencesExt

CONSTANTS
  Workers,    \* threads that execute Scheduler::run
  Fds,        \* descriptors, by number
  Tasks,      \* fibers
  Closers,    \* the tasks that close their descriptor
  FdOf,       \* the descriptor of each task
  EventOf,    \* READ or WRITE, what a task that is no closer waits for
  Timed,      \* the tasks whose descriptor has a timeout (to != -1)
  MaxCalls,   \* blocking calls a task makes
  InitSize,   \* contextResize(32) of the constructor
  MaxMade,    \* bound on the FdContexts made for one descriptor
  None

Events == {"READ", "WRITE"}

ASSUME WorkersAssumption == Workers # {}   \* ANCFL_ASSERT(threads > 0)
ASSUME FdsAssumption     == IsFiniteSet(Fds) /\ Fds \subseteq Nat /\ InitSize \in Nat /\ InitSize >= 2
ASSUME TasksAssumption   == IsFiniteSet(Tasks) /\ Closers \subseteq Tasks /\ Timed \subseteq Tasks
ASSUME CallAssumption    == FdOf \in [Tasks -> Fds] /\ EventOf \in [Tasks -> Events]
\* addEvent asserts that nobody waits for the event yet: that is its callers' duty,
\* which AsyncSocketStream shows for a stream (OneReaderWriter).
ASSUME OneTaskPerEvent   ==
  \A t, u \in Tasks \ Closers : t # u => <<FdOf[t], EventOf[t]>> # <<FdOf[u], EventOf[u]>>
ASSUME BoundsAssumption  == MaxCalls \in Nat \ {0} /\ MaxMade \in Nat \ {0}

VARIABLES
  size,       \* m_fdContexts.size()
  slot,       \* m_fdContexts[fd]: which of the contexts made for fd, 0 for none
  made,       \* contexts made for fd so far
  waiter,     \* EventContext::fiber per context and event; None where events lacks it
  pending,    \* m_pendingEventCount
  epoll,      \* the kernel's entry of a descriptor: data.ptr and the events
  ready,      \* what the descriptor is ready for
  open,       \* the descriptor is open
  timer,      \* the task's timer: none, armed, or due but still in m_timers
  cancelled,  \* timer_info::cancelled of the task's current call
  call,       \* number of the task's current call
  tpc,        \* where the task is in do_io or close
  found,      \* fd_ctx of addEvent
  queue,      \* Scheduler::m_fibers
  wpc,        \* where the worker is in run() and idle()
  cur,        \* the entry the worker executes
  got,        \* the events epoll_wait returned and idle() has not processed
  stopReq,    \* m_autoStop && m_stopping
  aborted     \* an ANCFL_ASSERT has failed

ctxs  == <<size, slot, made>>
wait  == <<waiter, pending, epoll>>
world == <<ready, open>>
calls == <<timer, cancelled, call>>
vars  == <<ctxs, wait, world, calls, tpc, found, queue, wpc, cur, got, stopReq, aborted>>

Context == Fds \X (0..MaxMade)
Entry   == [kind : {"fiber", "timer"}, task : Tasks, call : 0..MaxCalls]
FiberEntry(t)    == [kind |-> "fiber", task |-> t, call |-> 0]
TimerEntry(t, n) == [kind |-> "timer", task |-> t, call |-> n]
Report  == [fd : Fds, ptr : 0..MaxMade, events : SUBSET (Events \cup {"HUP"})]

ASSUME NoneAssumption == None \notin Tasks \cup Entry

\* FdContext::events
Registered(c) == {e \in Events : waiter[c][e] # None}
Here(fd)      == <<fd, slot[fd]>>
NoTimer       == \A t \in Tasks : timer[t] = "none"
OnStack(t)    == \E w \in Workers : cur[w] = FiberEntry(t)
Busy          == \E w \in Workers : cur[w] # None

Goto(w, place)   == wpc' = [wpc EXCEPT ![w] = place]
TaskAt(t, place) == tpc' = [tpc EXCEPT ![t] = place]
At(w, place)     == wpc[w] = "fiber" /\ tpc[cur[w].task] = place
Leave(w)         == Goto(w, "loop") /\ cur' = [cur EXCEPT ![w] = None]

Init ==
  /\ size = InitSize
  /\ slot = [fd \in Fds |-> IF fd < InitSize THEN 1 ELSE 0]
  /\ made = slot
  /\ waiter = [c \in Context |-> [e \in Events |-> None]]
  /\ pending = 0
  /\ epoll = [fd \in Fds |-> [ptr |-> 0, on |-> {}]]
  /\ ready = [fd \in Fds |-> {}]
  /\ open = [fd \in Fds |-> TRUE]
  /\ timer = [t \in Tasks |-> "none"]
  /\ cancelled = [t \in Tasks |-> FALSE]
  /\ call = [t \in Tasks |-> 1]
  /\ tpc = [t \in Tasks |-> "new"]
  /\ found = [t \in Tasks |-> 0]
  /\ queue \in {[i \in DOMAIN s |-> FiberEntry(s[i])] : s \in SetToSeqs(Tasks)}
  /\ wpc = [w \in Workers |-> "loop"]
  /\ cur = [w \in Workers |-> None]
  /\ got = [w \in Workers |-> {}]
  /\ stopReq = FALSE
  /\ aborted = FALSE

---------------------------------------------------------------------------
(* Contexts and the kernel's table *)

\* epoll_ctl succeeds on an open descriptor: ADD where it has no entry, MOD and
\* DEL where it has one.
CanAdd(fd)    == open[fd] /\ epoll[fd].on = {}
CanChange(fd) == open[fd] /\ epoll[fd].on # {}

\* The entries triggerEvent schedules, READ before WRITE.
Wakes(c, e, es) == IF e \in es /\ waiter[c][e] # None THEN <<FiberEntry(waiter[c][e])>> ELSE <<>>
Woken(c, es)    == Wakes(c, "READ", es) \o Wakes(c, "WRITE", es)

\* Variant: triggerEvent leaves the waiter in the context.
TriggerKeeps(c, es) ==
  /\ queue' = queue \o Woken(c, es)
  /\ pending' = pending - Cardinality(es)
  /\ epoll' = [epoll EXCEPT ![c[1]] = [ptr |-> c[2], on |-> Registered(c) \ es]]
  /\ UNCHANGED waiter

\* Variant: idle() decrements and triggerEvent decrements as well.
TriggerCountsTwice(c, es) ==
  /\ queue' = queue \o Woken(c, es)
  /\ waiter' = [waiter EXCEPT ![c] = [e \in Events |-> IF e \in es THEN None ELSE @[e]]]
  /\ pending' = pending - 2 * Cardinality(es)
  /\ epoll' = [epoll EXCEPT ![c[1]] = [ptr |-> c[2], on |-> Registered(c) \ es]]

\* Variant: the kernel entry is always deleted.
TriggerClears(c, es) ==
  /\ queue' = queue \o Woken(c, es)
  /\ waiter' = [waiter EXCEPT ![c] = [e \in Events |-> IF e \in es THEN None ELSE @[e]]]
  /\ pending' = pending - Cardinality(es)
  /\ epoll' = [epoll EXCEPT ![c[1]].on = {}]

\* Variant: one decrement however many events were triggered.
TriggerCountsOne(c, es) ==
  /\ queue' = queue \o Woken(c, es)
  /\ waiter' = [waiter EXCEPT ![c] = [e \in Events |-> IF e \in es THEN None ELSE @[e]]]
  /\ pending' = pending - 1
  /\ epoll' = [epoll EXCEPT ![c[1]] = [ptr |-> c[2], on |-> Registered(c) \ es]]

\* What cancelEvent, cancelAll and idle() do with registered events es of c once
\* epoll_ctl has taken them out of the kernel's entry: triggerEvent and
\* --m_pendingEventCount for each.
Trigger(c, es) ==
  /\ queue' = queue \o Woken(c, es)
  /\ waiter' = [waiter EXCEPT ![c] = [e \in Events |-> IF e \in es THEN None ELSE @[e]]]
  /\ pending' = pending - Cardinality(es)
  /\ epoll' = [epoll EXCEPT ![c[1]] = [ptr |-> c[2], on |-> Registered(c) \ es]]

\* contextResize(n): the vector gets n slots, and a slot without a context a new one.
ContextResize(n) ==
  /\ size' = n
  /\ made' = [fd \in Fds |-> IF fd < n /\ slot[fd] = 0 THEN made[fd] + 1 ELSE made[fd]]
  /\ slot' = [fd \in Fds |-> IF fd >= n THEN 0 ELSE IF slot[fd] = 0 THEN made[fd] + 1 ELSE slot[fd]]

---------------------------------------------------------------------------
(* The worker: Scheduler::run and IOManager::idle *)

Suitable == {i \in DOMAIN queue : queue[i].kind = "fiber" => ~OnStack(queue[i].task)}

Entered(t) == IF tpc[t] = "hold" THEN "woken" ELSE IF t \in Closers THEN "cancelAll" ELSE "try"

Take(w) ==
  /\ wpc[w] = "loop"
  /\ \E i \in Suitable :
       /\ \A j \in Suitable : i <= j
       /\ queue' = RemoveAt(queue, i)
       /\ cur' = [cur EXCEPT ![w] = queue[i]]
       /\ IF queue[i].kind = "timer"
          THEN Goto(w, "callback") /\ UNCHANGED tpc
          ELSE Goto(w, "fiber") /\ TaskAt(queue[i].task, Entered(queue[i].task))
  /\ UNCHANGED <<ctxs, wait, world, calls, found, got, stopReq, aborted>>

EnterIdle(w) ==
  /\ wpc[w] = "loop"
  /\ Suitable = {}
  /\ Goto(w, "timers")
  /\ UNCHANGED <<ctxs, wait, world, calls, tpc, found, queue, cur, got, stopReq, aborted>>

\* Variant: stopping() without the pending events.
StoppingIgnoresEvents(w) ==
  /\ \/ wpc[w] = "timers" /\ Goto(w, IF NoTimer THEN "scheduler" ELSE "poll")
     \/ wpc[w] = "scheduler" /\ Goto(w, IF stopReq /\ queue = <<>> /\ ~Busy THEN "again" ELSE "poll")
     \/ wpc[w] = "again" /\ Goto(w, IF NoTimer THEN "exit" ELSE "poll")
  /\ UNCHANGED <<ctxs, wait, world, calls, tpc, found, queue, cur, got, stopReq, aborted>>

\* stopping(timeout): three reads of shared state, then getNextTimer() again.
Stopping(w) ==
  /\ \/ wpc[w] = "timers" /\ Goto(w, IF NoTimer THEN "pending" ELSE "poll")
     \/ wpc[w] = "pending" /\ Goto(w, IF pending = 0 THEN "scheduler" ELSE "poll")
     \/ wpc[w] = "scheduler" /\ Goto(w, IF stopReq /\ queue = <<>> /\ ~Busy THEN "again" ELSE "poll")
     \/ wpc[w] = "again" /\ Goto(w, IF NoTimer THEN "exit" ELSE "poll")
  /\ UNCHANGED <<ctxs, wait, world, calls, tpc, found, queue, cur, got, stopReq, aborted>>

\* epoll_wait: what is ready among the registered events, and a hang-up always.
EpollWait(w) ==
  /\ wpc[w] = "poll"
  /\ LET Of(fd) == ready[fd] \cap (epoll[fd].on \cup {"HUP"}) IN
     got' = [got EXCEPT ![w] = {[fd |-> fd, ptr |-> epoll[fd].ptr, events |-> Of(fd)] :
               fd \in {f \in Fds : epoll[f].on # {} /\ Of(f) # {}}}]
  /\ Goto(w, "expire")
  /\ UNCHANGED <<ctxs, wait, world, calls, tpc, found, queue, cur, stopReq, aborted>>

\* listExpiredCb and schedule(cbs): the callbacks of the timers that are due.
ListExpired(w) ==
  /\ wpc[w] = "expire"
  /\ LET due == SetToSeq({t \in Tasks : timer[t] = "due"}) IN
     queue' = queue \o [i \in DOMAIN due |-> TimerEntry(due[i], call[due[i]])]
  /\ timer' = [t \in Tasks |-> IF timer[t] = "due" THEN "none" ELSE timer[t]]
  /\ Goto(w, "events")
  /\ UNCHANGED <<ctxs, wait, world, cancelled, call, tpc, found, cur, got, stopReq, aborted>>

\* Variant: a hang-up triggers both events, registered or not.
RealEventsBoth(g) ==
  (g.events \cap Events) \cup (IF "HUP" \in g.events THEN Events ELSE {})

\* real_events: what was reported, and with a hang-up all that is registered now.
RealEvents(g) ==
  (g.events \cap Events) \cup (IF "HUP" \in g.events THEN Registered(<<g.fd, g.ptr>>) ELSE {})

\* One reported event.  triggerEvent asserts that each of the real events is
\* registered, although only one of them was tested.
Process(w) ==
  /\ wpc[w] = "events"
  /\ \E g \in got[w] :
       LET c == <<g.fd, g.ptr>>  real == RealEvents(g) IN
       /\ got' = [got EXCEPT ![w] = @ \ {g}]
       /\ IF Registered(c) \cap real = {} \/ ~CanChange(g.fd)
          THEN UNCHANGED <<wait, queue, aborted>>
          ELSE IF real \subseteq Registered(c)
          THEN Trigger(c, real) /\ UNCHANGED aborted
          ELSE aborted' = TRUE /\ UNCHANGED <<wait, queue>>
  /\ UNCHANGED <<ctxs, world, calls, tpc, found, wpc, cur, stopReq>>

SwapOut(w) ==
  /\ wpc[w] = "events"
  /\ got[w] = {}
  /\ Goto(w, "loop")
  /\ UNCHANGED <<ctxs, wait, world, calls, tpc, found, queue, cur, got, stopReq, aborted>>

---------------------------------------------------------------------------
(* A hooked call: do_io *)

\* do_io returns.  The task makes its next call at once, with a new timer_info.
Return(w, t) ==
  IF call[t] < MaxCalls
  THEN /\ call' = [call EXCEPT ![t] = @ + 1]
       /\ cancelled' = [cancelled EXCEPT ![t] = FALSE]
       /\ TaskAt(t, "try")
       /\ UNCHANGED <<wpc, cur>>
  ELSE /\ TaskAt(t, "done")
       /\ Leave(w)
       /\ UNCHANGED <<call, cancelled>>

\* The system call succeeds, or fails for good on a closed descriptor.
TrySucceeds(w) ==
  /\ At(w, "try")
  /\ LET t == cur[w].task  fd == FdOf[t]  e == EventOf[t] IN
     /\ ~open[fd] \/ ready[fd] \cap {e, "HUP"} # {}
     /\ ready' \in {[ready EXCEPT ![fd] = @ \ {e}]} \cup (IF e = "WRITE" THEN {ready} ELSE {})
     /\ Return(w, t)
  /\ UNCHANGED <<ctxs, wait, open, timer, found, queue, got, stopReq, aborted>>

\* Variant: no timer for the call.
TryWithoutTimer(w) ==
  /\ At(w, "try")
  /\ LET t == cur[w].task IN
     /\ open[FdOf[t]] /\ ready[FdOf[t]] \cap {EventOf[t], "HUP"} = {}
     /\ TaskAt(t, "lookup")
  /\ UNCHANGED <<ctxs, wait, world, calls, found, queue, wpc, cur, got, stopReq, aborted>>

\* EAGAIN: do_io arms the timer, then goes on to addEvent.
TryAgain(w) ==
  /\ At(w, "try")
  /\ LET t == cur[w].task IN
     /\ open[FdOf[t]] /\ ready[FdOf[t]] \cap {EventOf[t], "HUP"} = {}
     /\ timer' = IF t \in Timed THEN [timer EXCEPT ![t] = "armed"] ELSE timer
     /\ TaskAt(t, "lookup")
  /\ UNCHANGED <<ctxs, wait, world, cancelled, call, found, queue, wpc, cur, got, stopReq, aborted>>

\* addEvent, under the read lock.
LookUp(w) ==
  /\ At(w, "lookup")
  /\ LET t == cur[w].task IN
     IF size > FdOf[t]
     THEN found' = [found EXCEPT ![t] = slot[FdOf[t]]] /\ TaskAt(t, "register")
     ELSE UNCHANGED found /\ TaskAt(t, "resize")
  /\ UNCHANGED <<ctxs, wait, world, calls, queue, wpc, cur, got, stopReq, aborted>>

\* addEvent, under the write lock it takes after giving up the read lock.
Resize(w) ==
  /\ At(w, "resize")
  /\ LET t == cur[w].task IN
     /\ ContextResize((FdOf[t] * 3) \div 2)
     /\ \A fd \in Fds : made'[fd] <= MaxMade
     /\ found' = [found EXCEPT ![t] = slot'[FdOf[t]]]
     /\ TaskAt(t, "register")
  /\ UNCHANGED <<wait, world, calls, queue, wpc, cur, got, stopReq, aborted>>

\* addEvent, under the context's mutex: nobody may wait for the event yet; then
\* epoll_ctl succeeds.
Register(w) ==
  /\ At(w, "register")
  /\ LET t == cur[w].task  fd == FdOf[t]  e == EventOf[t]  c == <<fd, found[t]>> IN
     IF e \in Registered(c)
     THEN aborted' = TRUE /\ UNCHANGED <<wait, tpc>>
     ELSE /\ IF Registered(c) = {} THEN CanAdd(fd) ELSE CanChange(fd)
          /\ epoll' = [epoll EXCEPT ![fd] = [ptr |-> found[t], on |-> Registered(c) \cup {e}]]
          /\ pending' = pending + 1
          /\ waiter' = [waiter EXCEPT ![c] = [@ EXCEPT ![e] = t]]
          /\ TaskAt(t, "yield")
          /\ UNCHANGED aborted
  /\ UNCHANGED <<ctxs, world, calls, found, queue, wpc, cur, got, stopReq>>

\* addEvent: epoll_ctl fails.  do_io cancels its timer and returns -1.
RegisterFails(w) ==
  /\ At(w, "register")
  /\ LET t == cur[w].task  fd == FdOf[t]  c == <<fd, found[t]>> IN
     /\ EventOf[t] \notin Registered(c)
     /\ IF Registered(c) = {} THEN ~CanAdd(fd) ELSE ~CanChange(fd)
     /\ timer' = [timer EXCEPT ![t] = "none"]
     /\ Return(w, t)
  /\ UNCHANGED <<ctxs, wait, world, found, queue, got, stopReq, aborted>>

\* Fiber::YieldToHold
Yield(w) ==
  /\ At(w, "yield")
  /\ TaskAt(cur[w].task, "hold")
  /\ Leave(w)
  /\ UNCHANGED <<ctxs, wait, world, calls, found, queue, got, stopReq, aborted>>

\* Behind the yield: timer->cancel(), then ETIMEDOUT if the timer has cancelled the call.
ResumeTimedOut(w) ==
  /\ At(w, "woken")
  /\ cancelled[cur[w].task]
  /\ timer' = [timer EXCEPT ![cur[w].task] = "none"]
  /\ Return(w, cur[w].task)
  /\ UNCHANGED <<ctxs, wait, world, found, queue, got, stopReq, aborted>>

\* Behind the yield: goto retry.
ResumeRetries(w) ==
  /\ At(w, "woken")
  /\ ~cancelled[cur[w].task]
  /\ timer' = [timer EXCEPT ![cur[w].task] = "none"]
  /\ TaskAt(cur[w].task, "try")
  /\ UNCHANGED <<ctxs, wait, world, cancelled, call, found, queue, wpc, cur, got, stopReq, aborted>>

---------------------------------------------------------------------------
(* The timer's callback, and close *)

\* The callback does nothing once the call has returned (the weak_ptr is empty) or
\* has been cancelled already.
TimerFires(w) ==
  /\ wpc[w] = "callback"
  /\ LET t == cur[w].task IN
     IF tpc[t] # "done" /\ call[t] = cur[w].call /\ ~cancelled[t]
     THEN /\ cancelled' = [cancelled EXCEPT ![t] = TRUE]
          /\ Goto(w, "cancel")
          /\ UNCHANGED cur
     ELSE Leave(w) /\ UNCHANGED cancelled
  /\ UNCHANGED <<ctxs, wait, world, timer, call, tpc, found, queue, got, stopReq, aborted>>

\* cancelEvent(fd, event).  The look-up of the context is part of the step: the
\* contexts resize takes out of the vector are never freed.
CancelEvent(w) ==
  /\ wpc[w] = "cancel"
  /\ LET fd == FdOf[cur[w].task]  e == EventOf[cur[w].task] IN
     IF size > fd /\ e \in Registered(Here(fd)) /\ CanChange(fd)
     THEN Trigger(Here(fd), {e})
     ELSE UNCHANGED <<wait, queue>>
  /\ Leave(w)
  /\ UNCHANGED <<ctxs, world, calls, tpc, found, got, stopReq, aborted>>

\* close: cancelAll(fd).
CancelAll(w) ==
  /\ At(w, "cancelAll")
  /\ LET fd == FdOf[cur[w].task] IN
     IF size > fd /\ Registered(Here(fd)) # {} /\ CanChange(fd)
     THEN Trigger(Here(fd), Registered(Here(fd)))
     ELSE UNCHANGED <<wait, queue>>
  /\ TaskAt(cur[w].task, "close")
  /\ UNCHANGED <<ctxs, world, calls, found, wpc, cur, got, stopReq, aborted>>

\* close: FdMgr::del and the system call, which also clears the kernel's entry.
Close(w) ==
  /\ At(w, "close")
  /\ LET fd == FdOf[cur[w].task] IN
     /\ open' = [open EXCEPT ![fd] = FALSE]
     /\ ready' = [ready EXCEPT ![fd] = {}]
     /\ epoll' = [epoll EXCEPT ![fd].on = {}]
  /\ TaskAt(cur[w].task, "done")
  /\ Leave(w)
  /\ UNCHANGED <<ctxs, waiter, pending, calls, found, queue, got, stopReq, aborted>>

---------------------------------------------------------------------------
(* The world *)

\* Data, room in the send buffer, or a hang-up at the other end.  What no task
\* waits for would change nothing but ready.
BecomesReady(fd, e) ==
  /\ e = "HUP" \/ \E t \in Tasks : FdOf[t] = fd /\ EventOf[t] = e
  /\ open[fd]
  /\ e \notin ready[fd]
  /\ ready' = [ready EXCEPT ![fd] = @ \cup {e}]
  /\ UNCHANGED <<ctxs, wait, open, calls, tpc, found, queue, wpc, cur, got, stopReq, aborted>>

\* The time of a timer comes.
Elapse(t) ==
  /\ timer[t] = "armed"
  /\ timer' = [timer EXCEPT ![t] = "due"]
  /\ UNCHANGED <<ctxs, wait, world, cancelled, call, tpc, found, queue, wpc, cur, got, stopReq, aborted>>

\* Scheduler::stop()
Stop ==
  /\ ~stopReq
  /\ stopReq' = TRUE
  /\ UNCHANGED <<ctxs, wait, world, calls, tpc, found, queue, wpc, cur, got, aborted>>

Work(w) ==
  \/ Take(w) \/ EnterIdle(w) \/ Stopping(w) \/ EpollWait(w) \/ ListExpired(w)
  \/ Process(w) \/ SwapOut(w)
  \/ TrySucceeds(w) \/ TryAgain(w) \/ LookUp(w) \/ Resize(w)
  \/ Register(w) \/ RegisterFails(w) \/ Yield(w)
  \/ ResumeTimedOut(w) \/ ResumeRetries(w)
  \/ TimerFires(w) \/ CancelEvent(w) \/ CancelAll(w) \/ Close(w)

Next ==
  /\ ~aborted
  /\ \/ \E w \in Workers : Work(w)
     \/ \E fd \in Fds, e \in Events \cup {"HUP"} : BecomesReady(fd, e)
     \/ \E t \in Tasks : Elapse(t)
     \/ Stop

Spec == Init /\ [][Next]_vars

\* The threads run, and time passes.
FairSpec ==
  /\ Spec
  /\ \A w \in Workers : WF_vars(~aborted /\ Work(w))
  /\ \A t \in Tasks : WF_vars(~aborted /\ Elapse(t))
---------------------------------------------------------------------------
(* Properties *)

Queued(t)  == {i \in DOMAIN queue : queue[i] = FiberEntry(t)}
Waits(t)   == {c \in Context : \E e \in Events : waiter[c][e] = t}
Pairs      == {p \in Context \X Events : waiter[p[1]][p[2]] # None}

\* Type correctness of the whole state (FdContext, timers, do_io, run and idle).
TypeOK ==
  /\ size \in Nat
  /\ slot \in [Fds -> 0..MaxMade]
  /\ made \in [Fds -> 0..MaxMade]
  /\ waiter \in [Context -> [Events -> Tasks \cup {None}]]
  /\ pending \in Nat
  /\ epoll \in [Fds -> [ptr : 0..MaxMade, on : SUBSET Events]]
  /\ ready \in [Fds -> SUBSET (Events \cup {"HUP"})]
  /\ open \in [Fds -> BOOLEAN]
  /\ timer \in [Tasks -> {"none", "armed", "due"}]
  /\ cancelled \in [Tasks -> BOOLEAN]
  /\ call \in [Tasks -> 1..MaxCalls]
  /\ tpc \in [Tasks -> {"new", "try", "lookup", "resize", "register", "yield", "hold",
                        "woken", "cancelAll", "close", "done"}]
  /\ found \in [Tasks -> 0..MaxMade]
  /\ queue \in Seq(Entry)
  /\ cur \in [Workers -> Entry \cup {None}]
  /\ got \in [Workers -> SUBSET Report]
  /\ wpc \in [Workers -> {"loop", "fiber", "callback", "cancel", "timers", "pending",
                          "scheduler", "again", "poll", "expire", "events", "exit"}]
  /\ \A w \in Workers : cur[w] # None <=> wpc[w] \in {"fiber", "callback", "cancel"}
  /\ stopReq \in BOOLEAN /\ aborted \in BOOLEAN

\* m_pendingEventCount is the number of events registered with any context, also
\* one the vector no longer holds: idle() must not leave with I/O outstanding, nor
\* wait for I/O that was cancelled (iomanager.cc: addEvent, cancelEvent, idle).
PendingExact == pending = Cardinality(Pairs)

\* A fiber that waits in do_io is resumed once: it is registered once or queued
\* once, and neither while it runs past its yield (triggerEvent, cancelEvent, the
\* timer's callback and idle() compete for it).
ResumedOnce ==
  \A t \in Tasks :
    Cardinality(Waits(t)) + Cardinality(Queued(t))
      = IF tpc[t] \in {"yield", "hold", "new"} THEN 1 ELSE 0

\* What a fiber waits for on an open descriptor is in the kernel's entry, and the
\* entry leads to the context the fiber is registered with: I/O will wake it (addEvent
\* and idle() change context and kernel entry under one mutex).
KernelAgrees ==
  \A c \in Context :
    Registered(c) # {} /\ open[c[1]] => epoll[c[1]] = [ptr |-> c[2], on |-> Registered(c)]

\* Every wait can still be ended: its descriptor is open (close resumes the waiters
\* before it closes) and its context is the one in m_fdContexts, where a timeout or a
\* close looks for it, however often the vector was resized (iomanager.cc:155-165).
WaitsEndable == \A c \in Context : Registered(c) # {} => open[c[1]] /\ slot[c[1]] = c[2]

\* iomanager.cc:82 and :173: triggerEvent finds its event registered, addEvent finds
\* it free.
AssertionsHold == ~aborted

\* When the last worker has left run(), nothing is waiting to run, for I/O or for
\* a timer (stopping() reads timers, events and queue one after the other).
DrainedAtExit ==
  (\A w \in Workers : wpc[w] = "exit") =>
    /\ queue = <<>> /\ pending = 0 /\ NoTimer
    /\ \A t \in Tasks : tpc[t] = "done"

\* A blocking call with a timeout ends, whatever the other end does (do_io; the
\* timeout is the one SO_RCVTIMEO or SO_SNDTIMEO has set).
IoEnds == \A t \in Timed : <>(tpc[t] = "done")
=============================================================================
