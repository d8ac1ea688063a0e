----------------------- MODULE FiberSchedulerProofs -----------------------
(***************************************************************************)
(* For every number of threads and fibers and every set of scheduler calls *)
(* the fibers make: the type invariant, the exactness of the active count  *)
(* and the semaphore's invariant.  The three are proved together: active   *)
(* stays a natural number only because it counts the busy workers.         *)
(*                                                                         *)
(* Then the scheduler as a pool of fibers that only ever yield READY: as   *)
(* long as nobody hands the pointer of a running fiber to somebody who may *)
(* schedule it (a semaphore, switchTo, a timer), each fiber is in one      *)
(* place and executes on one worker.                                       *)
(***************************************************************************)
EXTENDS FiberScheduler, FiniteSetTheorems, SequenceTheorems, TLAPS

BusyPlaces == {"swapin", "run", "hold", "swap", "out"}
BusyIn(p)  == {t \in Threads : p[t] \in BusyPlaces}

IInv == TypeOK /\ ActiveExact /\ NoIdlePermit

---------------------------------------------------------------------------
(* Counting the busy workers when one of them moves *)

\* The number of busy workers is a natural number.
LEMMA BusyFinite ==
  ASSUME NEW p
  PROVE  IsFiniteSet(BusyIn(p)) /\ Cardinality(BusyIn(p)) \in Nat
BY FS_Subset, FS_CardinalityType, ThreadsAssumption DEF BusyIn

\* A worker that becomes busy adds one.
LEMMA BusyEnter ==
  ASSUME NEW p \in [Threads -> Places], NEW t \in Threads, NEW q \in BusyPlaces,
         p[t] \notin BusyPlaces
  PROVE  Cardinality(BusyIn([p EXCEPT ![t] = q])) = Cardinality(BusyIn(p)) + 1
<1>1. BusyIn([p EXCEPT ![t] = q]) = BusyIn(p) \cup {t}
  BY DEF BusyIn
<1>2. t \notin BusyIn(p)
  BY DEF BusyIn
<1> QED BY <1>1, <1>2, BusyFinite, FS_AddElement

\* A worker that stops being busy takes one away.
LEMMA BusyLeave ==
  ASSUME NEW p \in [Threads -> Places], NEW t \in Threads, NEW q \in Places \ BusyPlaces,
         p[t] \in BusyPlaces
  PROVE  Cardinality(BusyIn([p EXCEPT ![t] = q])) = Cardinality(BusyIn(p)) - 1
<1>1. BusyIn([p EXCEPT ![t] = q]) = BusyIn(p) \ {t}
  BY DEF BusyIn
<1>2. t \in BusyIn(p)
  BY DEF BusyIn
<1> QED BY <1>1, <1>2, BusyFinite, FS_RemoveElement

\* Any other move leaves the number alone.
LEMMA BusySame ==
  ASSUME NEW p \in [Threads -> Places], NEW t \in Threads, NEW q \in Places,
         p[t] \in BusyPlaces <=> q \in BusyPlaces
  PROVE  BusyIn([p EXCEPT ![t] = q]) = BusyIn(p)
BY DEF BusyIn

\* Removing one entry of a sequence leaves a sequence over the same set.
LEMMA RemoveAtType ==
  ASSUME NEW S, NEW s \in Seq(S), NEW i \in 1..Len(s)
  PROVE  RemoveAt(s, i) \in Seq(S)
<1>1. SubSeq(s, 1, i - 1) \in Seq(S)
  OBVIOUS
<1>2. SubSeq(s, i + 1, Len(s)) \in Seq(S)
  OBVIOUS
<1> QED BY <1>1, <1>2, ConcatProperties DEF RemoveAt

\* Scheduling an entry keeps the queue well typed.
LEMMA ScheduleType ==
  ASSUME queue \in Seq(Entry), NEW f \in Fibers, NEW u \in Threads \cup {AnyThread},
         Schedule(f, u)
  PROVE  queue' \in Seq(Entry)
BY AppendProperties DEF Schedule, Entry

---------------------------------------------------------------------------
(* The invariant *)

\* active counts the workers in one of the busy places.
LEMMA ActiveBusy == ActiveExact <=> active = Cardinality(BusyIn(pc))
BY DEF ActiveExact, Busy, BusyIn, BusyPlaces

\* What a step has to show of active, in one of the three ways pc moves.
LEMMA ActiveStep ==
  ASSUME IInv, NEW t \in Threads, NEW q \in Places, Goto(t, q),
         \/ pc[t] \notin BusyPlaces /\ q \in BusyPlaces /\ active' = active + 1
         \/ pc[t] \in BusyPlaces /\ q \notin BusyPlaces /\ active' = active - 1
         \/ (pc[t] \in BusyPlaces <=> q \in BusyPlaces) /\ active' = active
  PROVE  ActiveExact' /\ active' \in Nat
<1>1. active = Cardinality(BusyIn(pc)) /\ pc \in [Threads -> Places]
  BY ActiveBusy DEF IInv, TypeOK
<1>2. pc' = [pc EXCEPT ![t] = q]
  BY DEF Goto
<1>3. active' = Cardinality(BusyIn(pc'))
  <2>1. CASE pc[t] \notin BusyPlaces /\ q \in BusyPlaces /\ active' = active + 1
    BY <2>1, <1>1, <1>2, BusyEnter
  <2>2. CASE pc[t] \in BusyPlaces /\ q \notin BusyPlaces /\ active' = active - 1
    BY <2>2, <1>1, <1>2, BusyLeave
  <2>3. CASE (pc[t] \in BusyPlaces <=> q \in BusyPlaces) /\ active' = active
    BY <2>3, <1>1, <1>2, BusySame
  <2> QED BY <2>1, <2>2, <2>3
<1>4. ActiveExact'
  BY <1>3 DEF ActiveExact, Busy, BusyIn, BusyPlaces
<1> QED BY <1>3, <1>4, BusyFinite

\* A step that moves no worker leaves the count exact.
LEMMA ActiveStutter ==
  ASSUME IInv, pc' = pc, active' = active
  PROVE  ActiveExact' /\ active' \in Nat
BY DEF IInv, ActiveExact, Busy, TypeOK

LEMMA InitInv == Init => IInv
<1> SUFFICES ASSUME Init PROVE IInv
  OBVIOUS
<1>1. TypeOK
  <2>1. queue \in Seq(Entry) /\ waiters \in Seq(Fibers)
    BY DEF Init
  <2>2. pc \in [Threads -> Places] /\ fstate \in [Fibers -> States]
    BY DEF Init, Places, States
  <2>3. cur \in [Threads -> Fibers \cup {NoFiber}] /\ idleTerm \in [Threads -> BOOLEAN]
    BY DEF Init
  <2>4. \A t \in Threads : cur[t] = NoFiber /\ pc[t] \in {"parked", "pick"}
    BY DEF Init
  <2>5. stopReq \in BOOLEAN
    BY DEF Init
  <2>7. active \in Nat /\ permits \in 0..MaxPermits
    BY PermitsAssumption DEF Init
  <2>6. \A t \in Threads :
          cur[t] = NoFiber <=> pc[t] \in {"parked", "pick", "idle", "exit"}
    BY <2>4
  <2> QED BY <2>1, <2>2, <2>3, <2>5, <2>6, <2>7, Zenon DEF TypeOK
<1>2. BusyIn(pc) = {}
  BY DEF Init, BusyIn, BusyPlaces
<1>3. ActiveExact
  BY <1>2, FS_EmptySet, ActiveBusy DEF Init
<1> QED BY <1>1, <1>3 DEF IInv, NoIdlePermit, Init

\* The worker loop preserves the invariant.
LEMMA LoopInv ==
  ASSUME IInv, NEW t \in Threads, Loop(t)
  PROVE  IInv'
<1> USE DEF Places, States, BusyPlaces
<1> NoFiber \notin Fibers
  BY FibersAssumption
<1>0. TypeOK /\ ActiveExact /\ NoIdlePermit
  BY DEF IInv
<1>1. CASE Take(t)
  <2>1. PICK i \in Suitable(t) : /\ cur' = [cur EXCEPT ![t] = queue[i].fiber]
                                /\ queue' = RemoveAt(queue, i)
    BY <1>1 DEF Take
  <2>2. i \in 1..Len(queue) /\ queue[i] \in Entry
    BY <1>0 DEF Suitable, TypeOK
  <2>3. queue' \in Seq(Entry)
    BY <2>1, <2>2, <1>0, RemoveAtType DEF TypeOK
  <2>4. ActiveExact' /\ active' \in Nat
    BY <1>1, <1>0, ActiveStep DEF Take
  <2>5. queue[i].fiber \in Fibers
    BY <2>2 DEF Entry
  <2>6. TypeOK'
    BY <1>1, <1>0, <2>1, <2>3, <2>4, <2>5 DEF Take, TypeOK, Goto
  <2> QED BY <2>4, <2>6, <1>1, <1>0 DEF IInv, NoIdlePermit, Take
<1>2. CASE TakeNone(t)
  <2>1. ActiveExact' /\ active' \in Nat
    BY <1>2, <1>0, ActiveStep DEF TakeNone
  <2> QED BY <1>2, <1>0, <2>1 DEF IInv, TypeOK, NoIdlePermit, TakeNone, Goto
<1>3. CASE DropEntry(t)
  <2>1. ActiveExact' /\ active' \in Nat
    BY <1>3, <1>0, ActiveStep DEF DropEntry
  <2> QED BY <1>3, <1>0, <2>1 DEF IInv, TypeOK, NoIdlePermit, DropEntry, Goto
<1>4. CASE SwapIn(t)
  <2>1. ActiveExact' /\ active' \in Nat
    BY <1>4, <1>0, ActiveStep DEF SwapIn
  <2> QED BY <1>4, <1>0, <2>1 DEF IInv, TypeOK, NoIdlePermit, SwapIn, Goto, SetState
<1>5. CASE Return(t)
  <2>1. ActiveExact' /\ active' \in Nat
    BY <1>5, <1>0, ActiveStep DEF Return
  <2> QED BY <1>5, <1>0, <2>1 DEF IInv, TypeOK, NoIdlePermit, Return, Goto
<1>6. CASE CheckReady(t)
  <2>1. ActiveExact' /\ active' \in Nat
    BY <1>6, <1>0, ActiveStep DEF CheckReady
  <2>2. cur[t] \in Fibers
    BY <1>6, <1>0 DEF CheckReady, TypeOK
  <2>3. queue' \in Seq(Entry)
    BY <1>6, <1>0, <2>2, ScheduleType DEF CheckReady, TypeOK
  <2> QED BY <1>6, <1>0, <2>1, <2>3 DEF IInv, TypeOK, NoIdlePermit, CheckReady, Goto
<1>7. CASE CheckOver(t)
  <2>1. ActiveExact' /\ active' \in Nat
    BY <1>7, <1>0, ActiveStep DEF CheckOver
  <2> QED BY <1>7, <1>0, <2>1 DEF IInv, TypeOK, NoIdlePermit, CheckOver, Goto
<1>8. CASE CheckOther(t)
  <2>1. ActiveExact' /\ active' \in Nat
    BY <1>8, <1>0, ActiveStep DEF CheckOther
  <2> QED BY <1>8, <1>0, <2>1 DEF IInv, TypeOK, NoIdlePermit, CheckOther, Goto
<1>9. CASE SetHold(t)
  <2>1. ActiveExact' /\ active' \in Nat
    BY <1>9, <1>0, ActiveStep DEF SetHold
  <2> QED BY <1>9, <1>0, <2>1 DEF IInv, TypeOK, NoIdlePermit, SetHold, Goto, SetState
<1>10. CASE Idle(t)
  <2>1. ActiveExact' /\ active' \in Nat
    BY <1>10, <1>0, ActiveStep DEF Idle
  <2>2. Stopping \in BOOLEAN
    BY DEF Stopping
  <2> QED BY <1>10, <1>0, <2>1, <2>2 DEF IInv, TypeOK, NoIdlePermit, Idle, Goto
<1>11. CASE StopCall(t)
  <2>1. ActiveExact' /\ active' \in Nat
    BY <1>11, <1>0, ActiveStep DEF StopCall
  <2> QED BY <1>11, <1>0, <2>1 DEF IInv, TypeOK, NoIdlePermit, StopCall, Goto
<1> QED BY <1>1, <1>2, <1>3, <1>4, <1>5, <1>6, <1>7, <1>8, <1>9, <1>10, <1>11 DEF Loop

\* A fiber is executing on the worker: it has an entry.
LEMMA CallerFiber ==
  ASSUME TypeOK, NEW t \in Threads, pc[t] \in {"run", "hold", "swap"}
  PROVE  cur[t] \in Fibers
BY DEF TypeOK

\* notify keeps the queue, the waiters and the permits consistent.
LEMMA NotifyInv ==
  ASSUME TypeOK, NoIdlePermit, NotifyBody
  PROVE  /\ queue' \in Seq(Entry) /\ waiters' \in Seq(Fibers)
         /\ permits' \in 0..MaxPermits /\ NoIdlePermit'
<1> MaxPermits \in Nat
  BY PermitsAssumption
<1>1. CASE waiters # <<>> /\ Schedule(Head(waiters), AnyThread)
           /\ waiters' = Tail(waiters) /\ UNCHANGED permits
  <2>1. Head(waiters) \in Fibers /\ Tail(waiters) \in Seq(Fibers)
    BY <1>1, HeadTailProperties DEF TypeOK
  <2>2. queue' \in Seq(Entry)
    BY <1>1, <2>1, ScheduleType DEF TypeOK
  <2> QED BY <1>1, <2>1, <2>2 DEF TypeOK, NoIdlePermit
<1>2. CASE waiters = <<>> /\ permits < MaxPermits /\ permits' = permits + 1
           /\ UNCHANGED <<queue, waiters>>
  BY <1>2 DEF TypeOK, NoIdlePermit
<1> QED BY <1>1, <1>2 DEF NotifyBody

\* So do the calls of the code on a fiber's stack.
LEMMA CallInv ==
  ASSUME IInv, NEW t \in Threads, Call(t)
  PROVE  IInv'
<1> USE DEF Places, States, BusyPlaces
<1>0. TypeOK /\ ActiveExact /\ NoIdlePermit /\ MaxPermits \in Nat
  BY PermitsAssumption DEF IInv
<1>r. pc[t] = "run" /\ cur[t] \in Fibers
  <2>1. pc[t] = "run"
    BY DEF Call, WaitTakes, WaitBlocks, Notify, SwitchTo, Spawn, Wake, YieldToReady,
           Finish, Calling
  <2> QED BY <2>1, <1>0, CallerFiber
<1>1. CASE WaitTakes(t)
  <2>1. ActiveExact' /\ active' \in Nat
    BY <1>1, ActiveStutter DEF WaitTakes
  <2> QED BY <1>1, <1>0, <2>1 DEF IInv, TypeOK, NoIdlePermit, WaitTakes
<1>2. CASE WaitBlocks(t)
  <2>1. ActiveExact' /\ active' \in Nat
    BY <1>2, <1>r, ActiveStep DEF WaitBlocks
  <2>2. waiters' \in Seq(Fibers)
    BY <1>2, <1>r, <1>0, AppendProperties DEF WaitBlocks, TypeOK
  <2> QED BY <1>2, <1>0, <1>r, <2>1, <2>2 DEF IInv, TypeOK, NoIdlePermit, WaitBlocks, Goto
<1>3. CASE Notify(t)
  <2>1. ActiveExact' /\ active' \in Nat
    BY <1>3, ActiveStutter DEF Notify
  <2> QED BY <1>3, <1>0, <2>1, NotifyInv DEF IInv, TypeOK, Notify
<1>4. CASE SwitchTo(t)
  <2>1. ActiveExact' /\ active' \in Nat
    BY <1>4, <1>r, ActiveStep DEF SwitchTo
  <2>2. queue' \in Seq(Entry)
    BY <1>4, <1>r, <1>0, ScheduleType DEF SwitchTo, TypeOK
  <2> QED BY <1>4, <1>0, <1>r, <2>1, <2>2 DEF IInv, TypeOK, NoIdlePermit, SwitchTo, Goto
<1>5. CASE Spawn(t)
  <2>1. ActiveExact' /\ active' \in Nat
    BY <1>5, ActiveStutter DEF Spawn
  <2>2. queue' \in Seq(Entry)
    BY <1>5, <1>0, ScheduleType DEF Spawn, TypeOK
  <2> QED BY <1>5, <1>0, <2>1, <2>2 DEF IInv, TypeOK, NoIdlePermit, Spawn, SetState
<1>6. CASE Wake(t)
  <2>1. ActiveExact' /\ active' \in Nat
    BY <1>6, ActiveStutter DEF Wake
  <2>2. queue' \in Seq(Entry)
    BY <1>6, <1>0, ScheduleType DEF Wake, TypeOK
  <2> QED BY <1>6, <1>0, <2>1, <2>2 DEF IInv, TypeOK, NoIdlePermit, Wake
<1>7. CASE YieldToReady(t)
  <2>1. ActiveExact' /\ active' \in Nat
    BY <1>7, <1>r, ActiveStep DEF YieldToReady
  <2> QED BY <1>7, <1>0, <1>r, <2>1 DEF IInv, TypeOK, NoIdlePermit, YieldToReady, Goto, SetState
<1>8. CASE Finish(t)
  <2>1. ActiveExact' /\ active' \in Nat
    BY <1>8, <1>r, ActiveStep DEF Finish
  <2> QED BY <1>8, <1>0, <1>r, <2>1 DEF IInv, TypeOK, NoIdlePermit, Finish, Goto, SetState
<1> QED BY <1>1, <1>2, <1>3, <1>4, <1>5, <1>6, <1>7, <1>8 DEF Call

\* And leaving the stack.
LEMMA LeaveInv ==
  ASSUME IInv, NEW t \in Threads, Leave(t)
  PROVE  IInv'
<1> USE DEF Places, States, BusyPlaces
<1>0. TypeOK /\ ActiveExact /\ NoIdlePermit
  BY DEF IInv
<1>1. CASE YieldToHold(t)
  <2>1. ActiveExact' /\ active' \in Nat
    BY <1>1, ActiveStep DEF YieldToHold
  <2> QED BY <1>1, <1>0, <2>1 DEF IInv, TypeOK, NoIdlePermit, YieldToHold, Goto, SetState
<1>2. CASE SwapOut(t)
  <2>1. ActiveExact' /\ active' \in Nat
    BY <1>2, ActiveStep DEF SwapOut
  <2> QED BY <1>2, <1>0, <2>1 DEF IInv, TypeOK, NoIdlePermit, SwapOut, Goto
<1> QED BY <1>1, <1>2 DEF Leave

LEMMA StepInv == IInv /\ [Next]_vars => IInv'
<1> SUFFICES ASSUME IInv, [Next]_vars PROVE IInv'
  OBVIOUS
<1>0. TypeOK /\ ActiveExact /\ NoIdlePermit
  BY DEF IInv
<1>1. CASE \E t \in Threads : Loop(t) \/ Call(t) \/ Leave(t)
  BY <1>1, LoopInv, CallInv, LeaveInv
<1>2. CASE Submit
  <2>1. ActiveExact' /\ active' \in Nat
    BY <1>2, ActiveStutter DEF Submit
  <2>2. queue' \in Seq(Entry)
    BY <1>2, <1>0, ScheduleType DEF Submit, TypeOK
  <2> QED BY <1>2, <1>0, <2>1, <2>2 DEF IInv, TypeOK, NoIdlePermit, Submit, SetState, States
<1>3. CASE Stop
  <2>1. ActiveExact' /\ active' \in Nat
    BY <1>3, ActiveStutter DEF Stop
  <2> QED BY <1>3, <1>0, <2>1 DEF IInv, TypeOK, NoIdlePermit, Stop
<1>4. CASE UNCHANGED vars
  <2>1. ActiveExact' /\ active' \in Nat
    BY <1>4, ActiveStutter DEF vars
  <2> QED BY <1>4, <1>0, <2>1 DEF IInv, TypeOK, NoIdlePermit, vars
<1> QED BY <1>1, <1>2, <1>3, <1>4 DEF Next, Stopped

LEMMA SpecInv == Spec => []IInv
BY InitInv, StepInv, PTL DEF Spec

\* Every variable keeps its type; a worker holds an entry exactly while it is
\* between taking it from the queue and filing or releasing it.
THEOREM TypeCorrect == Spec => []TypeOK
<1>1. IInv => TypeOK
  BY DEF IInv
<1> QED BY <1>1, SpecInv, PTL

\* m_activeThreadCount counts exactly the workers between taking an entry and
\* coming back from its fiber, whatever the number of threads and fibers.
THEOREM ActiveCountExact == Spec => []ActiveExact
<1>1. IInv => ActiveExact
  BY DEF IInv
<1> QED BY <1>1, SpecInv, PTL

\* FiberSemaphore never keeps a permit while a fiber waits, however many
\* threads wait and notify.
THEOREM SemaphoreNoIdlePermit == Spec => []NoIdlePermit
<1>1. IInv => NoIdlePermit
  BY DEF IInv
<1> QED BY <1>1, SpecInv, PTL

---------------------------------------------------------------------------
(* Fibers that only yield READY *)

\* No code on a fiber leaves the pointer of its own fiber behind, nor schedules
\* that of another.
HoldFree == Ops \cap {"wait", "switch", "wake"} = {}

\* A queue has a fiber once.
Distinct == \A i, j \in DOMAIN queue : queue[i].fiber = queue[j].fiber => i = j

\* What is queued may be resumed.
QueuedInv == \A f \in Fibers : InQueue(f) => fstate[f] \in {"INIT", "READY"}

\* The state of a worker's fiber is the one that worker has written.
WorkerInv ==
  \A t \in Threads :
    /\ pc[t] \notin {"hold", "sethold"}
    /\ pc[t] = "swapin" => fstate[cur[t]] \in {"INIT", "READY"}
    /\ pc[t] = "run" => fstate[cur[t]] = "EXEC"
    /\ pc[t] \in {"swap", "out", "check"} => fstate[cur[t]] \in {"READY", "TERM", "EXCEPT"}

\* No fiber is with two workers, or with one and in the queue.
ApartInv ==
  \A t \in Threads :
    /\ \A u \in Threads : cur[t] = cur[u] /\ cur[t] # NoFiber => t = u
    /\ ~ InQueue(cur[t])

\* No fiber that has begun is lost.
KeptInv ==
  \A f \in Fibers : fstate[f] \notin {"INIT", "TERM", "EXCEPT"} => InQueue(f) \/ \E t \in Threads : cur[t] = f

PoolInv == TypeOK /\ waiters = <<>> /\ Distinct /\ QueuedInv /\ WorkerInv /\ ApartInv /\ KeptInv

---------------------------------------------------------------------------
(* The queue *)

\* Where an element that stays was before element i was removed.
Before(i, j) == IF j < i THEN j ELSE j + 1

\* What RemoveAt leaves.
LEMMA RemoveAtLeaves ==
  ASSUME NEW S, NEW s \in Seq(S), NEW i \in 1..Len(s)
  PROVE  /\ Len(RemoveAt(s, i)) = Len(s) - 1
         /\ \A j \in 1..(Len(s) - 1) : RemoveAt(s, i)[j] = s[Before(i, j)]
<1> DEFINE a == SubSeq(s, 1, i - 1)
           b == SubSeq(s, i + 1, Len(s))
<1>1. a \in Seq(S) /\ Len(a) = i - 1 /\ \A j \in 1..(i - 1) : a[j] = s[j]
  OBVIOUS
<1>2. b \in Seq(S) /\ Len(b) = Len(s) - i /\ \A j \in 1..(Len(s) - i) : b[j] = s[j + i]
  OBVIOUS
<1>3. RemoveAt(s, i) = a \o b
  BY DEF RemoveAt
<1> HIDE DEF a, b
<1>4. Len(a \o b) = Len(s) - 1
  BY <1>1, <1>2
<1>5. \A j \in 1..(Len(s) - 1) : (a \o b)[j] = s[Before(i, j)]
  <2>1. ASSUME NEW j \in 1..(Len(s) - 1), j < i PROVE (a \o b)[j] = s[Before(i, j)]
    BY <1>1, <1>2, <2>1 DEF Before
  <2>2. ASSUME NEW j \in 1..(Len(s) - 1), ~ (j < i) PROVE (a \o b)[j] = s[Before(i, j)]
    <3>1. (a \o b)[j] = b[j - Len(a)]
      BY <1>1, <1>2, <2>2
    <3>2. j - Len(a) \in 1..(Len(s) - i) /\ (j - Len(a)) + i = j + 1
      BY <1>1, <2>2
    <3>3. QED
      BY <1>2, <3>1, <3>2, <2>2 DEF Before
  <2>3. QED
    BY <2>1, <2>2
<1>6. QED
  BY <1>3, <1>4, <1>5

\* Taking an entry takes its fiber out of the queue, and no other.
LEMMA Taken ==
  ASSUME queue \in Seq(Entry), Distinct, NEW i \in DOMAIN queue, queue' = RemoveAt(queue, i)
  PROVE  /\ Distinct'
         /\ \A f \in Fibers \cup {NoFiber} : InQueue(f)' <=> InQueue(f) /\ f # queue[i].fiber
<1>1. i \in 1..Len(queue) /\ Len(queue) \in Nat
  OBVIOUS
<1>2. DOMAIN queue' = 1..(Len(queue) - 1) /\ \A j \in DOMAIN queue' : queue'[j] = queue[Before(i, j)]
  <2>1. queue' \in Seq(Entry)
    BY <1>1, RemoveAtType
  <2>2. /\ Len(queue') = Len(queue) - 1
        /\ \A j \in 1..(Len(queue) - 1) : queue'[j] = queue[Before(i, j)]
    BY <1>1, RemoveAtLeaves
  <2>3. DOMAIN queue' = 1..Len(queue')
    BY <2>1
  <2>4. QED
    BY <2>2, <2>3
<1>3. \A j \in DOMAIN queue' : Before(i, j) \in DOMAIN queue \ {i}
  BY <1>1, <1>2 DEF Before
<1>4. \A j, k \in DOMAIN queue' : Before(i, j) = Before(i, k) => j = k
  BY <1>1, <1>2 DEF Before
<1>5. \A k \in DOMAIN queue \ {i} : \E j \in DOMAIN queue' : Before(i, j) = k
  <2>1. ASSUME NEW k \in DOMAIN queue \ {i}, k < i PROVE \E j \in DOMAIN queue' : Before(i, j) = k
    BY <1>1, <1>2, <2>1 DEF Before
  <2>2. ASSUME NEW k \in DOMAIN queue \ {i}, k > i PROVE \E j \in DOMAIN queue' : Before(i, j) = k
    <3>1. k - 1 \in DOMAIN queue' /\ Before(i, k - 1) = k
      BY <1>1, <1>2, <2>2 DEF Before
    <3>2. QED
      BY <3>1
  <2>3. QED
    BY <1>1, <2>1, <2>2
<1>6. Distinct'
  BY <1>2, <1>3, <1>4 DEF Distinct
<1>7. \A k \in DOMAIN queue \ {i} : queue[k].fiber # queue[i].fiber
  BY DEF Distinct
<1>8. ASSUME NEW f PROVE InQueue(f)' <=> InQueue(f) /\ f # queue[i].fiber
  <2>1. InQueue(f)' => InQueue(f) /\ f # queue[i].fiber
    BY <1>2, <1>3, <1>7 DEF InQueue
  <2>2. ASSUME InQueue(f), f # queue[i].fiber PROVE InQueue(f)'
    <3>1. PICK k \in DOMAIN queue \ {i} : queue[k].fiber = f
      BY <2>2 DEF InQueue
    <3>2. PICK j \in DOMAIN queue' : Before(i, j) = k
      BY <1>5
    <3>3. QED
      BY <1>2, <3>1, <3>2 DEF InQueue
  <2>3. QED
    BY <2>1, <2>2
<1>9. QED
  BY <1>6, <1>8

\* What is queued is a fiber.
LEMMA QueuedFibers ==
  ASSUME TypeOK
  PROVE  \A f : InQueue(f) => f \in Fibers
<1>1. \A i \in DOMAIN queue : queue[i] \in Entry
  BY DEF TypeOK
<1>2. \A e \in Entry : e.fiber \in Fibers
  BY DEF Entry
<1>3. QED
  BY <1>1, <1>2 DEF InQueue

\* Scheduling a fiber that is not queued adds it, and no other.
LEMMA Scheduled ==
  ASSUME queue \in Seq(Entry), Distinct, NEW f \in Fibers, ~ InQueue(f), NEW u, Schedule(f, u)
  PROVE  /\ Distinct'
         /\ \A g \in Fibers \cup {NoFiber} : InQueue(g)' <=> InQueue(g) \/ g = f
<1> DEFINE n == Len(queue) + 1
<1>1. /\ DOMAIN queue' = DOMAIN queue \cup {n} /\ n \notin DOMAIN queue
      /\ \A j \in DOMAIN queue : queue'[j] = queue[j]
      /\ queue'[n].fiber = f
  BY DEF Schedule
<1>2. \A j \in DOMAIN queue : queue[j].fiber # f
  BY DEF InQueue
<1> HIDE DEF n
<1>3. Distinct'
  BY <1>1, <1>2 DEF Distinct
<1>4. QED
  BY <1>1, <1>3 DEF InQueue
---------------------------------------------------------------------------
(* The invariant *)

\* At the start there is no fiber but new ones.
LEMMA PoolInit == Init => PoolInv
<1> SUFFICES ASSUME Init PROVE PoolInv
  OBVIOUS
<1>1. TypeOK
  BY InitInv DEF IInv
<1>2. waiters = <<>> /\ Distinct /\ \A f : ~ InQueue(f)
  BY DEF Init, Distinct, InQueue
<1>3. WorkerInv
  BY DEF Init, WorkerInv
<1>4. ApartInv
  BY <1>2 DEF Init, ApartInv
<1>5. KeptInv
  BY DEF Init, KeptInv
<1>6. QED
  BY <1>1, <1>2, <1>3, <1>4, <1>5 DEF PoolInv, QueuedInv

\* The worker loop.
LEMMA PoolLoop ==
  ASSUME PoolInv, TypeOK', NEW t \in Threads, Loop(t)
  PROVE  PoolInv'
<1> USE FibersAssumption
<1>1. CASE Take(t)
  <2>1. PICK i \in Suitable(t) : /\ cur' = [cur EXCEPT ![t] = queue[i].fiber]
                                /\ queue' = RemoveAt(queue, i)
    BY <1>1 DEF Take
  <2> DEFINE f == queue[i].fiber
  <2>2. i \in DOMAIN queue /\ f \in Fibers /\ InQueue(f)
    <3>1. i \in DOMAIN queue
      BY <2>1 DEF Suitable
    <3>2. InQueue(f)
      BY <3>1 DEF InQueue
    <3>3. QED
      BY <3>1, <3>2, QueuedFibers DEF PoolInv
  <2>3. Distinct' /\ \A g \in Fibers \cup {NoFiber} : InQueue(g)' <=> InQueue(g) /\ g # f
    BY <2>1, <2>2, Taken DEF PoolInv, TypeOK
  <2> HIDE DEF f
  <2>4. /\ UNCHANGED <<fstate, waiters>>
        /\ cur[t] = NoFiber /\ pc[t] = "pick" /\ cur'[t] = f /\ pc'[t] = "swapin"
        /\ \A u \in Threads \ {t} : cur'[u] = cur[u] /\ pc'[u] = pc[u]
    BY <1>1, <2>1 DEF Take, Goto, PoolInv, TypeOK, f
  <2>5. fstate[f] \in {"INIT", "READY"}
    BY <2>2 DEF PoolInv, QueuedInv
  <2>6. \A u \in Threads : cur[u] # f
    BY <2>2 DEF PoolInv, ApartInv
  <2>7. QueuedInv'
    BY <2>3, <2>4 DEF PoolInv, QueuedInv
  <2>8. WorkerInv'
    BY <2>4, <2>5 DEF PoolInv, WorkerInv
  <2>9. \A u \in Threads : cur[u] \in Fibers \cup {NoFiber}
    BY DEF PoolInv, TypeOK
  <2>10. ApartInv'
    <3>1. \A u \in Threads : ~ InQueue(cur[u])'
      BY <2>2, <2>3, <2>4, <2>9 DEF PoolInv, ApartInv
    <3>2. \A u, v \in Threads : cur'[u] = cur'[v] /\ cur'[u] # NoFiber => u = v
      BY <2>4, <2>6 DEF PoolInv, ApartInv
    <3>3. QED
      BY <3>1, <3>2 DEF ApartInv, InQueue
  <2>11. KeptInv'
    BY <2>3, <2>4, <2>2 DEF PoolInv, KeptInv
  <2>12. QED
    BY <2>3, <2>4, <2>7, <2>8, <2>10, <2>11 DEF PoolInv
<1>2. CASE TakeNone(t) \/ Return(t) \/ Idle(t) \/ StopCall(t)
  <2>1. UNCHANGED <<queue, fstate, cur, waiters>>
    BY <1>2 DEF TakeNone, Return, Idle, StopCall
  <2>2. /\ \A u \in Threads \ {t} : pc'[u] = pc[u]
        /\ pc'[t] \in {"exit", "idle", "pick"} \/ (pc[t] = "out" /\ pc'[t] = "check")
    BY <1>2 DEF TakeNone, Return, Idle, StopCall, Goto, PoolInv, TypeOK
  <2>3. WorkerInv'
    BY <2>1, <2>2 DEF PoolInv, WorkerInv
  <2>4. QED
    BY <2>1, <2>3 DEF PoolInv, Distinct, QueuedInv, ApartInv, KeptInv, InQueue
<1>3. CASE DropEntry(t) \/ CheckOver(t)
  <2>1. /\ UNCHANGED <<queue, fstate, waiters>> /\ Over(cur[t])
        /\ cur'[t] = NoFiber /\ pc'[t] = "pick"
        /\ \A u \in Threads \ {t} : cur'[u] = cur[u] /\ pc'[u] = pc[u]
    BY <1>3 DEF DropEntry, CheckOver, Goto, PoolInv, TypeOK
  <2>2. WorkerInv'
    BY <2>1 DEF PoolInv, WorkerInv
  <2>3. ~ InQueue(NoFiber)
    BY QueuedFibers DEF PoolInv
  <2>4. ApartInv'
    <3>1. \A u \in Threads : ~ InQueue(cur[u])'
      BY <2>1, <2>3 DEF PoolInv, ApartInv, InQueue
    <3>2. QED
      BY <2>1, <3>1 DEF PoolInv, ApartInv, InQueue
  <2>5. KeptInv'
    BY <2>1 DEF PoolInv, KeptInv, Over, InQueue
  <2>6. QED
    BY <2>1, <2>2, <2>4, <2>5 DEF PoolInv, Distinct, QueuedInv, InQueue
<1>4. CASE SwapIn(t)
  <2> DEFINE f == cur[t]
  <2>1. f \in Fibers
    BY <1>4 DEF SwapIn, PoolInv, TypeOK
  <2> HIDE DEF f
  <2>2. /\ UNCHANGED <<queue, cur, waiters>> /\ pc'[t] = "run"
        /\ \A u \in Threads \ {t} : pc'[u] = pc[u]
        /\ fstate'[f] = "EXEC" /\ \A g \in Fibers \ {f} : fstate'[g] = fstate[g]
    BY <1>4, <2>1 DEF SwapIn, Goto, SetState, PoolInv, TypeOK, f
  <2>3. \A u \in Threads \ {t} : cur[u] # f
    BY <2>1 DEF PoolInv, ApartInv, f
  <2>4. ~ InQueue(f)
    BY DEF PoolInv, ApartInv, f
  <2>5. WorkerInv'
    <3>1. \A u \in Threads \ {t} : cur[u] \in Fibers => fstate'[cur[u]] = fstate[cur[u]]
      BY <2>2, <2>3
    <3>2. \A u \in Threads : pc[u] \in {"swapin", "run", "swap", "out", "check"} => cur[u] \in Fibers
      BY DEF PoolInv, TypeOK
    <3>3. QED
      BY <2>2, <3>1, <3>2 DEF PoolInv, WorkerInv, f
  <2>6. QueuedInv'
    BY <2>2, <2>4 DEF PoolInv, QueuedInv, InQueue
  <2>7. KeptInv'
    BY <2>2 DEF PoolInv, KeptInv, InQueue, f
  <2>8. QED
    BY <2>2, <2>5, <2>6, <2>7 DEF PoolInv, Distinct, ApartInv, InQueue
<1>5. CASE CheckReady(t)
  <2> DEFINE f == cur[t]
  <2>1. f \in Fibers /\ fstate[f] = "READY" /\ Schedule(f, AnyThread)
    BY <1>5 DEF CheckReady, PoolInv, TypeOK
  <2>2. ~ InQueue(f)
    BY DEF PoolInv, ApartInv
  <2>3. \A u \in Threads \ {t} : cur[u] # f
    BY <2>1 DEF PoolInv, ApartInv
  <2>4. /\ UNCHANGED <<fstate, waiters>>
        /\ cur'[t] = NoFiber /\ pc'[t] = "pick"
        /\ \A u \in Threads \ {t} : cur'[u] = cur[u] /\ pc'[u] = pc[u]
    BY <1>5 DEF CheckReady, Goto, PoolInv, TypeOK
  <2>5. Distinct' /\ \A g \in Fibers \cup {NoFiber} : InQueue(g)' <=> InQueue(g) \/ g = f
    BY <2>1, <2>2, Scheduled DEF PoolInv, TypeOK
  <2>6. KeptInv'
    BY <2>4, <2>5 DEF PoolInv, KeptInv
  <2> HIDE DEF f
  <2>7. QueuedInv'
    BY <2>1, <2>4, <2>5 DEF PoolInv, QueuedInv
  <2>8. WorkerInv'
    BY <2>4 DEF PoolInv, WorkerInv
  <2>9. ~ InQueue(NoFiber)
    BY QueuedFibers DEF PoolInv
  <2>10. ApartInv'
    <3>1. \A u \in Threads : cur[u] \in Fibers \cup {NoFiber}
      BY DEF PoolInv, TypeOK
    <3>2. \A u \in Threads : ~ InQueue(cur[u])'
      BY <2>1, <2>3, <2>4, <2>5, <2>9, <3>1 DEF PoolInv, ApartInv
    <3>3. QED
      BY <2>4, <3>2 DEF PoolInv, ApartInv, InQueue
  <2>11. QED
    BY <2>4, <2>5, <2>6, <2>7, <2>8, <2>10 DEF PoolInv
<1>6. CASE CheckOther(t) \/ SetHold(t)
  BY <1>6 DEF CheckOther, SetHold, Over, PoolInv, WorkerInv
<1>7. QED
  BY <1>1, <1>2, <1>3, <1>4, <1>5, <1>6 DEF Loop

\* A fiber that writes its own state while it executes.
LEMMA WritesOwn ==
  ASSUME PoolInv, NEW t \in Threads, pc[t] = "run", pc' = [pc EXCEPT ![t] = "swap"],
         NEW st \in {"READY", "TERM", "EXCEPT"}, SetState(cur[t], st),
         UNCHANGED <<queue, cur, waiters>>, TypeOK'
  PROVE  PoolInv'
<1> DEFINE f == cur[t]
<1>1. f \in Fibers
  BY DEF PoolInv, TypeOK
<1>2. \A u \in Threads \ {t} : cur[u] # f
  BY <1>1, FibersAssumption DEF PoolInv, ApartInv
<1>3. ~ InQueue(f)
  BY DEF PoolInv, ApartInv
<1> HIDE DEF f
<1>4. /\ pc'[t] = "swap" /\ \A u \in Threads \ {t} : pc'[u] = pc[u]
      /\ fstate'[f] = st /\ \A g \in Fibers \ {f} : fstate'[g] = fstate[g]
  BY <1>1 DEF SetState, PoolInv, TypeOK, f
<1>5. WorkerInv'
  <2>1. \A u \in Threads \ {t} : cur[u] \in Fibers => fstate'[cur[u]] = fstate[cur[u]]
    BY <1>2, <1>4
  <2>2. \A u \in Threads : pc[u] \in {"swapin", "run", "swap", "out", "check"} => cur[u] \in Fibers
    BY DEF PoolInv, TypeOK
  <2>3. QED
    BY <1>4, <2>1, <2>2 DEF PoolInv, WorkerInv, f
<1>6. QueuedInv'
  BY <1>3, <1>4 DEF PoolInv, QueuedInv, InQueue
<1>7. KeptInv'
  BY <1>4 DEF PoolInv, KeptInv, InQueue, f
<1>8. QED
  BY <1>5, <1>6, <1>7 DEF PoolInv, Distinct, ApartInv, InQueue

\* Scheduling a fiber nothing refers to.
LEMMA NewFiber ==
  ASSUME PoolInv, NEW f \in Fibers, NEW u, Unused(f), SetState(f, "INIT"), Schedule(f, u),
         UNCHANGED <<pc, cur, waiters>>, TypeOK'
  PROVE  PoolInv'
<1>1. /\ fstate'[f] = "INIT" /\ \A g \in Fibers \ {f} : fstate'[g] = fstate[g]
      /\ ~ InQueue(f) /\ \A t \in Threads : cur[t] # f
  BY DEF SetState, Unused, PoolInv, TypeOK
<1>2. Distinct' /\ \A g \in Fibers \cup {NoFiber} : InQueue(g)' <=> InQueue(g) \/ g = f
  BY <1>1, Scheduled DEF PoolInv, TypeOK
<1>3. QueuedInv'
  BY <1>1, <1>2 DEF PoolInv, QueuedInv
<1>4. \A t \in Threads : cur[t] \in Fibers \cup {NoFiber}
  BY DEF PoolInv, TypeOK
<1>5. WorkerInv'
  <2>1. \A t \in Threads : cur[t] \in Fibers => fstate'[cur[t]] = fstate[cur[t]]
    BY <1>1
  <2>2. \A t \in Threads : pc[t] \in {"swapin", "run", "swap", "out", "check"} => cur[t] \in Fibers
    BY DEF PoolInv, TypeOK
  <2>3. QED
    BY <2>1, <2>2 DEF PoolInv, WorkerInv
<1>6. ApartInv'
  <2>1. \A t \in Threads : ~ InQueue(cur[t])'
    BY <1>1, <1>2, <1>4 DEF PoolInv, ApartInv
  <2>2. QED
    BY <2>1 DEF PoolInv, ApartInv, InQueue
<1>7. KeptInv'
  BY <1>1, <1>2 DEF PoolInv, KeptInv
<1>8. QED
  BY <1>2, <1>3, <1>5, <1>6, <1>7 DEF PoolInv

\* The calls of a fiber that leaves its pointer with nobody.
LEMMA PoolCall ==
  ASSUME HoldFree, PoolInv, TypeOK', NEW t \in Threads, Call(t)
  PROVE  PoolInv'
<1>1. CASE WaitTakes(t) \/ WaitBlocks(t) \/ SwitchTo(t) \/ Wake(t)
  BY <1>1 DEF WaitTakes, WaitBlocks, SwitchTo, Wake, Calling, HoldFree
<1>2. CASE Notify(t)
  <2>1. UNCHANGED <<queue, fstate, pc, cur, waiters>>
    BY <1>2 DEF Notify, NotifyBody, PoolInv
  <2>2. QED
    BY <2>1 DEF PoolInv, Distinct, QueuedInv, WorkerInv, ApartInv, KeptInv, InQueue
<1>3. CASE Spawn(t)
  BY <1>3, NewFiber DEF Spawn
<1>4. CASE YieldToReady(t)
  BY <1>4, WritesOwn DEF YieldToReady, Calling, Goto
<1>5. CASE Finish(t)
  BY <1>5, WritesOwn DEF Finish, Goto
<1>6. QED
  BY <1>1, <1>2, <1>3, <1>4, <1>5 DEF Call

\* Every step.
LEMMA PoolStep ==
  ASSUME HoldFree, PoolInv, TypeOK', [Next]_vars
  PROVE  PoolInv'
<1>1. ASSUME NEW t \in Threads, Leave(t) PROVE PoolInv'
  <2>1. SwapOut(t)
    BY <1>1 DEF Leave, YieldToHold, PoolInv, WorkerInv
  <2>2. /\ UNCHANGED <<queue, fstate, cur, waiters>> /\ pc[t] = "swap" /\ pc'[t] = "out"
        /\ \A u \in Threads \ {t} : pc'[u] = pc[u]
    BY <2>1 DEF SwapOut, Goto, PoolInv, TypeOK
  <2>3. WorkerInv'
    BY <2>2 DEF PoolInv, WorkerInv
  <2>4. QED
    BY <2>2, <2>3 DEF PoolInv, Distinct, QueuedInv, ApartInv, KeptInv, InQueue
<1>2. CASE Submit
  BY <1>2, NewFiber DEF Submit
<1>3. CASE Stop \/ UNCHANGED vars
  <2>1. UNCHANGED <<queue, fstate, pc, cur, waiters>>
    BY <1>3 DEF Stop, vars
  <2>2. QED
    BY <2>1 DEF PoolInv, Distinct, QueuedInv, WorkerInv, ApartInv, KeptInv, InQueue
<1>4. QED
  BY <1>1, <1>2, <1>3, PoolLoop, PoolCall DEF Next, Stopped

\* So the invariant holds throughout.
LEMMA PoolAlways == HoldFree => (Spec => []PoolInv)
<1> SUFFICES ASSUME HoldFree PROVE Spec => []PoolInv
  OBVIOUS
<1>1. PoolInv /\ TypeOK' /\ [Next]_vars => PoolInv'
  BY PoolStep
<1>2. QED
  BY PoolInit, TypeCorrect, <1>1, PTL DEF Spec

\* One thread at a time executes a fiber's stack (Scheduler::run, Fiber::swapIn),
\* for any number of threads, if fibers only yield READY.
THEOREM OneExecutes == HoldFree => (Spec => []SingleExecution)
<1> SUFFICES ASSUME HoldFree PROVE Spec => []SingleExecution
  OBVIOUS
<1>1. PoolInv => SingleExecution
  BY DEF PoolInv, TypeOK, ApartInv, SingleExecution, Torn, OnFiber
<1>2. QED
  BY <1>1, PoolAlways, PTL

\* A suspended fiber is in one place that can resume it, neither lost nor twice
\* in the queue (Scheduler::schedule, run).
THEOREM OneHomeEach == HoldFree => (Spec => []OneHome)
<1> SUFFICES ASSUME HoldFree PROVE Spec => []OneHome
  OBVIOUS
<1>1. ASSUME PoolInv PROVE OneHome
  <2> SUFFICES ASSUME NEW f \in Fibers
      PROVE  LET carried == Cardinality({t \in Threads : cur[t] = f})
             IN  /\ Queued(f) + Waiting(f) <= 1
                 /\ ~Over(f) /\ fstate[f] # "INIT" => carried + Queued(f) + Waiting(f) >= 1
                 /\ fstate[f] = "INIT" => Queued(f) + carried <= 1 /\ Waiting(f) = 0
    BY DEF OneHome
  <2> DEFINE Q == {i \in DOMAIN queue : queue[i].fiber = f}
             C == {t \in Threads : cur[t] = f}
  <2>1. Waiting(f) = 0
    <3>1. {i \in DOMAIN waiters : waiters[i] = f} = {}
      BY <1>1 DEF PoolInv
    <3>2. QED
      BY <3>1, FS_EmptySet DEF Waiting
  <2>2. (Q = {} \/ \E i : Q = {i}) /\ (C = {} \/ \E t : C = {t}) /\ (Q = {} \/ C = {})
    <3>1. \A i, j \in Q : i = j
      BY <1>1 DEF PoolInv, Distinct
    <3>2. \A t, u \in C : t = u
      BY <1>1, FibersAssumption DEF PoolInv, ApartInv
    <3>3. Q = {} \/ C = {}
      BY <1>1 DEF PoolInv, ApartInv, InQueue
    <3> HIDE DEF Q, C
    <3>4. QED
      BY <3>1, <3>2, <3>3
  <2>3. ~ Over(f) /\ fstate[f] # "INIT" => Q # {} \/ C # {}
    BY <1>1 DEF PoolInv, KeptInv, Over, InQueue
  <2>4. Queued(f) = Cardinality(Q)
    BY DEF Queued
  <2> HIDE DEF Q
  <2>5. /\ Q = {} => Cardinality(Q) = 0
        /\ Q # {} => Cardinality(Q) = 1
        /\ C = {} => Cardinality(C) = 0
        /\ C # {} => Cardinality(C) = 1
    <3> HIDE DEF C
    <3>1. QED
      BY <2>2, FS_EmptySet, FS_Singleton
  <2>6. QED
    BY <2>1, <2>2, <2>3, <2>4, <2>5
<1>2. QED
  BY <1>1, PoolAlways, PTL
---------------------------------------------------------------------------
(* The end *)

\* ... and that schedule nothing.
SpawnFree == "spawn" \notin Ops

\* Once a worker has seen stopping() hold, nothing pinned is queued any more; and
\* who leaves last leaves an empty queue.
DrainInv ==
  /\ \A t \in Threads : idleTerm[t] \/ pc[t] = "exit" =>
       stopReq /\ \A i \in DOMAIN queue : queue[i].thread = AnyThread
  /\ AllExited => queue = <<>>

\* A step of the worker loop.
LEMMA DrainLoop ==
  ASSUME PoolInv, DrainInv, NEW t \in Threads, Loop(t)
  PROVE  DrainInv'
<1>1. CASE Take(t)
  <2>1. PICK i \in Suitable(t) : queue' = RemoveAt(queue, i)
    BY <1>1 DEF Take
  <2>2. i \in 1..Len(queue)
    BY <2>1 DEF Suitable, PoolInv, TypeOK
  <2>3. \A j \in DOMAIN queue' : \E k \in DOMAIN queue : queue'[j] = queue[k]
    <3>1. queue \in Seq(Entry) /\ queue' \in Seq(Entry)
      BY <2>1, <2>2, RemoveAtType DEF PoolInv, TypeOK
    <3>2. /\ Len(queue') = Len(queue) - 1
          /\ \A j \in 1..(Len(queue) - 1) : queue'[j] = queue[Before(i, j)]
      BY <2>1, <2>2, <3>1, RemoveAtLeaves
    <3>3. DOMAIN queue' = 1..(Len(queue) - 1) /\ DOMAIN queue = 1..Len(queue) /\ Len(queue) \in Nat
      BY <3>1, <3>2
    <3>4. \A j \in DOMAIN queue' : Before(i, j) \in DOMAIN queue
      BY <2>2, <3>3 DEF Before
    <3>5. QED
      BY <3>2, <3>3, <3>4
  <2>4. /\ UNCHANGED <<idleTerm, stopReq>> /\ pc'[t] = "swapin"
        /\ \A u \in Threads \ {t} : pc'[u] = pc[u]
    BY <1>1 DEF Take, Goto, PoolInv, TypeOK
  <2>5. QED
    BY <2>3, <2>4 DEF DrainInv, AllExited
<1>2. CASE TakeNone(t)
  <2>1. /\ UNCHANGED <<queue, idleTerm, stopReq>> /\ Suitable(t) = {}
        /\ pc'[t] = IF idleTerm[t] THEN "exit" ELSE "idle"
        /\ \A u \in Threads \ {t} : pc'[u] = pc[u]
    BY <1>2 DEF TakeNone, Goto, PoolInv, TypeOK
  <2>2. ASSUME idleTerm[t] PROVE queue = <<>>
    <3>1. \A i \in DOMAIN queue : queue[i].thread = AnyThread
      BY <2>2 DEF DrainInv
    <3>2. \A i \in DOMAIN queue : fstate[queue[i].fiber] # "EXEC"
      BY QueuedFibers DEF PoolInv, QueuedInv, InQueue
    <3>3. DOMAIN queue = {}
      BY <2>1, <3>1, <3>2 DEF Suitable
    <3>4. QED
      BY <3>3 DEF PoolInv, TypeOK
  <2>3. QED
    BY <2>1, <2>2 DEF DrainInv, AllExited
<1>3. CASE StopCall(t)
  <2>1. /\ UNCHANGED <<queue, idleTerm, stopReq>> /\ stopReq
        /\ pc'[t] = (IF Stopping THEN "exit" ELSE "pick")
        /\ \A u \in Threads \ {t} : pc'[u] = pc[u]
    BY <1>3 DEF StopCall, Goto, PoolInv, TypeOK
  <2>2. Stopping => queue = <<>>
    BY DEF Stopping
  <2>3. QED
    BY <2>1, <2>2 DEF DrainInv, AllExited
<1>4. CASE Idle(t)
  <2>1. /\ UNCHANGED <<queue, stopReq>> /\ pc'[t] = "pick"
        /\ \A u \in Threads \ {t} : pc'[u] = pc[u] /\ idleTerm'[u] = idleTerm[u]
        /\ idleTerm'[t] <=> Stopping
    BY <1>4 DEF Idle, Goto, PoolInv, TypeOK, Stopping
  <2>2. Stopping => queue = <<>> /\ stopReq
    BY DEF Stopping
  <2>3. QED
    BY <2>1, <2>2 DEF DrainInv, AllExited
<1>5. CASE CheckReady(t)
  <2>1. /\ UNCHANGED <<idleTerm, stopReq>> /\ pc'[t] = "pick" /\ Schedule(cur[t], AnyThread)
        /\ \A u \in Threads \ {t} : pc'[u] = pc[u]
    BY <1>5 DEF CheckReady, Goto, PoolInv, TypeOK
  <2>2. \A i \in DOMAIN queue' : \/ i \in DOMAIN queue /\ queue'[i] = queue[i]
                               \/ queue'[i].thread = AnyThread
    BY <2>1 DEF Schedule, PoolInv, TypeOK
  <2>3. QED
    BY <2>1, <2>2 DEF DrainInv, AllExited
<1>6. CASE DropEntry(t) \/ SwapIn(t) \/ Return(t) \/ CheckOver(t)
  <2>1. UNCHANGED <<queue, idleTerm, stopReq>>
    BY <1>6 DEF DropEntry, SwapIn, Return, CheckOver
  <2>2. pc'[t] \in {"pick", "run", "check"} /\ \A u \in Threads \ {t} : pc'[u] = pc[u]
    BY <1>6 DEF DropEntry, SwapIn, Return, CheckOver, Goto, PoolInv, TypeOK
  <2>3. QED
    BY <2>1, <2>2 DEF DrainInv, AllExited
<1>7. CASE CheckOther(t) \/ SetHold(t)
  BY <1>7 DEF CheckOther, SetHold, Over, PoolInv, WorkerInv
<1>8. QED
  BY <1>1, <1>2, <1>3, <1>4, <1>5, <1>6, <1>7 DEF Loop

\* Every step.
LEMMA DrainStep ==
  ASSUME HoldFree, SpawnFree, PoolInv, DrainInv, [Next]_vars
  PROVE  DrainInv'
<1>1. ASSUME NEW t \in Threads, Call(t) PROVE DrainInv'
  <2>1. UNCHANGED <<queue, idleTerm, stopReq>>
    BY <1>1 DEF Call, WaitTakes, WaitBlocks, Notify, NotifyBody, SwitchTo, Spawn, Wake,
                YieldToReady, Finish, Calling, HoldFree, SpawnFree, PoolInv
  <2>2. pc' = pc \/ pc' = [pc EXCEPT ![t] = "swap"]
    BY <1>1 DEF Call, WaitTakes, WaitBlocks, Notify, SwitchTo, Spawn, Wake, YieldToReady,
                Finish, Calling, Goto, HoldFree, SpawnFree
  <2>3. \A u \in Threads : pc'[u] = pc[u] \/ pc'[u] = "swap"
    BY <2>2 DEF PoolInv, TypeOK
  <2>4. QED
    BY <2>1, <2>3 DEF DrainInv, AllExited
<1>2. ASSUME NEW t \in Threads, Leave(t) PROVE DrainInv'
  <2>1. UNCHANGED <<queue, idleTerm, stopReq>>
    BY <1>2 DEF Leave, YieldToHold, SwapOut
  <2>2. \A u \in Threads : pc'[u] = pc[u] \/ pc'[u] \in {"swap", "out"}
    BY <1>2 DEF Leave, YieldToHold, SwapOut, Goto, PoolInv, TypeOK
  <2>3. QED
    BY <2>1, <2>2 DEF DrainInv, AllExited
<1>3. CASE Submit
  <2>1. ~ stopReq /\ UNCHANGED <<pc, idleTerm, stopReq>>
    BY <1>3 DEF Submit
  <2>2. \A t \in Threads : ~ idleTerm[t] /\ pc[t] # "exit"
    BY <2>1 DEF DrainInv
  <2>3. ~ AllExited
    BY <2>2, ThreadsAssumption DEF AllExited
  <2>4. QED
    BY <2>1, <2>2, <2>3 DEF DrainInv, AllExited
<1>4. CASE Stop
  BY <1>4 DEF Stop, DrainInv, AllExited
<1>5. CASE UNCHANGED vars
  BY <1>5 DEF vars, DrainInv, AllExited
<1>6. QED
  BY <1>1, <1>2, <1>3, <1>4, <1>5, DrainLoop DEF Next, Stopped

\* When stop() has joined the workers (Scheduler::stop, stopping()) nothing is
\* left in the queue, however entries are pinned, if fibers schedule nothing.
THEOREM Drains == HoldFree /\ SpawnFree => (Spec => []DrainedAtExit)
<1> SUFFICES ASSUME HoldFree, SpawnFree PROVE Spec => []DrainedAtExit
  OBVIOUS
<1>1. Init => DrainInv
  BY DEF Init, DrainInv, AllExited
<1>2. PoolInv /\ DrainInv /\ [Next]_vars => DrainInv'
  BY DrainStep
<1>3. DrainInv /\ ActiveExact => DrainedAtExit
  <2>1. AllExited => {t \in Threads : Busy(t)} = {}
    BY DEF AllExited, Busy
  <2>2. QED
    BY <2>1, FS_EmptySet DEF DrainInv, DrainedAtExit, ActiveExact
<1>4. QED
  BY <1>1, <1>2, <1>3, PoolAlways, ActiveCountExact, PTL DEF Spec
=============================================================================
