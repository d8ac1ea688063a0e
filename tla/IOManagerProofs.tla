-------------------------- MODULE IOManagerProofs --------------------------
(***************************************************************************)
(* For every number of workers, descriptors and tasks:                     *)
(*   - the type invariant, the exactness of the pending counter, and the   *)
(*     agreement of the contexts with the kernel's table (IInv).  They are *)
(*     proved together: the counter stays a natural number only because it *)
(*     counts registrations, and a reported event leads to the registered  *)
(*     context only because the table agrees;                              *)
(*   - every task is in one place: a context, the queue or a stack         *)
(*     (StackInv, OnceInv);                                                *)
(*   - the last worker leaves nothing behind (DrainInv).                   *)
(* For one worker: no assertion fails and every wait can be ended          *)
(* (LinkInv, OneInv); with two, TLC finds the runs that break both.        *)
(***************************************************************************)
EXTENDS IOManager, FiniteSetTheorems, SequenceTheorems, TLAPS

TaskPlaces   == {"new", "try", "lookup", "resize", "register", "yield", "hold",
                 "woken", "cancelAll", "close", "done"}
HoldPlaces   == {"fiber", "callback", "cancel"}
WorkerPlaces == HoldPlaces \cup {"loop", "timers", "pending", "scheduler", "again", "poll",
                                 "expire", "events", "exit"}

\* Registrations: the variables Trigger, Register and Close change.
RegInv ==
  /\ waiter \in [Context -> [Events -> Tasks \cup {None}]]
  /\ pending \in Nat
  /\ epoll \in [Fds -> [ptr : 0..MaxMade, on : SUBSET Events]]
  /\ open \in [Fds -> BOOLEAN]
  /\ PendingExact
  /\ KernelAgrees

\* The types of the rest.
CtxOK ==
  /\ size \in Nat
  /\ slot \in [Fds -> 0..MaxMade]
  /\ made \in [Fds -> 0..MaxMade]
CallOK ==
  /\ ready \in [Fds -> SUBSET (Events \cup {"HUP"})]
  /\ timer \in [Tasks -> {"none", "armed", "due"}]
  /\ cancelled \in [Tasks -> BOOLEAN]
  /\ call \in [Tasks -> 1..MaxCalls]
  /\ tpc \in [Tasks -> TaskPlaces]
  /\ found \in [Tasks -> 0..MaxMade]
PlaceOK ==
  /\ wpc \in [Workers -> WorkerPlaces]
  /\ cur \in [Workers -> Entry \cup {None}]
  /\ \A w \in Workers : cur[w] # None <=> wpc[w] \in HoldPlaces
RunOK ==
  /\ queue \in Seq(Entry)
  /\ PlaceOK
  /\ got \in [Workers -> SUBSET Report]
  /\ stopReq \in BOOLEAN /\ aborted \in BOOLEAN

IInv == RegInv /\ CtxOK /\ CallOK /\ RunOK

---------------------------------------------------------------------------
(* Sequences and sets *)

\* Removing one entry of a sequence leaves a sequence over the same set.
LEMMA RemoveAtType ==
  ASSUME NEW S, NEW s \in Seq(S), NEW i \in 1..Len(s)
  PROVE  RemoveAt(s, i) \in Seq(S)
<1>1. SubSeq(s, 1, i - 1) \in Seq(S)
  OBVIOUS
<1>2. SubSeq(s, i + 1, Len(s)) \in Seq(S)
  OBVIOUS
<1> QED BY <1>1, <1>2, ConcatProperties DEF RemoveAt

\* A finite set can be listed.
LEMMA SetToSeqType ==
  ASSUME NEW S, IsFiniteSet(S)
  PROVE  Cardinality(S) \in Nat /\ SetToSeq(S) \in [1..Cardinality(S) -> S]
<1>1. Cardinality(S) \in Nat /\ ExistsBijection(1..Cardinality(S), S)
  BY FS_CardinalityType
<1>2. \E f \in [1..Cardinality(S) -> S] : IsInjective(f)
  BY <1>1 DEF ExistsBijection, Bijection, Injection
<1> QED BY <1>1, <1>2 DEF SetToSeq

---------------------------------------------------------------------------
(* Registrations *)

LEMMA ContextFacts ==
  /\ IsFiniteSet(Pairs) /\ Cardinality(Pairs) \in Nat
  /\ MaxMade \in Nat /\ MaxCalls \in Nat \ {0}
<1>1. IsFiniteSet(0..MaxMade) /\ IsFiniteSet(Events)
  <2>1. IsFiniteSet(0..MaxMade)
    BY FS_Interval, BoundsAssumption
  <2>2. Events = {"READ"} \cup {"WRITE"}
    BY DEF Events
  <2> QED BY <2>1, <2>2, FS_Singleton, FS_AddElement
<1>2. IsFiniteSet(Context \X Events)
  BY <1>1, FS_Product, FdsAssumption DEF Context
<1>3. IsFiniteSet(Pairs)
  BY <1>2, FS_Subset DEF Pairs
<1> QED BY <1>3, FS_CardinalityType, BoundsAssumption

\* Entries triggerEvent schedules are entries of tasks.
LEMMA WokenType ==
  ASSUME RegInv, NEW c \in Context, NEW es \in SUBSET Events
  PROVE  Woken(c, es) \in Seq(Entry)
<1>1. \A e \in Events : Wakes(c, e, es) \in Seq(Entry)
  <2> TAKE e \in Events
  <2>1. CASE e \in es /\ waiter[c][e] # None
    <3>1. waiter[c][e] \in Tasks
      BY <2>1 DEF RegInv
    <3>2. FiberEntry(waiter[c][e]) \in Entry
      BY <3>1, BoundsAssumption DEF FiberEntry, Entry
    <3> QED BY <2>1, <3>2 DEF Wakes
  <2>2. CASE ~(e \in es /\ waiter[c][e] # None)
    BY <2>2 DEF Wakes
  <2> QED BY <2>1, <2>2
<1> QED BY <1>1, ConcatProperties DEF Woken, Events

\* Taking the registered events es out of a context takes as many pairs away.
LEMMA PairsWithout ==
  ASSUME RegInv, NEW c \in Context, NEW es \in SUBSET Registered(c),
         waiter' = [waiter EXCEPT ![c] = [e \in Events |-> IF e \in es THEN None ELSE @[e]]]
  PROVE  Cardinality(Pairs') = Cardinality(Pairs) - Cardinality(es)
<1> DEFINE R == <<c, "READ">>  W == <<c, "WRITE">>
<1>0. IsFiniteSet(Pairs) /\ Cardinality(Pairs) \in Nat
  BY ContextFacts
<1>1. es \in SUBSET Events /\ R # W
  BY DEF Registered
<1>2. Pairs' = {p \in Pairs : ~(p[1] = c /\ p[2] \in es)}
  <2>1. \A d \in Context, e \in Events :
          waiter'[d][e] = IF d = c /\ e \in es THEN None ELSE waiter[d][e]
    BY DEF RegInv
  <2> QED BY <2>1 DEF Pairs
<1>3. \A e \in es : <<c, e>> \in Pairs
  BY <1>1 DEF Pairs, Registered
<1>4. CASE es = {}
  <2>1. Pairs' = Pairs
    BY <1>2, <1>4
  <2> QED BY <2>1, <1>4, <1>0, FS_EmptySet
<1>5. CASE es = {"READ"}
  <2>1. Pairs' = Pairs \ {R}
    BY <1>2, <1>5 DEF Pairs
  <2>2. Cardinality(Pairs \ {R}) = Cardinality(Pairs) - 1
    BY <1>3, <1>5, <1>0, FS_RemoveElement
  <2> QED BY <2>1, <2>2, <1>5, FS_Singleton
<1>6. CASE es = {"WRITE"}
  <2>1. Pairs' = Pairs \ {W}
    BY <1>2, <1>6 DEF Pairs
  <2>2. Cardinality(Pairs \ {W}) = Cardinality(Pairs) - 1
    BY <1>3, <1>6, <1>0, FS_RemoveElement
  <2> QED BY <2>1, <2>2, <1>6, FS_Singleton
<1>7. CASE es = {"READ", "WRITE"}
  <2>1. Pairs' = (Pairs \ {R}) \ {W}
    BY <1>2, <1>7 DEF Pairs
  <2> DEFINE Q == Pairs \ {R}
  <2>2. R \in Pairs /\ W \in Q
    BY <1>3, <1>7, <1>1
  <2>3. IsFiniteSet(Q) /\ Cardinality(Q) = Cardinality(Pairs) - 1
    BY <2>2, <1>0, FS_RemoveElement
  <2>4. Cardinality(Q \ {W}) = Cardinality(Q) - 1
    <3> HIDE DEF Q, W
    <3> QED BY <2>2, <2>3, FS_RemoveElement
  <2>5. Cardinality(es) = 2
    <3>1. IsFiniteSet({"READ"}) /\ Cardinality({"READ"}) = 1
      BY FS_Singleton
    <3>2. es = {"READ"} \cup {"WRITE"} /\ "WRITE" \notin {"READ"}
      BY <1>7
    <3>3. Cardinality({"READ"} \cup {"WRITE"}) = 1 + 1
      BY <3>1, <3>2, FS_AddElement
    <3> QED BY <3>2, <3>3
  <2> QED BY <2>1, <2>3, <2>4, <2>5, <1>0
<1> QED BY <1>1, <1>4, <1>5, <1>6, <1>7 DEF Events

\* Only one context of an open descriptor has registrations.
LEMMA OneContext ==
  ASSUME RegInv, NEW c \in Context, NEW d \in Context, c[1] = d[1], open[c[1]],
         Registered(c) # {}, Registered(d) # {}
  PROVE  c = d
<1>1. /\ epoll[c[1]] = [ptr |-> c[2], on |-> Registered(c)]
      /\ epoll[d[1]] = [ptr |-> d[2], on |-> Registered(d)]
  BY Zenon DEF RegInv, KernelAgrees
<1>2. c[2] = d[2]
  BY <1>1
<1>3. c = <<c[1], c[2]>> /\ d = <<d[1], d[2]>>
  BY DEF Context
<1> QED BY <1>2, <1>3

\* Trigger keeps the registrations consistent.
LEMMA TriggerInv ==
  ASSUME RegInv, NEW c \in Context, NEW es \in SUBSET Registered(c), Registered(c) # {},
         open[c[1]], open' = open, queue \in Seq(Entry), Trigger(c, es)
  PROVE  RegInv' /\ queue' \in Seq(Entry)
<1>0. es \in SUBSET Events /\ c[1] \in Fds /\ c[2] \in 0..MaxMade
  BY DEF Registered, Context
<1>1. queue' \in Seq(Entry)
  BY <1>0, WokenType, ConcatProperties DEF Trigger
<1>2. waiter' = [waiter EXCEPT ![c] = [e \in Events |-> IF e \in es THEN None ELSE @[e]]]
  BY DEF Trigger
<1>3. waiter' \in [Context -> [Events -> Tasks \cup {None}]]
  BY <1>2 DEF RegInv
<1>4. PendingExact'
  <2>1. Cardinality(Pairs') = Cardinality(Pairs) - Cardinality(es)
    BY <1>2, PairsWithout
  <2> QED BY <2>1 DEF RegInv, PendingExact, Trigger
<1>5. IsFiniteSet(Pairs') /\ Cardinality(Pairs') \in Nat
  <2>1. IsFiniteSet(Pairs)
    BY ContextFacts
  <2>2. Pairs' \subseteq Pairs
    BY <1>2 DEF RegInv, Pairs
  <2> QED BY <2>1, <2>2, FS_Subset, FS_CardinalityType
<1>6. pending' \in Nat
  BY <1>4, <1>5 DEF PendingExact
<1>7. epoll' = [epoll EXCEPT ![c[1]] = [ptr |-> c[2], on |-> Registered(c) \ es]]
  BY DEF Trigger
<1>8. epoll' \in [Fds -> [ptr : 0..MaxMade, on : SUBSET Events]]
  BY <1>7, <1>0 DEF RegInv, Registered
<1>9. Registered(c)' = Registered(c) \ es
  BY <1>2 DEF RegInv, Registered
<1>10. \A d \in Context : d # c => Registered(d)' = Registered(d)
  BY <1>2 DEF RegInv, Registered
<1>11. KernelAgrees'
  <2> SUFFICES ASSUME NEW d \in Context, Registered(d)' # {}, open'[d[1]]
               PROVE  epoll'[d[1]] = [ptr |-> d[2], on |-> Registered(d)']
    BY DEF KernelAgrees
  <2>1. CASE d = c
    BY <2>1, <1>0, <1>7, <1>9 DEF RegInv
  <2>2. CASE d # c
    <3>1. Registered(d)' = Registered(d)
      BY <2>2, <1>10
    <3>2. d[1] # c[1]
      BY <2>2, <3>1, OneContext
    <3>3. epoll'[d[1]] = epoll[d[1]]
      BY <3>2, <1>7, <1>0 DEF Context, RegInv
    <3> QED BY <3>1, <3>3 DEF RegInv, KernelAgrees
  <2> QED BY <2>1, <2>2
<1> QED BY <1>1, <1>3, <1>4, <1>6, <1>8, <1>11 DEF RegInv

\* So does a registration.
LEMMA RegisterInv ==
  ASSUME RegInv, NEW t \in Tasks, NEW e \in Events, NEW c \in Context,
         waiter[c][e] = None,
         IF Registered(c) = {} THEN CanAdd(c[1]) ELSE CanChange(c[1]),
         epoll' = [epoll EXCEPT ![c[1]] = [ptr |-> c[2], on |-> Registered(c) \cup {e}]],
         pending' = pending + 1, open' = open,
         waiter' = [waiter EXCEPT ![c] = [@ EXCEPT ![e] = t]]
  PROVE  RegInv'
<1>0. c[1] \in Fds /\ c[2] \in 0..MaxMade /\ t # None /\ open[c[1]]
  BY NoneAssumption DEF Context, CanAdd, CanChange
<1>1. waiter' \in [Context -> [Events -> Tasks \cup {None}]]
  BY DEF RegInv
<1>2. epoll' \in [Fds -> [ptr : 0..MaxMade, on : SUBSET Events]]
  BY <1>0 DEF RegInv, Registered
<1>3. PendingExact' /\ pending' \in Nat
  <2>1. Pairs' = Pairs \cup {<<c, e>>} /\ <<c, e>> \notin Pairs
    <3>1. \A d \in Context, f \in Events :
            waiter'[d][f] = IF d = c /\ f = e THEN t ELSE waiter[d][f]
      BY DEF RegInv
    <3> QED BY <3>1, <1>0 DEF Pairs
  <2>2. Cardinality(Pairs') = Cardinality(Pairs) + 1
    BY <2>1, ContextFacts, FS_AddElement
  <2> QED BY <2>2 DEF RegInv, PendingExact
<1>4. Registered(c)' = Registered(c) \cup {e}
  BY <1>0 DEF RegInv, Registered
<1>5. \A d \in Context : d # c => Registered(d)' = Registered(d)
  BY DEF RegInv, Registered
<1>6. KernelAgrees'
  <2> SUFFICES ASSUME NEW d \in Context, Registered(d)' # {}, open'[d[1]]
               PROVE  epoll'[d[1]] = [ptr |-> d[2], on |-> Registered(d)']
    BY DEF KernelAgrees
  <2>1. CASE d = c
    BY <2>1, <1>0, <1>4 DEF RegInv
  <2>2. CASE d # c
    <3>1. Registered(d)' = Registered(d)
      BY <2>2, <1>5
    <3>2. d[1] # c[1]
      <4>1. CASE Registered(c) # {}
        BY <4>1, <2>2, <3>1, <1>0, OneContext
      <4>2. CASE Registered(c) = {}
        <5>1. epoll[c[1]].on = {}
          BY <4>2 DEF CanAdd
        <5>2. d[1] = c[1] => epoll[d[1]] = [ptr |-> d[2], on |-> Registered(d)]
          BY <3>1, <1>0, Zenon DEF RegInv, KernelAgrees
        <5> QED BY <5>1, <5>2, <3>1
      <4> QED BY <4>1, <4>2
    <3>3. epoll'[d[1]] = epoll[d[1]]
      BY <3>2, <1>0 DEF Context, RegInv
    <3> QED BY <3>1, <3>3 DEF RegInv, KernelAgrees
  <2> QED BY <2>1, <2>2
<1> QED BY <1>1, <1>2, <1>3, <1>6 DEF RegInv

---------------------------------------------------------------------------
(* Moves of workers and tasks *)

LEMMA RegStutter ==
  ASSUME RegInv, UNCHANGED <<wait, open>>
  PROVE  RegInv'
BY DEF RegInv, wait, PendingExact, Pairs, KernelAgrees, Registered

\* A worker that executes an entry has one.
LEMMA CurTask ==
  ASSUME PlaceOK, NEW w \in Workers, wpc[w] \in HoldPlaces
  PROVE  cur[w] \in Entry /\ cur[w].task \in Tasks
<1>1. cur[w] \in Entry
  BY DEF PlaceOK
<1> QED BY <1>1 DEF Entry

LEMMA PlaceGoto ==
  ASSUME PlaceOK, NEW w \in Workers, NEW q \in WorkerPlaces, Goto(w, q), cur' = cur,
         wpc[w] \in HoldPlaces <=> q \in HoldPlaces
  PROVE  PlaceOK'
BY DEF PlaceOK, Goto

LEMMA PlaceLeave ==
  ASSUME PlaceOK, NEW w \in Workers, Leave(w)
  PROVE  PlaceOK'
BY DEF PlaceOK, Leave, Goto, WorkerPlaces, HoldPlaces

LEMMA PlaceStutter ==
  ASSUME PlaceOK, wpc' = wpc, cur' = cur
  PROVE  PlaceOK'
BY DEF PlaceOK

\* do_io returns to a task that goes on or leaves.
LEMMA ReturnOK ==
  ASSUME PlaceOK, CallOK, NEW w \in Workers, NEW t \in Tasks, Return(w, t)
  PROVE  /\ PlaceOK'
         /\ call' \in [Tasks -> 1..MaxCalls] /\ cancelled' \in [Tasks -> BOOLEAN]
         /\ tpc' \in [Tasks -> TaskPlaces]
<1> MaxCalls \in Nat \ {0}
  BY BoundsAssumption
<1>1. CASE call[t] < MaxCalls
  <2>1. call[t] + 1 \in 1..MaxCalls
    BY <1>1 DEF CallOK
  <2>2. /\ call' = [call EXCEPT ![t] = @ + 1]
        /\ cancelled' = [cancelled EXCEPT ![t] = FALSE]
        /\ tpc' = [tpc EXCEPT ![t] = "try"]
        /\ wpc' = wpc /\ cur' = cur
    BY <1>1 DEF Return, TaskAt
  <2>3. PlaceOK'
    BY <2>2, PlaceStutter
  <2>4. call' \in [Tasks -> 1..MaxCalls]
    BY <2>1, <2>2 DEF CallOK
  <2>5. /\ cancelled' \in [Tasks -> BOOLEAN]
        /\ tpc' \in [Tasks -> TaskPlaces]
    BY <2>2 DEF CallOK, TaskPlaces
  <2> QED BY <2>3, <2>4, <2>5
<1>2. CASE ~(call[t] < MaxCalls)
  BY <1>2, PlaceLeave DEF Return, TaskAt, CallOK, TaskPlaces
<1> QED BY <1>1, <1>2

---------------------------------------------------------------------------
(* The invariant *)

LEMMA InitInv == Init => IInv
<1> SUFFICES ASSUME Init PROVE IInv
  OBVIOUS
<1>0. MaxMade \in Nat \ {0} /\ MaxCalls \in Nat \ {0} /\ Fds \subseteq Nat /\ InitSize \in Nat
  BY BoundsAssumption, FdsAssumption
<1>1. RegInv
  <2>1. Pairs = {}
    BY DEF Init, Pairs
  <2>2. PendingExact
    BY <2>1, FS_EmptySet DEF Init, PendingExact
  <2>3. \A c \in Context : Registered(c) = {}
    BY DEF Init, Registered
  <2> QED BY <2>2, <2>3, <1>0 DEF RegInv, Init, KernelAgrees
<1>2. CtxOK
  BY <1>0 DEF Init, CtxOK
<1>3. CallOK
  BY <1>0 DEF Init, CallOK, TaskPlaces
<1>4. RunOK
  <2>1. queue \in Seq(Entry)
    <3>1. PICK s \in SetToSeqs(Tasks) : queue = [i \in DOMAIN s |-> FiberEntry(s[i])]
      BY DEF Init
    <3>2. s \in [1..Cardinality(Tasks) -> Tasks] /\ Cardinality(Tasks) \in Nat
      BY <3>1, FS_CardinalityType, TasksAssumption DEF SetToSeqs
    <3>3. queue \in [1..Cardinality(Tasks) -> Entry]
      BY <3>1, <3>2, <1>0 DEF FiberEntry, Entry
    <3> QED BY <3>2, <3>3
  <2>2. PlaceOK
    BY DEF Init, PlaceOK, WorkerPlaces, HoldPlaces
  <2> QED BY <2>1, <2>2 DEF Init, RunOK
<1> QED BY <1>1, <1>2, <1>3, <1>4 DEF IInv

\* The worker loop and idle() preserve the invariant.
LEMMA WorkerInv ==
  ASSUME IInv, NEW w \in Workers,
         \/ Take(w) \/ EnterIdle(w) \/ Stopping(w) \/ EpollWait(w) \/ ListExpired(w)
         \/ Process(w) \/ SwapOut(w)
  PROVE  IInv'
<1>0. RegInv /\ CtxOK /\ CallOK /\ RunOK /\ PlaceOK
  BY DEF IInv, RunOK
<1> USE DEF WorkerPlaces, HoldPlaces
<1>1. CASE Take(w)
  <2>1. PICK i \in Suitable :
          /\ queue' = RemoveAt(queue, i)
          /\ cur' = [cur EXCEPT ![w] = queue[i]]
          /\ IF queue[i].kind = "timer"
             THEN Goto(w, "callback") /\ UNCHANGED tpc
             ELSE Goto(w, "fiber") /\ TaskAt(queue[i].task, Entered(queue[i].task))
    BY <1>1 DEF Take
  <2>2. i \in 1..Len(queue) /\ queue[i] \in Entry
    BY <1>0 DEF Suitable, RunOK
  <2>3. queue' \in Seq(Entry)
    BY <2>1, <2>2, <1>0, RemoveAtType DEF RunOK
  <2>4. queue[i] # None
    BY <2>2, NoneAssumption
  <2>5. \E q \in {"callback", "fiber"} : wpc' = [wpc EXCEPT ![w] = q]
    BY <2>1 DEF Goto
  <2>6. PlaceOK'
    BY <2>1, <2>2, <2>4, <2>5, <1>0 DEF PlaceOK
  <2>7. tpc' \in [Tasks -> TaskPlaces]
    BY <2>1, <1>0 DEF TaskAt, Entered, CallOK, TaskPlaces
  <2>8. UNCHANGED <<ctxs, wait, world, calls, found, got, stopReq, aborted>>
    BY <1>1 DEF Take
  <2>9. RegInv'
    BY <2>8, <1>0, RegStutter DEF world
  <2>10. CtxOK' /\ CallOK'
    BY <2>7, <2>8, <1>0 DEF CtxOK, CallOK, ctxs, calls, world
  <2> QED BY <2>3, <2>6, <2>8, <2>9, <2>10, <1>0 DEF IInv, RunOK
<1>2. CASE EnterIdle(w)
  <2>1. PlaceOK'
    BY <1>2, <1>0, PlaceGoto DEF EnterIdle
  <2>2. RegInv'
    BY <1>2, <1>0, RegStutter DEF EnterIdle, world
  <2> QED BY <1>2, <1>0, <2>1, <2>2
       DEF EnterIdle, IInv, CtxOK, CallOK, RunOK, ctxs, calls, world
<1>3. CASE Stopping(w)
  <2>1. PICK q \in {"pending", "scheduler", "again", "exit", "poll"} :
          Goto(w, q) /\ wpc[w] \in {"timers", "pending", "scheduler", "again"}
    BY <1>3 DEF Stopping
  <2>2. UNCHANGED <<ctxs, wait, world, calls, tpc, found, queue, cur, got, stopReq, aborted>>
    BY <1>3 DEF Stopping
  <2>3. PlaceOK'
    BY <2>1, <2>2, <1>0, PlaceGoto
  <2>4. RegInv'
    BY <2>2, <1>0, RegStutter DEF world
  <2> QED BY <2>2, <1>0, <2>3, <2>4 DEF IInv, CtxOK, CallOK, RunOK, ctxs, calls, world
<1>4. CASE EpollWait(w)
  <2>1. PlaceOK'
    BY <1>4, <1>0, PlaceGoto DEF EpollWait
  <2>2. got' \in [Workers -> SUBSET Report]
    <3> DEFINE Of(fd) == ready[fd] \cap (epoll[fd].on \cup {"HUP"})
               Rep(fd) == [fd |-> fd, ptr |-> epoll[fd].ptr, events |-> Of(fd)]
    <3>1. \A fd \in Fds : Rep(fd) \in Report
      BY <1>0 DEF RegInv, CallOK, Report
    <3>2. {Rep(fd) : fd \in {f \in Fds : epoll[f].on # {} /\ Of(f) # {}}} \in SUBSET Report
      BY <3>1
    <3>3. got' = [got EXCEPT ![w] = {Rep(fd) : fd \in {f \in Fds : epoll[f].on # {} /\ Of(f) # {}}}]
      BY <1>4 DEF EpollWait
    <3> HIDE DEF Rep, Of
    <3> QED BY <3>2, <3>3, <1>0 DEF RunOK
  <2>3. RegInv'
    BY <1>4, <1>0, RegStutter DEF EpollWait, world
  <2>4. UNCHANGED <<ctxs, world, calls, tpc, found, queue, stopReq, aborted>>
    BY <1>4 DEF EpollWait
  <2> QED BY <2>4, <1>0, <2>1, <2>2, <2>3 DEF IInv, CtxOK, CallOK, RunOK, ctxs, calls, world
<1>5. CASE ListExpired(w)
  <2>1. PlaceOK'
    BY <1>5, <1>0, PlaceGoto DEF ListExpired
  <2>2. queue' \in Seq(Entry)
    <3> DEFINE S == {t \in Tasks : timer[t] = "due"}
               due == SetToSeq(S)
               new == [i \in DOMAIN due |-> TimerEntry(due[i], call[due[i]])]
    <3>1. IsFiniteSet(S)
      BY TasksAssumption, FS_Subset
    <3>2. Cardinality(S) \in Nat /\ due \in [1..Cardinality(S) -> S]
      BY <3>1, SetToSeqType
    <3>3. \A t \in Tasks : TimerEntry(t, call[t]) \in Entry
      BY <1>0, BoundsAssumption DEF TimerEntry, Entry, CallOK
    <3>4. new \in Seq(Entry)
      <4> HIDE DEF due
      <4>1. new \in [1..Cardinality(S) -> Entry]
        BY <3>2, <3>3
      <4>2. \A n \in Nat : [1..n -> Entry] \subseteq Seq(Entry)
        OBVIOUS
      <4> QED BY <4>1, <4>2, <3>2, Zenon
    <3>5. queue' = queue \o new
      BY <1>5 DEF ListExpired
    <3> HIDE DEF new
    <3> QED BY <3>4, <3>5, <1>0, ConcatProperties DEF RunOK
  <2>3. timer' \in [Tasks -> {"none", "armed", "due"}]
    BY <1>5, <1>0 DEF ListExpired, CallOK
  <2>4. RegInv'
    BY <1>5, <1>0, RegStutter DEF ListExpired, world
  <2>5. UNCHANGED <<ctxs, world, cancelled, call, tpc, found, got, stopReq, aborted>>
    BY <1>5 DEF ListExpired
  <2> QED BY <2>5, <1>0, <2>1, <2>2, <2>3, <2>4
       DEF IInv, CtxOK, CallOK, RunOK, ctxs, world
<1>6. CASE Process(w)
  <2>1. PICK g \in got[w] :
          /\ got' = [got EXCEPT ![w] = @ \ {g}]
          /\ IF Registered(<<g.fd, g.ptr>>) \cap RealEvents(g) = {} \/ ~CanChange(g.fd)
             THEN UNCHANGED <<wait, queue, aborted>>
             ELSE IF RealEvents(g) \subseteq Registered(<<g.fd, g.ptr>>)
             THEN Trigger(<<g.fd, g.ptr>>, RealEvents(g)) /\ UNCHANGED aborted
             ELSE aborted' = TRUE /\ UNCHANGED <<wait, queue>>
    BY <1>6 DEF Process
  <2>2. <<g.fd, g.ptr>> \in Context
    BY <1>0 DEF RunOK, Report, Context
  <2>3. UNCHANGED <<ctxs, world, calls, tpc, found, wpc, cur, stopReq>>
    BY <1>6 DEF Process
  <2>4. RegInv' /\ queue' \in Seq(Entry) /\ aborted' \in BOOLEAN
    <3>1. CASE UNCHANGED <<wait, queue>> /\ aborted' \in BOOLEAN
      BY <3>1, <2>3, <1>0, RegStutter DEF world, RunOK
    <3>2. CASE /\ Registered(<<g.fd, g.ptr>>) \cap RealEvents(g) # {} /\ CanChange(g.fd)
               /\ RealEvents(g) \subseteq Registered(<<g.fd, g.ptr>>)
               /\ Trigger(<<g.fd, g.ptr>>, RealEvents(g)) /\ UNCHANGED aborted
      BY <3>2, <2>2, <2>3, <1>0, TriggerInv DEF world, RunOK, CanChange
    <3> QED BY <3>1, <3>2, <2>1, <1>0 DEF RunOK
  <2>5. got' \in [Workers -> SUBSET Report]
    BY <2>1, <1>0 DEF RunOK
  <2>6. PlaceOK'
    BY <2>3, <1>0, PlaceStutter
  <2> QED BY <2>3, <1>0, <2>4, <2>5, <2>6 DEF IInv, CtxOK, CallOK, RunOK, ctxs, calls, world
<1>7. CASE SwapOut(w)
  <2>1. PlaceOK'
    BY <1>7, <1>0, PlaceGoto DEF SwapOut
  <2>2. RegInv'
    BY <1>7, <1>0, RegStutter DEF SwapOut, world
  <2> QED BY <1>7, <1>0, <2>1, <2>2
       DEF SwapOut, IInv, CtxOK, CallOK, RunOK, ctxs, calls, world
<1> QED BY <1>1, <1>2, <1>3, <1>4, <1>5, <1>6, <1>7

\* What the actions of a fiber on a worker share.
LEMMA FiberTask ==
  ASSUME IInv, NEW w \in Workers, wpc[w] \in HoldPlaces
  PROVE  /\ cur[w].task \in Tasks
         /\ FdOf[cur[w].task] \in Fds /\ EventOf[cur[w].task] \in Events
         /\ found[cur[w].task] \in 0..MaxMade
<1>1. cur[w].task \in Tasks
  BY CurTask DEF IInv, RunOK
<1> QED BY <1>1, CallAssumption DEF IInv, CallOK

\* A hooked call preserves the invariant.
LEMMA IoInv ==
  ASSUME IInv, NEW w \in Workers,
         \/ TrySucceeds(w) \/ TryAgain(w) \/ LookUp(w) \/ Resize(w)
         \/ Register(w) \/ RegisterFails(w) \/ Yield(w)
         \/ ResumeTimedOut(w) \/ ResumeRetries(w)
  PROVE  IInv'
<1> DEFINE t == cur[w].task  fd == FdOf[t]  e == EventOf[t]  c == <<fd, found[t]>>
<1>0. RegInv /\ CtxOK /\ CallOK /\ RunOK /\ PlaceOK
  BY DEF IInv, RunOK
<1>w. wpc[w] = "fiber"
  BY DEF TrySucceeds, TryAgain, LookUp, Resize, Register, RegisterFails, Yield,
         ResumeTimedOut, ResumeRetries, At
<1>t. t \in Tasks /\ fd \in Fds /\ e \in Events /\ c \in Context
  BY <1>w, FiberTask DEF HoldPlaces, Context
<1> HIDE DEF t
<1>1. CASE TrySucceeds(w)
  <2>1. /\ Return(w, t)
        /\ ready' \in {[ready EXCEPT ![fd] = @ \ {e}]} \cup (IF e = "WRITE" THEN {ready} ELSE {})
        /\ UNCHANGED <<ctxs, wait, open, timer, found, queue, got, stopReq, aborted>>
    BY <1>1 DEF TrySucceeds, t
  <2>2. /\ PlaceOK' /\ tpc' \in [Tasks -> TaskPlaces]
        /\ call' \in [Tasks -> 1..MaxCalls] /\ cancelled' \in [Tasks -> BOOLEAN]
    BY <2>1, <1>0, <1>t, ReturnOK
  <2>3. ready' \in [Fds -> SUBSET (Events \cup {"HUP"})]
    BY <2>1, <1>0 DEF CallOK
  <2>4. RegInv'
    BY <2>1, <1>0, RegStutter
  <2> QED BY <2>1, <2>2, <2>3, <2>4, <1>0 DEF IInv, CtxOK, CallOK, RunOK, ctxs
<1>2. CASE TryAgain(w)
  <2>1. /\ TaskAt(t, "lookup")
        /\ timer' = IF t \in Timed THEN [timer EXCEPT ![t] = "armed"] ELSE timer
        /\ UNCHANGED <<ctxs, wait, world, cancelled, call, found, queue, wpc, cur, got, stopReq, aborted>>
    BY <1>2 DEF TryAgain, t
  <2>2. /\ tpc' \in [Tasks -> TaskPlaces]
        /\ timer' \in [Tasks -> {"none", "armed", "due"}]
    BY <2>1, <1>0 DEF TaskAt, CallOK, TaskPlaces
  <2>3. RegInv' /\ PlaceOK'
    BY <2>1, <1>0, RegStutter, PlaceStutter DEF world
  <2> QED BY <2>1, <2>2, <2>3, <1>0 DEF IInv, CtxOK, CallOK, RunOK, ctxs, world
<1>3. CASE LookUp(w)
  <2>1. /\ UNCHANGED <<ctxs, wait, world, calls, queue, wpc, cur, got, stopReq, aborted>>
        /\ found' \in {found, [found EXCEPT ![t] = slot[fd]]}
        /\ \E q \in {"register", "resize"} : TaskAt(t, q)
    BY <1>3 DEF LookUp, t
  <2>2. found' \in [Tasks -> 0..MaxMade] /\ tpc' \in [Tasks -> TaskPlaces]
    BY <2>1, <1>0, <1>t DEF TaskAt, CallOK, CtxOK, TaskPlaces
  <2>3. RegInv' /\ PlaceOK'
    BY <2>1, <1>0, RegStutter, PlaceStutter DEF world
  <2> QED BY <2>1, <2>2, <2>3, <1>0 DEF IInv, CtxOK, CallOK, RunOK, ctxs, calls, world
<1>4. CASE Resize(w)
  <2>1. /\ UNCHANGED <<wait, world, calls, queue, wpc, cur, got, stopReq, aborted>>
        /\ ContextResize((fd * 3) \div 2)
        /\ \A f \in Fds : made'[f] <= MaxMade
        /\ found' = [found EXCEPT ![t] = slot'[fd]]
        /\ TaskAt(t, "register")
    BY <1>4 DEF Resize, t
  <2>2. fd \in Nat /\ MaxMade \in Nat
    BY <1>t, FdsAssumption, BoundsAssumption
  <2>3. CtxOK'
    <3>1. size' \in Nat
      BY <2>1, <2>2 DEF ContextResize
    <3> DEFINE n == (fd * 3) \div 2
    <3>2. /\ made' = [f \in Fds |-> IF f < n /\ slot[f] = 0 THEN made[f] + 1 ELSE made[f]]
          /\ slot' = [f \in Fds |-> IF f >= n THEN 0
                                     ELSE IF slot[f] = 0 THEN made[f] + 1 ELSE slot[f]]
      BY <2>1 DEF ContextResize
    <3>3. ASSUME NEW f \in Fds
          PROVE  made'[f] \in 0..MaxMade /\ slot'[f] \in 0..MaxMade
      <4>1. made[f] \in Nat /\ slot[f] \in 0..MaxMade /\ made'[f] <= MaxMade
        BY <2>1, <2>2, <1>0 DEF CtxOK
      <4>2. f \in Nat /\ n \in Nat
        BY <2>2, FdsAssumption
      <4> HIDE DEF n
      <4>3. CASE f < n /\ slot[f] = 0
        BY <4>1, <4>2, <4>3, <3>2, <2>2
      <4>4. CASE ~(f < n /\ slot[f] = 0)
        BY <4>1, <4>2, <4>4, <3>2, <2>2
      <4> QED BY <4>3, <4>4
    <3>4. made' = [f \in Fds |-> made'[f]] /\ slot' = [f \in Fds |-> slot'[f]]
      BY <2>1 DEF ContextResize
    <3> QED BY <3>1, <3>3, <3>4 DEF CtxOK
  <2>4. found' \in [Tasks -> 0..MaxMade] /\ tpc' \in [Tasks -> TaskPlaces]
    BY <2>1, <2>3, <1>0, <1>t DEF TaskAt, CallOK, CtxOK, TaskPlaces
  <2>5. RegInv' /\ PlaceOK'
    BY <2>1, <1>0, RegStutter, PlaceStutter DEF world
  <2> QED BY <2>1, <2>3, <2>4, <2>5, <1>0 DEF IInv, CallOK, RunOK, calls, world
<1>5. CASE Register(w)
  <2>1. UNCHANGED <<ctxs, world, calls, found, queue, wpc, cur, got, stopReq>>
    BY <1>5 DEF Register
  <2>2. RegInv' /\ tpc' \in [Tasks -> TaskPlaces] /\ aborted' \in BOOLEAN
    <3>1. CASE e \in Registered(c)
      <4>1. aborted' = TRUE /\ UNCHANGED <<wait, tpc>>
        BY <3>1, <1>5 DEF Register, t
      <4> QED BY <4>1, <2>1, <1>0, RegStutter DEF world, CallOK
    <3>2. CASE e \notin Registered(c)
      <4>1. /\ IF Registered(c) = {} THEN CanAdd(fd) ELSE CanChange(fd)
            /\ epoll' = [epoll EXCEPT ![fd] = [ptr |-> found[t], on |-> Registered(c) \cup {e}]]
            /\ pending' = pending + 1
            /\ waiter' = [waiter EXCEPT ![c] = [@ EXCEPT ![e] = t]]
            /\ TaskAt(t, "yield") /\ UNCHANGED aborted
        BY <3>2, <1>5 DEF Register, t
      <4>2. waiter[c][e] = None
        BY <3>2, <1>t DEF Registered
      <4>3. c[1] = fd /\ c[2] = found[t] /\ open' = open
        BY <2>1 DEF world
      <4>4. RegInv'
        <5> HIDE DEF c, e, fd
        <5> QED BY <4>1, <4>2, <4>3, <1>0, <1>t, RegisterInv
      <4> QED BY <4>1, <4>4, <1>0 DEF TaskAt, CallOK, TaskPlaces, RunOK
    <3> QED BY <3>1, <3>2
  <2>3. PlaceOK'
    BY <2>1, <1>0, PlaceStutter
  <2> QED BY <2>1, <2>2, <2>3, <1>0 DEF IInv, CtxOK, CallOK, RunOK, ctxs, calls, world
<1>6. CASE RegisterFails(w)
  <2>1. /\ timer' = [timer EXCEPT ![t] = "none"]
        /\ Return(w, t)
        /\ UNCHANGED <<ctxs, wait, world, found, queue, got, stopReq, aborted>>
    BY <1>6 DEF RegisterFails, t
  <2>2. /\ PlaceOK' /\ tpc' \in [Tasks -> TaskPlaces]
        /\ call' \in [Tasks -> 1..MaxCalls] /\ cancelled' \in [Tasks -> BOOLEAN]
    BY <2>1, <1>0, <1>t, ReturnOK
  <2>3. timer' \in [Tasks -> {"none", "armed", "due"}]
    BY <2>1, <1>0 DEF CallOK
  <2>4. RegInv'
    BY <2>1, <1>0, RegStutter DEF world
  <2> QED BY <2>1, <2>2, <2>3, <2>4, <1>0 DEF IInv, CtxOK, CallOK, RunOK, ctxs, world
<1>7. CASE Yield(w)
  <2>1. /\ TaskAt(t, "hold") /\ Leave(w)
        /\ UNCHANGED <<ctxs, wait, world, calls, found, queue, got, stopReq, aborted>>
    BY <1>7 DEF Yield, t
  <2>2. PlaceOK' /\ RegInv'
    BY <2>1, <1>0, PlaceLeave, RegStutter DEF world
  <2>3. tpc' \in [Tasks -> TaskPlaces]
    BY <2>1, <1>0 DEF TaskAt, CallOK, TaskPlaces
  <2> QED BY <2>1, <2>2, <2>3, <1>0 DEF IInv, CtxOK, CallOK, RunOK, ctxs, calls, world
<1>8. CASE ResumeTimedOut(w)
  <2>1. /\ timer' = [timer EXCEPT ![t] = "none"]
        /\ Return(w, t)
        /\ UNCHANGED <<ctxs, wait, world, found, queue, got, stopReq, aborted>>
    BY <1>8 DEF ResumeTimedOut, t
  <2>2. /\ PlaceOK' /\ tpc' \in [Tasks -> TaskPlaces]
        /\ call' \in [Tasks -> 1..MaxCalls] /\ cancelled' \in [Tasks -> BOOLEAN]
    BY <2>1, <1>0, <1>t, ReturnOK
  <2>3. timer' \in [Tasks -> {"none", "armed", "due"}]
    BY <2>1, <1>0 DEF CallOK
  <2>4. RegInv'
    BY <2>1, <1>0, RegStutter DEF world
  <2> QED BY <2>1, <2>2, <2>3, <2>4, <1>0 DEF IInv, CtxOK, CallOK, RunOK, ctxs, world
<1>9. CASE ResumeRetries(w)
  <2>1. /\ timer' = [timer EXCEPT ![t] = "none"]
        /\ TaskAt(t, "try")
        /\ UNCHANGED <<ctxs, wait, world, cancelled, call, found, queue, wpc, cur, got, stopReq, aborted>>
    BY <1>9 DEF ResumeRetries, t
  <2>2. /\ tpc' \in [Tasks -> TaskPlaces]
        /\ timer' \in [Tasks -> {"none", "armed", "due"}]
    BY <2>1, <1>0 DEF TaskAt, CallOK, TaskPlaces
  <2>3. RegInv' /\ PlaceOK'
    BY <2>1, <1>0, RegStutter, PlaceStutter DEF world
  <2> QED BY <2>1, <2>2, <2>3, <1>0 DEF IInv, CtxOK, CallOK, RunOK, ctxs, world
<1> QED BY <1>1, <1>2, <1>3, <1>4, <1>5, <1>6, <1>7, <1>8, <1>9

\* The timer's callback and close preserve the invariant.
LEMMA CancelInv ==
  ASSUME IInv, NEW w \in Workers,
         TimerFires(w) \/ CancelEvent(w) \/ CancelAll(w) \/ Close(w)
  PROVE  IInv'
<1> DEFINE t == cur[w].task  fd == FdOf[t]  e == EventOf[t]  c == Here(fd)
<1>0. RegInv /\ CtxOK /\ CallOK /\ RunOK /\ PlaceOK
  BY DEF IInv, RunOK
<1>w. wpc[w] \in HoldPlaces
  BY DEF TimerFires, CancelEvent, CancelAll, Close, At, HoldPlaces
<1>t. t \in Tasks /\ fd \in Fds /\ e \in Events /\ c \in Context /\ c[1] = fd
  BY <1>w, <1>0, FiberTask DEF Here, Context, CtxOK
<1> HIDE DEF t
<1>1. CASE TimerFires(w)
  <2>1. UNCHANGED <<ctxs, wait, world, timer, call, tpc, found, queue, got, stopReq, aborted>>
    BY <1>1 DEF TimerFires
  <2>2. cancelled' \in [Tasks -> BOOLEAN] /\ PlaceOK'
    <3>1. CASE tpc[t] # "done" /\ call[t] = cur[w].call /\ ~cancelled[t]
      <4>1. cancelled' = [cancelled EXCEPT ![t] = TRUE] /\ Goto(w, "cancel") /\ cur' = cur
        BY <3>1, <1>1, Zenon DEF TimerFires, t
      <4> QED BY <4>1, <1>0, <1>w, PlaceGoto DEF HoldPlaces, WorkerPlaces, CallOK
    <3>2. CASE ~(tpc[t] # "done" /\ call[t] = cur[w].call /\ ~cancelled[t])
      <4>1. cancelled' = cancelled /\ Leave(w)
        BY <3>2, <1>1, Zenon DEF TimerFires, t
      <4> QED BY <4>1, <1>0, PlaceLeave DEF CallOK
    <3> QED BY <3>1, <3>2
  <2>3. RegInv'
    BY <2>1, <1>0, RegStutter DEF world
  <2> QED BY <2>1, <2>2, <2>3, <1>0 DEF IInv, CtxOK, CallOK, RunOK, ctxs, world
<1>2. CASE CancelEvent(w)
  <2>1. /\ IF size > fd /\ e \in Registered(c) /\ CanChange(fd)
           THEN Trigger(c, {e}) ELSE UNCHANGED <<wait, queue>>
        /\ Leave(w)
        /\ UNCHANGED <<ctxs, world, calls, tpc, found, got, stopReq, aborted>>
    BY <1>2 DEF CancelEvent, t
  <2>2. RegInv' /\ queue' \in Seq(Entry)
    <3>1. CASE UNCHANGED <<wait, queue>>
      BY <3>1, <2>1, <1>0, RegStutter DEF world, RunOK
    <3>2. CASE e \in Registered(c) /\ CanChange(fd) /\ Trigger(c, {e})
      <4>1. open[c[1]] /\ open' = open /\ {e} \in SUBSET Registered(c) /\ Registered(c) # {}
        BY <3>2, <2>1, <1>t DEF CanChange, world
      <4> HIDE DEF c, e
      <4> QED BY <4>1, <3>2, <1>t, <1>0, TriggerInv DEF RunOK
    <3> QED BY <3>1, <3>2, <2>1
  <2>3. PlaceOK'
    BY <2>1, <1>0, PlaceLeave
  <2> QED BY <2>1, <2>2, <2>3, <1>0 DEF IInv, CtxOK, CallOK, RunOK, ctxs, calls, world
<1>3. CASE CancelAll(w)
  <2>1. /\ IF size > fd /\ Registered(c) # {} /\ CanChange(fd)
           THEN Trigger(c, Registered(c)) ELSE UNCHANGED <<wait, queue>>
        /\ TaskAt(t, "close")
        /\ UNCHANGED <<ctxs, world, calls, found, wpc, cur, got, stopReq, aborted>>
    BY <1>3 DEF CancelAll, t
  <2>2. RegInv' /\ queue' \in Seq(Entry)
    <3>1. CASE UNCHANGED <<wait, queue>>
      BY <3>1, <2>1, <1>0, RegStutter DEF world, RunOK
    <3>2. CASE Registered(c) # {} /\ CanChange(fd) /\ Trigger(c, Registered(c))
      <4>1. open[c[1]] /\ open' = open
        BY <3>2, <2>1, <1>t DEF CanChange, world
      <4> HIDE DEF c
      <4> QED BY <4>1, <3>2, <1>t, <1>0, TriggerInv DEF RunOK
    <3> QED BY <3>1, <3>2, <2>1
  <2>3. PlaceOK' /\ tpc' \in [Tasks -> TaskPlaces]
    BY <2>1, <1>0, PlaceStutter DEF TaskAt, CallOK, TaskPlaces
  <2> QED BY <2>1, <2>2, <2>3, <1>0 DEF IInv, CtxOK, CallOK, RunOK, ctxs, calls, world
<1>4. CASE Close(w)
  <2>1. /\ open' = [open EXCEPT ![fd] = FALSE]
        /\ ready' = [ready EXCEPT ![fd] = {}]
        /\ epoll' = [epoll EXCEPT ![fd].on = {}]
        /\ TaskAt(t, "done") /\ Leave(w)
        /\ UNCHANGED <<ctxs, waiter, pending, calls, found, queue, got, stopReq, aborted>>
    BY <1>4 DEF Close, t
  <2>2. RegInv'
    <3>1. open' \in [Fds -> BOOLEAN] /\ epoll' \in [Fds -> [ptr : 0..MaxMade, on : SUBSET Events]]
      BY <2>1, <1>0 DEF RegInv
    <3>2. KernelAgrees'
      <4> SUFFICES ASSUME NEW d \in Context, Registered(d)' # {}, open'[d[1]]
                   PROVE  epoll'[d[1]] = [ptr |-> d[2], on |-> Registered(d)']
        BY DEF KernelAgrees
      <4>1. d[1] \in Fds /\ Registered(d)' = Registered(d)
        BY <2>1 DEF Context, Registered
      <4>2. d[1] # fd /\ open[d[1]]
        BY <2>1, <1>0, <1>t, <4>1 DEF RegInv
      <4>3. epoll'[d[1]] = epoll[d[1]]
        BY <2>1, <1>0, <4>1, <4>2 DEF RegInv
      <4> QED BY <4>1, <4>2, <4>3, <1>0 DEF RegInv, KernelAgrees
    <3>3. PendingExact'
      BY <2>1, <1>0 DEF RegInv, PendingExact, Pairs
    <3> QED BY <2>1, <1>0, <3>1, <3>2, <3>3 DEF RegInv
  <2>3. PlaceOK' /\ tpc' \in [Tasks -> TaskPlaces]
    BY <2>1, <1>0, PlaceLeave DEF TaskAt, CallOK, TaskPlaces
  <2>4. ready' \in [Fds -> SUBSET (Events \cup {"HUP"})]
    BY <2>1, <1>0 DEF CallOK
  <2> QED BY <2>1, <2>2, <2>3, <2>4, <1>0 DEF IInv, CtxOK, CallOK, RunOK, ctxs, calls
<1> QED BY <1>1, <1>2, <1>3, <1>4

LEMMA StepInv == IInv /\ [Next]_vars => IInv'
<1> SUFFICES ASSUME IInv, [Next]_vars PROVE IInv'
  OBVIOUS
<1>0. RegInv /\ CtxOK /\ CallOK /\ RunOK /\ PlaceOK
  BY DEF IInv, RunOK
<1>1. CASE \E w \in Workers : Work(w)
  BY <1>1, WorkerInv, IoInv, CancelInv DEF Work
<1>2. ASSUME NEW fd \in Fds, NEW e \in Events \cup {"HUP"}, BecomesReady(fd, e)
      PROVE  IInv'
  <2>1. RegInv' /\ PlaceOK'
    BY <1>2, <1>0, RegStutter, PlaceStutter DEF BecomesReady
  <2> QED BY <1>2, <1>0, <2>1 DEF BecomesReady, IInv, CtxOK, CallOK, RunOK, ctxs, calls
<1>3. ASSUME NEW t \in Tasks, Elapse(t)
      PROVE  IInv'
  <2>1. RegInv' /\ PlaceOK'
    BY <1>3, <1>0, RegStutter, PlaceStutter DEF Elapse, world
  <2> QED BY <1>3, <1>0, <2>1 DEF Elapse, IInv, CtxOK, CallOK, RunOK, ctxs, world
<1>4. CASE Stop
  <2>1. RegInv' /\ PlaceOK'
    BY <1>4, <1>0, RegStutter, PlaceStutter DEF Stop, world
  <2> QED BY <1>4, <1>0, <2>1 DEF Stop, IInv, CtxOK, CallOK, RunOK, ctxs, calls, world
<1>5. CASE UNCHANGED vars
  <2>1. RegInv' /\ PlaceOK'
    BY <1>5, <1>0, RegStutter, PlaceStutter DEF vars, world
  <2> QED BY <1>5, <1>0, <2>1 DEF vars, IInv, CtxOK, CallOK, RunOK, ctxs, calls, world
<1> QED BY <1>1, <1>2, <1>3, <1>4, <1>5 DEF Next

LEMMA SpecInv == Spec => []IInv
BY InitInv, StepInv, PTL DEF Spec

---------------------------------------------------------------------------
(* The theorems *)

\* Every variable of IOManager keeps its type; a worker holds an entry of the queue
\* exactly while it executes one.
THEOREM IOTypeCorrect == Spec => []TypeOK
<1>1. IInv => TypeOK
  BY Zenon DEF IInv, RegInv, CtxOK, CallOK, RunOK, PlaceOK, TypeOK, TaskPlaces, WorkerPlaces,
         HoldPlaces
<1> QED BY <1>1, SpecInv, PTL

\* m_pendingEventCount counts the registered events, whatever number of workers add,
\* trigger and cancel them: idle() neither leaves with I/O outstanding nor waits for
\* I/O that is gone (addEvent, cancelEvent, cancelAll, idle).
THEOREM PendingCountExact == Spec => []PendingExact
<1>1. IInv => PendingExact
  BY DEF IInv, RegInv
<1> QED BY <1>1, SpecInv, PTL

\* As long as a descriptor is open, its entry in the kernel names the one context
\* that has waiters, with exactly their events: no interleaving of addEvent with
\* idle(), the timers and close leaves a waiter the kernel does not know of.
THEOREM KernelTableAgrees == Spec => []KernelAgrees
<1>1. IInv => KernelAgrees
  BY DEF IInv, RegInv
<1> QED BY <1>1, SpecInv, PTL

---------------------------------------------------------------------------
(* Where a task is: with a context, in the queue, or on a worker's stack *)

Due    == {t \in Tasks : tpc[t] \in {"new", "yield", "hold"}}
Parked == {t \in Tasks : tpc[t] \in {"yield", "hold"}}
Runs   == {t \in Tasks : tpc[t] \notin {"new", "hold", "done"}}

Waiting(t) == \E c \in Context, e \in Events : waiter[c][e] = t
InQueue(t) == \E i \in 1..Len(queue) : queue[i] = FiberEntry(t)

\* A worker in a fiber has it on its stack alone; a running task is on a stack.
StackInv ==
  /\ \A w \in Workers : wpc[w] = "fiber" => \E t \in Runs : cur[w] = FiberEntry(t)
  /\ \A w \in Workers : wpc[w] \in {"callback", "cancel"} => cur[w].kind = "timer"
  /\ \A v, w \in Workers : wpc[w] = "fiber" /\ cur[w] = cur[v] => v = w
  /\ \A t \in Runs : OnStack(t)

\* Who waits has yielded or is about to, and waits for one event of one context.
WaitInv ==
  \A c \in Context, e \in Events : waiter[c][e] # None =>
    /\ waiter[c][e] \in Parked
    /\ \A d \in Context, f \in Events : waiter[d][f] = waiter[c][e] => d = c /\ f = e

\* Who is queued is queued once and does not wait.
QueueInv ==
  /\ \A i \in 1..Len(queue) : queue[i].kind = "fiber" =>
       \E t \in Due : queue[i] = FiberEntry(t) /\ ~Waiting(t)
  /\ \A i, j \in 1..Len(queue) : queue[i].kind = "fiber" /\ queue[i] = queue[j] => i = j

DueInv  == \A t \in Due : Waiting(t) \/ InQueue(t)
OnceInv == WaitInv /\ QueueInv /\ DueInv

---------------------------------------------------------------------------
(* Entries *)

LEMMA EntryFacts ==
  /\ \A t : FiberEntry(t).kind = "fiber" /\ FiberEntry(t).task = t
  /\ \A t, n : TimerEntry(t, n).kind = "timer"
  /\ \A t \in Tasks : FiberEntry(t) \in Entry /\ FiberEntry(t) # None
<1> MaxCalls \in Nat
  BY BoundsAssumption
<1> QED BY NoneAssumption DEF FiberEntry, TimerEntry, Entry

\* A fiber's entry names it.
LEMMA FiberEntryEq ==
  ASSUME NEW t, NEW u, FiberEntry(t) = FiberEntry(u)
  PROVE  t = u
BY EntryFacts

\* The fibers on a stack are those that run.
LEMMA StackRuns ==
  ASSUME PlaceOK, StackInv, NEW t \in Tasks, OnStack(t)
  PROVE  t \in Runs
<1>1. PICK w \in Workers : cur[w] = FiberEntry(t)
  BY DEF OnStack
<1>2. cur[w] # None /\ cur[w].kind = "fiber"
  BY <1>1, EntryFacts
<1>3. wpc[w] \in HoldPlaces
  BY <1>2 DEF PlaceOK
<1>4. wpc[w] = "fiber"
  <2>1. "fiber" # "timer"
    OBVIOUS
  <2> QED BY <1>2, <1>3, <2>1 DEF HoldPlaces, StackInv
<1>5. PICK u \in Runs : cur[w] = FiberEntry(u)
  BY <1>4 DEF StackInv
<1> QED BY <1>1, <1>5, FiberEntryEq

\* The task of a worker in a fiber.
LEMMA RunningTask ==
  ASSUME StackInv, NEW w \in Workers, wpc[w] = "fiber"
  PROVE  cur[w].task \in Runs /\ cur[w] = FiberEntry(cur[w].task)
<1>1. PICK t \in Runs : cur[w] = FiberEntry(t)
  BY DEF StackInv
<1> QED BY <1>1, EntryFacts

---------------------------------------------------------------------------
(* What keeps the stacks *)

\* Moves of workers that leave the stacks alone.
LEMMA StackSame ==
  ASSUME StackInv, Runs' = Runs, cur' = cur,
         \A w \in Workers : /\ wpc'[w] = "fiber" <=> wpc[w] = "fiber"
                            /\ wpc'[w] \in {"callback", "cancel"}
                                 => wpc[w] \in {"callback", "cancel"}
  PROVE  StackInv'
BY DEF StackInv, OnStack

\* A worker leaves the fiber it ran, or a callback.
LEMMA StackLeave ==
  ASSUME PlaceOK, StackInv, NEW w \in Workers, Leave(w),
         IF wpc[w] = "fiber" THEN Runs' = Runs \ {cur[w].task} ELSE Runs' = Runs,
         wpc[w] \in HoldPlaces
  PROVE  StackInv'
<1>1. /\ wpc' = [wpc EXCEPT ![w] = "loop"]
      /\ cur' = [cur EXCEPT ![w] = None]
  BY DEF Leave, Goto
<1>2. \A v \in Workers : v # w => wpc'[v] = wpc[v] /\ cur'[v] = cur[v]
  BY <1>1 DEF PlaceOK
<1>3. wpc'[w] = "loop" /\ cur'[w] = None
  BY <1>1 DEF PlaceOK
<1>4. \A v \in Workers : wpc'[v] = "fiber" => \E t \in Runs' : cur'[v] = FiberEntry(t)
  <2> SUFFICES ASSUME NEW v \in Workers, wpc'[v] = "fiber"
               PROVE  \E t \in Runs' : cur'[v] = FiberEntry(t)
    OBVIOUS
  <2>1. v # w /\ wpc[v] = "fiber" /\ cur'[v] = cur[v]
    BY <1>2, <1>3
  <2>2. PICK t \in Runs : cur[v] = FiberEntry(t)
    BY <2>1 DEF StackInv
  <2>3. t \in Runs'
    <3>1. CASE wpc[w] = "fiber"
      <4>1. cur[w] # cur[v]
        BY <2>1, <3>1 DEF StackInv
      <4>2. cur[w] = FiberEntry(cur[w].task)
        BY <3>1, RunningTask
      <4> QED BY <4>1, <4>2, <2>2, <3>1
    <3>2. CASE wpc[w] # "fiber"
      BY <3>2, <2>2
    <3> QED BY <3>1, <3>2
  <2> QED BY <2>1, <2>2, <2>3
<1>5. \A v \in Workers : wpc'[v] \in {"callback", "cancel"} => cur'[v].kind = "timer"
  BY <1>2, <1>3 DEF StackInv
<1>6. \A u, v \in Workers : wpc'[v] = "fiber" /\ cur'[v] = cur'[u] => u = v
  <2> SUFFICES ASSUME NEW u \in Workers, NEW v \in Workers, wpc'[v] = "fiber", cur'[v] = cur'[u]
               PROVE  u = v
    OBVIOUS
  <2>1. v # w /\ wpc[v] = "fiber" /\ cur'[v] = cur[v]
    BY <1>2, <1>3
  <2>2. cur[v] # None
    BY <2>1 DEF PlaceOK, HoldPlaces
  <2>3. u # w
    BY <2>1, <2>2, <1>3
  <2> QED BY <2>1, <2>3, <1>2 DEF StackInv
<1>7. \A t \in Runs' : OnStack(t)'
  <2> SUFFICES ASSUME NEW t \in Runs' PROVE OnStack(t)'
    OBVIOUS
  <2>1. t \in Runs
    OBVIOUS
  <2>2. PICK v \in Workers : cur[v] = FiberEntry(t)
    BY <2>1 DEF StackInv, OnStack
  <2>3. v # w
    <3>1. CASE wpc[w] = "fiber"
      <4>1. t # cur[w].task
        BY <3>1
      <4> QED BY <4>1, <2>2, EntryFacts
    <3>2. CASE wpc[w] # "fiber"
      <4>1. cur[w].kind = "timer"
        BY <3>2 DEF HoldPlaces, StackInv
      <4> QED BY <4>1, <2>2, EntryFacts
    <3> QED BY <3>1, <3>2
  <2> QED BY <2>2, <2>3, <1>2 DEF OnStack
<1> QED BY <1>4, <1>5, <1>6, <1>7 DEF StackInv

\* A worker takes a task that nobody runs, or a callback.
LEMMA StackTake ==
  ASSUME PlaceOK, StackInv, NEW w \in Workers, wpc[w] = "loop", NEW q \in {"fiber", "callback"},
         NEW a, cur' = [cur EXCEPT ![w] = a], Goto(w, q),
         IF q = "fiber"
         THEN \E t \in Tasks \ Runs : a = FiberEntry(t) /\ Runs' = Runs \cup {t}
         ELSE a.kind = "timer" /\ Runs' = Runs
  PROVE  StackInv'
<1>1. \A v \in Workers : v # w => wpc'[v] = wpc[v] /\ cur'[v] = cur[v]
  BY DEF PlaceOK, Goto
<1>2. wpc'[w] = q /\ cur'[w] = a /\ cur[w] = None
  BY DEF PlaceOK, Goto, HoldPlaces
<1>3. Runs \subseteq Runs' /\ (q = "fiber" => \E t \in Runs' : a = FiberEntry(t))
  OBVIOUS
<1>4. \A v \in Workers : wpc'[v] = "fiber" => \E t \in Runs' : cur'[v] = FiberEntry(t)
  BY <1>1, <1>2, <1>3 DEF StackInv
<1>5. \A v \in Workers : wpc'[v] \in {"callback", "cancel"} => cur'[v].kind = "timer"
  BY <1>1, <1>2 DEF StackInv
<1>6. \A v \in Workers : v # w => cur[v] # a \/ wpc[v] # "fiber"
  <2> SUFFICES ASSUME NEW v \in Workers, wpc[v] = "fiber", cur[v] = a
               PROVE  FALSE
    OBVIOUS
  <2>1. PICK u \in Runs : cur[v] = FiberEntry(u)
    BY DEF StackInv
  <2>2. CASE q = "fiber"
    BY <2>1, <2>2, FiberEntryEq
  <2>3. CASE q # "fiber"
    <3>1. a.kind = "timer" /\ a.kind = "fiber"
      BY <2>1, <2>3, EntryFacts
    <3> QED BY <3>1
  <2> QED BY <2>2, <2>3
<1>7. \A v \in Workers : v # w /\ q = "fiber" => cur[v] # a
  <2> SUFFICES ASSUME NEW v \in Workers, q = "fiber", cur[v] = a
               PROVE  FALSE
    OBVIOUS
  <2>1. PICK t \in Tasks \ Runs : a = FiberEntry(t)
    OBVIOUS
  <2> QED BY <2>1, StackRuns DEF OnStack
<1>8. \A u, v \in Workers : wpc'[v] = "fiber" /\ cur'[v] = cur'[u] => u = v
  BY <1>1, <1>2, <1>6, <1>7 DEF StackInv
<1>9. \A t \in Runs' : OnStack(t)'
  <2> SUFFICES ASSUME NEW t \in Runs' PROVE OnStack(t)'
    OBVIOUS
  <2>1. CASE t \in Runs
    <3>1. PICK v \in Workers : cur[v] = FiberEntry(t)
      BY <2>1 DEF StackInv, OnStack
    <3>2. v # w
      BY <3>1, <1>2, EntryFacts, <2>1 DEF Runs
    <3> QED BY <3>1, <3>2, <1>1 DEF OnStack
  <2>2. CASE t \notin Runs
    BY <2>2, <1>2 DEF OnStack
  <2> QED BY <2>1, <2>2
<1> QED BY <1>4, <1>5, <1>8, <1>9 DEF StackInv

---------------------------------------------------------------------------
(* What keeps every task in one place *)

LEMMA OnceSame ==
  ASSUME OnceInv, Due' = Due, Parked' = Parked, waiter' = waiter, queue' = queue
  PROVE  OnceInv'
BY DEF OnceInv, WaitInv, QueueInv, DueInv, Waiting, InQueue

\* Entries are appended: callbacks, or fibers that have just been taken out of their
\* context.
LEMMA OnceAppend ==
  ASSUME OnceInv, Due' = Due, Parked' = Parked, queue \in Seq(Entry),
         NEW s \in Seq(Entry), queue' = queue \o s, WaitInv',
         \A t \in Tasks : Waiting(t)' => Waiting(t),
         \A t \in Tasks : Waiting(t) /\ ~Waiting(t)' => \E i \in 1..Len(s) : s[i] = FiberEntry(t),
         \A i \in 1..Len(s) : s[i].kind = "fiber" =>
           \E t \in Tasks : s[i] = FiberEntry(t) /\ Waiting(t) /\ ~Waiting(t)',
         \A i, j \in 1..Len(s) : s[i].kind = "fiber" /\ s[i] = s[j] => i = j
  PROVE  OnceInv'
<1> DEFINE n == Len(queue)  m == Len(s)
<1>1. /\ n \in Nat /\ m \in Nat /\ Len(queue') = n + m
      /\ \A i \in 1..(n + m) : queue'[i] = IF i <= n THEN queue[i] ELSE s[i - n]
  BY ConcatProperties
<1>2. \A t \in Tasks : InQueue(t) => InQueue(t)'
  BY <1>1 DEF InQueue
<1>3. \A t \in Tasks : (\E i \in 1..m : s[i] = FiberEntry(t)) => InQueue(t)'
  <2> SUFFICES ASSUME NEW t \in Tasks, NEW i \in 1..m, s[i] = FiberEntry(t)
               PROVE  InQueue(t)'
    OBVIOUS
  <2>1. n + i \in 1..(n + m) /\ queue'[n + i] = s[i]
    BY <1>1
  <2> QED BY <2>1, <1>1 DEF InQueue
<1>4. \A t \in Tasks : Waiting(t) => t \in Due
  <2> SUFFICES ASSUME NEW t \in Tasks, Waiting(t) PROVE t \in Due
    OBVIOUS
  <2>1. PICK c \in Context, e \in Events : waiter[c][e] = t
    BY DEF Waiting
  <2>2. t # None
    BY NoneAssumption
  <2> QED BY <2>1, <2>2 DEF OnceInv, WaitInv, Due, Parked
<1>5. \A i \in 1..n : queue[i].kind = "fiber" =>
        \E t \in Due : queue[i] = FiberEntry(t) /\ ~Waiting(t)
  BY DEF OnceInv, QueueInv
<1>6. \A i \in 1..(n + m) : queue'[i].kind = "fiber" =>
        \E t \in Due' : queue'[i] = FiberEntry(t) /\ ~Waiting(t)'
  <2> SUFFICES ASSUME NEW i \in 1..(n + m), queue'[i].kind = "fiber"
               PROVE  \E t \in Due' : queue'[i] = FiberEntry(t) /\ ~Waiting(t)'
    OBVIOUS
  <2>1. CASE i <= n
    <3>1. i \in 1..n /\ queue'[i] = queue[i]
      BY <1>1, <2>1
    <3>2. PICK t \in Due : queue[i] = FiberEntry(t) /\ ~Waiting(t)
      BY <1>5, <3>1
    <3>3. t \in Tasks
      BY DEF Due
    <3> QED BY <3>1, <3>2, <3>3
  <2>2. CASE ~(i <= n)
    <3>1. i - n \in 1..m /\ queue'[i] = s[i - n]
      BY <1>1, <2>2
    <3>2. PICK t \in Tasks : s[i - n] = FiberEntry(t) /\ Waiting(t) /\ ~Waiting(t)'
      BY <3>1
    <3> QED BY <3>1, <3>2, <1>4
  <2> QED BY <2>1, <2>2
<1>7. \A i \in 1..n, j \in 1..m : queue[i].kind = "fiber" => queue[i] # s[j]
  <2> SUFFICES ASSUME NEW i \in 1..n, NEW j \in 1..m, queue[i].kind = "fiber", queue[i] = s[j]
               PROVE  FALSE
    OBVIOUS
  <2>1. PICK t \in Due : queue[i] = FiberEntry(t) /\ ~Waiting(t)
    BY <1>5
  <2>2. PICK u \in Tasks : s[j] = FiberEntry(u) /\ Waiting(u)
    OBVIOUS
  <2> QED BY <2>1, <2>2, FiberEntryEq
<1>8. \A i, j \in 1..(n + m) : queue'[i].kind = "fiber" /\ queue'[i] = queue'[j] => i = j
  <2> SUFFICES ASSUME NEW i \in 1..(n + m), NEW j \in 1..(n + m),
                      queue'[i].kind = "fiber", queue'[i] = queue'[j]
               PROVE  i = j
    OBVIOUS
  <2>1. CASE i <= n /\ j <= n
    <3>1. i \in 1..n /\ j \in 1..n /\ queue'[i] = queue[i] /\ queue'[j] = queue[j]
      BY <1>1, <2>1
    <3> QED BY <3>1 DEF OnceInv, QueueInv
  <2>2. CASE i <= n /\ ~(j <= n)
    <3>1. i \in 1..n /\ j - n \in 1..m /\ queue'[i] = queue[i] /\ queue'[j] = s[j - n]
      BY <1>1, <2>2
    <3> QED BY <3>1, <1>7
  <2>3. CASE ~(i <= n) /\ j <= n
    <3>1. j \in 1..n /\ i - n \in 1..m /\ queue'[i] = s[i - n] /\ queue'[j] = queue[j]
      BY <1>1, <2>3
    <3> QED BY <3>1, <1>7
  <2>4. CASE ~(i <= n) /\ ~(j <= n)
    <3>1. i - n \in 1..m /\ j - n \in 1..m /\ queue'[i] = s[i - n] /\ queue'[j] = s[j - n]
      BY <1>1, <2>4
    <3>2. i - n = j - n
      BY <3>1
    <3> QED BY <3>2, <1>1
  <2> QED BY <2>1, <2>2, <2>3, <2>4
<1>9. DueInv'
  <2> SUFFICES ASSUME NEW t \in Due PROVE Waiting(t)' \/ InQueue(t)'
    BY DEF DueInv
  <2>1. t \in Tasks
    BY DEF Due
  <2> QED BY <2>1, <1>2, <1>3 DEF OnceInv, DueInv
<1> QED BY <1>1, <1>6, <1>8, <1>9 DEF OnceInv, QueueInv

\* Callbacks are appended.
LEMMA OnceTimers ==
  ASSUME OnceInv, Due' = Due, Parked' = Parked, queue \in Seq(Entry), waiter' = waiter,
         NEW s \in Seq(Entry), queue' = queue \o s,
         \A i \in 1..Len(s) : s[i].kind = "timer"
  PROVE  OnceInv'
<1>1. \A t : Waiting(t)' <=> Waiting(t)
  BY DEF Waiting
<1>2. WaitInv'
  BY DEF OnceInv, WaitInv
<1>3. \A i \in 1..Len(s) : s[i].kind # "fiber"
  OBVIOUS
<1> QED BY <1>1, <1>2, <1>3, OnceAppend

\* Sequences of at most two entries.
LEMMA ShortConcat ==
  \A a, b : /\ <<>> \o <<>> = <<>>     /\ <<a>> \o <<>> = <<a>>
            /\ <<>> \o <<b>> = <<b>>   /\ Len(<<a>> \o <<b>>) = 2
            /\ (<<a>> \o <<b>>)[1] = a /\ (<<a>> \o <<b>>)[2] = b
<1> TAKE a, b
<1>1. <<>> \in Seq({a, b}) /\ <<a>> \in Seq({a, b}) /\ <<b>> \in Seq({a, b})
  OBVIOUS
<1>2. /\ <<>> \o <<>> = <<>>
      /\ <<a>> \o <<>> = <<a>>
      /\ <<>> \o <<b>> = <<b>>
  BY <1>1, ConcatEmptySeq
<1>3. Len(<<a>>) = 1 /\ Len(<<b>>) = 1 /\ <<a>>[1] = a /\ <<b>>[1] = b
  OBVIOUS
<1>4. /\ Len(<<a>> \o <<b>>) = 1 + 1
      /\ \A i \in 1..(1 + 1) : (<<a>> \o <<b>>)[i] = IF i <= 1 THEN <<a>>[i] ELSE <<b>>[i - 1]
  BY <1>1, <1>3, ConcatProperties
<1> QED BY <1>2, <1>3, <1>4

\* What triggerEvent schedules: one entry for each event that has a waiter.
LEMMA WokenShape ==
  ASSUME RegInv, NEW c \in Context, NEW es \in SUBSET Registered(c)
  PROVE  /\ \A i \in 1..Len(Woken(c, es)) : \E e \in es : Woken(c, es)[i] = FiberEntry(waiter[c][e])
         /\ \A e \in es : \E i \in 1..Len(Woken(c, es)) : Woken(c, es)[i] = FiberEntry(waiter[c][e])
         /\ waiter[c]["READ"] # waiter[c]["WRITE"] =>
              \A i, j \in 1..Len(Woken(c, es)) : Woken(c, es)[i] = Woken(c, es)[j] => i = j
<1> DEFINE a == FiberEntry(waiter[c]["READ"])  b == FiberEntry(waiter[c]["WRITE"])
<1>1. es \in SUBSET Events /\ \A e \in es : waiter[c][e] # None
  BY DEF Registered
<1>2. waiter[c]["READ"] # waiter[c]["WRITE"] => a # b
  BY FiberEntryEq
<1>3. /\ Wakes(c, "READ", es) = IF "READ" \in es THEN <<a>> ELSE <<>>
      /\ Wakes(c, "WRITE", es) = IF "WRITE" \in es THEN <<b>> ELSE <<>>
  BY <1>1 DEF Wakes
<1>4. CASE es = {}
  <2>1. Woken(c, es) = <<>>
    BY <1>3, <1>4, ShortConcat DEF Woken
  <2> QED BY <2>1, <1>4
<1>5. CASE es = {"READ"}
  <2>1. Woken(c, es) = <<a>>
    BY <1>3, <1>5, ShortConcat DEF Woken
  <2> HIDE DEF a
  <2>2. Len(<<a>>) = 1 /\ <<a>>[1] = a
    OBVIOUS
  <2>3. \A i \in 1..Len(<<a>>) : i = 1
    BY <2>2
  <2> QED BY <2>1, <2>2, <2>3, <1>5 DEF a
<1>6. CASE es = {"WRITE"}
  <2>1. Woken(c, es) = <<b>>
    BY <1>3, <1>6, ShortConcat DEF Woken
  <2> HIDE DEF b
  <2>2. Len(<<b>>) = 1 /\ <<b>>[1] = b
    OBVIOUS
  <2>3. \A i \in 1..Len(<<b>>) : i = 1
    BY <2>2
  <2> QED BY <2>1, <2>2, <2>3, <1>6 DEF b
<1>7. CASE es = {"READ", "WRITE"}
  <2> DEFINE s == Woken(c, es)
  <2>1. s = <<a>> \o <<b>>
    BY <1>3, <1>7 DEF Woken
  <2>2. Len(s) = 2 /\ s[1] = a /\ s[2] = b
    BY <2>1, ShortConcat
  <2> HIDE DEF a, b, s
  <2>3. \A i \in 1..Len(s) : i = 1 \/ i = 2
    BY <2>2
  <2>4. 1 \in 1..Len(s) /\ 2 \in 1..Len(s)
    BY <2>2
  <2>5. \A i \in 1..Len(s) : \E e \in es : s[i] = FiberEntry(waiter[c][e])
    BY <2>2, <2>3, <1>7 DEF a, b
  <2>6. \A e \in es : \E i \in 1..Len(s) : s[i] = FiberEntry(waiter[c][e])
    BY <2>2, <2>4, <1>7 DEF a, b
  <2>7. a # b => \A i, j \in 1..Len(s) : s[i] = s[j] => i = j
    BY <2>2, <2>3
  <2> QED BY <2>5, <2>6, <2>7, <1>2 DEF s
<1> QED BY <1>1, <1>4, <1>5, <1>6, <1>7 DEF Events

\* Who is triggered goes from its context to the queue.
LEMMA OnceTrigger ==
  ASSUME RegInv, OnceInv, Due' = Due, Parked' = Parked, queue \in Seq(Entry),
         NEW c \in Context, NEW es \in SUBSET Registered(c), Trigger(c, es)
  PROVE  OnceInv'
<1>0. /\ es \in SUBSET Events /\ \A e \in es : waiter[c][e] # None
      /\ "READ" \in Events /\ "WRITE" \in Events /\ c \in Context
  BY DEF Registered, Events
<1>1. queue' = queue \o Woken(c, es)
  BY DEF Trigger
<1>2. \A d \in Context, e \in Events :
        waiter'[d][e] = IF d = c /\ e \in es THEN None ELSE waiter[d][e]
  BY DEF Trigger, RegInv
<1>3. Woken(c, es) \in Seq(Entry)
  BY <1>0, WokenType
<1>4. \A t \in Tasks : t # None
  BY NoneAssumption
<1>5. WaitInv'
  BY <1>2 DEF OnceInv, WaitInv
<1>6. \A t \in Tasks : Waiting(t)' => Waiting(t)
  BY <1>2, <1>4 DEF Waiting
<1>7. \A e \in es : waiter[c][e] \in Tasks /\ Waiting(waiter[c][e])
  BY <1>0 DEF Waiting, RegInv
<1>8. \A t \in Tasks, e \in es : t = waiter[c][e] => ~Waiting(t)'
  <2> SUFFICES ASSUME NEW t \in Tasks, NEW e \in es, t = waiter[c][e],
                      NEW d \in Context, NEW f \in Events, waiter'[d][f] = t
               PROVE  FALSE
    BY DEF Waiting
  <2>1. waiter[c][e] # None /\ e \in Events
    BY <1>0
  <2>2. waiter[d][f] = waiter[c][e] /\ ~(d = c /\ f \in es)
    BY <1>2, <2>1
  <2>3. d = c /\ f = e
    BY <2>1, <2>2 DEF OnceInv, WaitInv
  <2> QED BY <2>2, <2>3
<1>9. \A t \in Tasks : Waiting(t) /\ ~Waiting(t)' => \E e \in es : t = waiter[c][e]
  BY <1>2 DEF Waiting
<1>10. \A t \in Tasks : Waiting(t) /\ ~Waiting(t)'
         => \E i \in 1..Len(Woken(c, es)) : Woken(c, es)[i] = FiberEntry(t)
  BY <1>9, WokenShape
<1>11. \A i \in 1..Len(Woken(c, es)) :
         \E t \in Tasks : Woken(c, es)[i] = FiberEntry(t) /\ Waiting(t) /\ ~Waiting(t)'
  <2> SUFFICES ASSUME NEW i \in 1..Len(Woken(c, es))
               PROVE  \E t \in Tasks : Woken(c, es)[i] = FiberEntry(t) /\ Waiting(t) /\ ~Waiting(t)'
    OBVIOUS
  <2>1. PICK e \in es : Woken(c, es)[i] = FiberEntry(waiter[c][e])
    BY WokenShape
  <2> QED BY <2>1, <1>7, <1>8
<1>12. \A i, j \in 1..Len(Woken(c, es)) : Woken(c, es)[i] = Woken(c, es)[j] => i = j
  <2>1. CASE waiter[c]["READ"] # waiter[c]["WRITE"]
    BY <2>1, WokenShape
  <2>2. CASE waiter[c]["READ"] = waiter[c]["WRITE"]
    <3>1. waiter[c]["READ"] = None
      <4> SUFFICES ASSUME waiter[c]["READ"] # None PROVE FALSE
        OBVIOUS
      <4>1. "WRITE" = "READ"
        BY <2>2, <1>0 DEF OnceInv, WaitInv
      <4> QED BY <4>1
    <3>2. es = {}
      BY <3>1, <2>2, <1>0 DEF Events
    <3>3. \A i \in 1..Len(Woken(c, es)) : FALSE
      BY <3>2, WokenShape
    <3> QED BY <3>3
  <2> QED BY <2>1, <2>2
<1> QED BY <1>1, <1>3, <1>5, <1>6, <1>10, <1>11, <1>12, OnceAppend

\* addEvent puts the running task into a context.
LEMMA OnceRegister ==
  ASSUME RegInv, OnceInv, NEW c \in Context, NEW e \in Events, NEW t \in Runs,
         t \notin Due, waiter[c][e] = None,
         waiter' = [waiter EXCEPT ![c] = [@ EXCEPT ![e] = t]],
         queue' = queue, Due' = Due \cup {t}, Parked' = Parked \cup {t}
  PROVE  OnceInv'
<1>0. t \in Tasks /\ t # None
  BY NoneAssumption DEF Runs
<1>1. \A d \in Context, f \in Events :
        waiter'[d][f] = IF d = c /\ f = e THEN t ELSE waiter[d][f]
  BY DEF RegInv
<1>2. \A d \in Context, f \in Events : waiter[d][f] # t
  BY <1>0 DEF OnceInv, WaitInv, Due, Parked
<1>3. WaitInv'
  BY <1>0, <1>1, <1>2 DEF OnceInv, WaitInv
<1>4. \A u \in Tasks : Waiting(u)' <=> (Waiting(u) \/ u = t)
  BY <1>0, <1>1, NoneAssumption DEF Waiting
<1>5. \A u \in Due : u \in Tasks /\ u # t
  BY DEF Due
<1>6. QueueInv'
  BY <1>4, <1>5 DEF OnceInv, QueueInv
<1>7. DueInv'
  BY <1>0, <1>4, <1>5 DEF OnceInv, DueInv, InQueue
<1> QED BY <1>3, <1>6, <1>7 DEF OnceInv

\* A worker takes an entry out of the queue.
LEMMA OnceTake ==
  ASSUME OnceInv, queue \in Seq(Entry), NEW i \in 1..Len(queue), queue' = RemoveAt(queue, i),
         waiter' = waiter,
         IF queue[i].kind = "fiber"
         THEN /\ Due' = Due \ {queue[i].task}
              /\ Parked' = Parked \ {queue[i].task}
         ELSE Due' = Due /\ Parked' = Parked
  PROVE  OnceInv'
<1> DEFINE n == Len(queue)  at(j) == IF j < i THEN j ELSE j + 1
<1>1. /\ n \in Nat /\ Len(queue') = n - 1
      /\ \A j \in 1..(n - 1) : queue'[j] = queue[at(j)]
  <2> DEFINE p == SubSeq(queue, 1, i - 1)  r == SubSeq(queue, i + 1, n)
  <2>1. /\ p \in Seq(Entry) /\ Len(p) = i - 1
        /\ \A j \in 1..(i - 1) : p[j] = queue[j]
    OBVIOUS
  <2>2. /\ r \in Seq(Entry) /\ Len(r) = n - i
        /\ \A j \in 1..(n - i) : r[j] = queue[i + j]
    OBVIOUS
  <2>3. queue' = p \o r
    BY DEF RemoveAt
  <2>4. n \in Nat /\ i \in 1..n
    OBVIOUS
  <2> HIDE DEF p, r, n
  <2>5. /\ Len(queue') = Len(p) + Len(r)
        /\ \A j \in 1..(Len(p) + Len(r)) :
             queue'[j] = IF j <= Len(p) THEN p[j] ELSE r[j - Len(p)]
    BY <2>1, <2>2, <2>3, ConcatProperties
  <2>6. Len(queue') = n - 1
    BY <2>1, <2>2, <2>4, <2>5
  <2>7. ASSUME NEW j \in 1..(n - 1) PROVE queue'[j] = queue[at(j)]
    <3>1. CASE j < i
      BY <3>1, <2>1, <2>2, <2>4, <2>5
    <3>2. CASE ~(j < i)
      <4>1. queue'[j] = r[j - (i - 1)] /\ j - (i - 1) \in 1..(n - i)
        BY <3>2, <2>1, <2>2, <2>4, <2>5
      <4>2. r[j - (i - 1)] = queue[i + (j - (i - 1))]
        BY <4>1, <2>2
      <4>3. i + (j - (i - 1)) = j + 1
        BY <2>4
      <4> QED BY <4>1, <4>2, <4>3, <3>2
    <3> QED BY <3>1, <3>2
  <2> QED BY <2>4, <2>6, <2>7
<1>2. \A j \in 1..(n - 1) : at(j) \in 1..n /\ at(j) # i
  BY <1>1
<1>3. \A j, k \in 1..(n - 1) : at(j) = at(k) => j = k
  BY <1>1
<1>4. \A k \in 1..n : k # i => \E j \in 1..(n - 1) : at(j) = k
  <2> SUFFICES ASSUME NEW k \in 1..n, k # i PROVE \E j \in 1..(n - 1) : at(j) = k
    OBVIOUS
  <2>1. CASE k < i
    <3>1. k \in 1..(n - 1) /\ at(k) = k
      BY <2>1, <1>1
    <3> QED BY <3>1
  <2>2. CASE k > i
    <3>1. k - 1 \in 1..(n - 1) /\ at(k - 1) = k
      BY <2>2, <1>1
    <3> QED BY <3>1
  <2> QED BY <2>1, <2>2, <1>1
<1> HIDE DEF at
<1>5. \A t : Waiting(t)' <=> Waiting(t)
  BY DEF Waiting
<1>6. \A k \in 1..n : queue[k].kind = "fiber" =>
        \E t \in Due : queue[k] = FiberEntry(t) /\ ~Waiting(t)
  BY DEF OnceInv, QueueInv
<1>7. \A t \in Due : t \in Due' \/ (queue[i] = FiberEntry(t) /\ ~Waiting(t))
  <2> SUFFICES ASSUME NEW t \in Due, t \notin Due'
               PROVE  queue[i] = FiberEntry(t) /\ ~Waiting(t)
    OBVIOUS
  <2>1. queue[i].kind = "fiber" /\ t = queue[i].task
    OBVIOUS
  <2>2. PICK u \in Due : queue[i] = FiberEntry(u) /\ ~Waiting(u)
    BY <2>1, <1>6
  <2> QED BY <2>1, <2>2, EntryFacts
<1>8. Due' \subseteq Due
  OBVIOUS
<1>9. \A k \in 1..n, t \in Due : k # i /\ queue[k] = FiberEntry(t) /\ ~Waiting(t) => t \in Due'
  <2> SUFFICES ASSUME NEW k \in 1..n, NEW t \in Due, k # i, queue[k] = FiberEntry(t), t \notin Due'
               PROVE  FALSE
    OBVIOUS
  <2>1. queue[i] = FiberEntry(t)
    BY <1>7
  <2>2. queue[k].kind = "fiber"
    BY EntryFacts
  <2> QED BY <2>1, <2>2 DEF OnceInv, QueueInv
<1>10. \A j \in 1..(n - 1) : queue'[j].kind = "fiber" =>
         \E t \in Due' : queue'[j] = FiberEntry(t) /\ ~Waiting(t)'
  BY <1>1, <1>2, <1>5, <1>6, <1>9
<1>11. \A j, k \in 1..(n - 1) : queue'[j].kind = "fiber" /\ queue'[j] = queue'[k] => j = k
  BY <1>1, <1>2, <1>3 DEF OnceInv, QueueInv
<1>12. WaitInv'
  <2> SUFFICES ASSUME NEW c \in Context, NEW e \in Events, waiter[c][e] # None
               PROVE  waiter[c][e] \in Parked'
    BY DEF OnceInv, WaitInv
  <2>1. waiter[c][e] \in Parked /\ waiter[c][e] \in Due /\ Waiting(waiter[c][e])
    BY DEF OnceInv, WaitInv, Parked, Due, Waiting
  <2>2. CASE queue[i].kind = "fiber"
    <3>1. waiter[c][e] \in Due'
      BY <1>7, <2>1
    <3> QED BY <3>1, <2>1, <2>2
  <2>3. CASE queue[i].kind # "fiber"
    BY <2>1, <2>3
  <2> QED BY <2>2, <2>3
<1>13. DueInv'
  <2> SUFFICES ASSUME NEW t \in Due', ~Waiting(t) PROVE InQueue(t)'
    BY <1>5 DEF DueInv
  <2>1. PICK k \in 1..n : queue[k] = FiberEntry(t)
    BY <1>8 DEF OnceInv, DueInv, InQueue
  <2>2. k # i
    <3> SUFFICES ASSUME k = i PROVE FALSE
      OBVIOUS
    <3>1. queue[i].kind = "fiber" /\ queue[i].task = t
      BY <2>1, EntryFacts
    <3> QED BY <3>1
  <2>3. PICK j \in 1..(n - 1) : at(j) = k
    BY <1>4, <2>2
  <2> QED BY <2>1, <2>3, <1>1 DEF InQueue
<1> QED BY <1>1, <1>10, <1>11, <1>12, <1>13 DEF OnceInv, QueueInv

---------------------------------------------------------------------------
(* The actions keep every task in one place *)

Active == {"try", "lookup", "resize", "register", "woken", "cancelAll", "close"}

\* A running task goes on.
LEMMA GoesOn ==
  ASSUME CallOK, NEW t \in Tasks, NEW q \in Active, TaskAt(t, q), tpc[t] \in Active
  PROVE  Due' = Due /\ Parked' = Parked /\ Runs' = Runs
BY DEF CallOK, TaskAt, Due, Parked, Runs, Active

\* A running task returns, or gives its worker up for a while.
LEMMA GoesOff ==
  ASSUME CallOK, NEW t \in Tasks, NEW q, TaskAt(t, q),
         (tpc[t] \in Active /\ q = "done") \/ (tpc[t] = "yield" /\ q = "hold")
  PROVE  Due' = Due /\ Parked' = Parked /\ Runs' = Runs \ {t}
BY DEF CallOK, TaskAt, Due, Parked, Runs, Active

LEMMA TasksSame ==
  ASSUME tpc' = tpc
  PROVE  Due' = Due /\ Parked' = Parked /\ Runs' = Runs
BY DEF Due, Parked, Runs

\* do_io returns.
LEMMA OnceReturn ==
  ASSUME IInv, StackInv, OnceInv, NEW w \in Workers, wpc[w] = "fiber",
         NEW t \in Tasks, t = cur[w].task, tpc[t] \in Active, Return(w, t), waiter' = waiter, queue' = queue
  PROVE  StackInv' /\ OnceInv'
<1>0. CallOK /\ PlaceOK
  BY DEF IInv, RunOK
<1>1. CASE call[t] < MaxCalls
  <2>1. TaskAt(t, "try") /\ wpc' = wpc /\ cur' = cur
    BY <1>1 DEF Return
  <2>2. Due' = Due /\ Parked' = Parked /\ Runs' = Runs
    BY <2>1, <1>0, GoesOn DEF Active
  <2> QED BY <2>1, <2>2, StackSame, OnceSame
<1>2. CASE ~(call[t] < MaxCalls)
  <2>1. TaskAt(t, "done") /\ Leave(w)
    BY <1>2 DEF Return
  <2>2. Due' = Due /\ Parked' = Parked /\ Runs' = Runs \ {t}
    BY <2>1, <1>0, GoesOff
  <2> QED BY <2>1, <2>2, <1>0, StackLeave, OnceSame DEF HoldPlaces
<1> QED BY <1>1, <1>2

\* The worker loop and idle().
LEMMA WorkerOnce ==
  ASSUME IInv, StackInv, OnceInv, NEW w \in Workers,
         \/ Take(w) \/ EnterIdle(w) \/ Stopping(w) \/ EpollWait(w) \/ ListExpired(w)
         \/ Process(w) \/ SwapOut(w)
  PROVE  StackInv' /\ OnceInv'
<1>0. RegInv /\ CallOK /\ RunOK /\ PlaceOK
  BY DEF IInv, RunOK
<1>1. CASE Take(w)
  <2>1. PICK i \in Suitable :
          /\ queue' = RemoveAt(queue, i)
          /\ cur' = [cur EXCEPT ![w] = queue[i]]
          /\ IF queue[i].kind = "timer"
             THEN Goto(w, "callback") /\ UNCHANGED tpc
             ELSE Goto(w, "fiber") /\ TaskAt(queue[i].task, Entered(queue[i].task))
    BY <1>1 DEF Take
  <2>2. i \in 1..Len(queue) /\ queue[i] \in Entry /\ queue \in Seq(Entry)
    BY <1>0 DEF Suitable, RunOK
  <2>3. wpc[w] = "loop" /\ waiter' = waiter
    BY <1>1 DEF Take, wait
  <2>4. CASE queue[i].kind = "timer"
    <3>1. cur' = [cur EXCEPT ![w] = queue[i]] /\ Goto(w, "callback") /\ tpc' = tpc
      BY <2>1, <2>4
    <3>2. Due' = Due /\ Parked' = Parked /\ Runs' = Runs
      BY <3>1, TasksSame
    <3>3. StackInv'
      <4> DEFINE a == queue[i]  q == "callback"
      <4>1. a.kind = "timer" /\ q # "fiber" /\ q \in {"fiber", "callback"}
        BY <2>4
      <4>2. cur' = [cur EXCEPT ![w] = a] /\ Goto(w, q)
        BY <3>1
      <4> HIDE DEF a, q
      <4> QED BY <1>0, <2>3, <3>2, <4>1, <4>2, StackTake
    <3>4. queue[i].kind # "fiber"
      BY <2>4
    <3> QED BY <2>1, <2>2, <2>3, <3>2, <3>3, <3>4, OnceTake
  <2>5. CASE queue[i].kind # "timer"
    <3>1. queue[i].kind = "fiber"
      BY <2>2, <2>5 DEF Entry
    <3>2. PICK t \in Due : queue[i] = FiberEntry(t) /\ ~Waiting(t)
      BY <2>2, <3>1 DEF OnceInv, QueueInv
    <3>3. queue[i].task = t /\ t \in Tasks
      BY <3>2, EntryFacts DEF Due
    <3>4. ~OnStack(t)
      BY <2>1, <3>1, <3>3 DEF Suitable
    <3>5. t \notin Runs
      BY <3>4 DEF StackInv
    <3>6. tpc[t] \in {"new", "hold"}
      BY <3>2, <3>5 DEF Due, Runs
    <3>7. TaskAt(t, Entered(t)) /\ Goto(w, "fiber") /\ Entered(t) \in {"woken", "cancelAll", "try"}
      BY <2>1, <2>5, <3>3 DEF Entered
    <3>8. Due' = Due \ {t} /\ Parked' = Parked \ {t} /\ Runs' = Runs \cup {t}
      BY <1>0, <3>3, <3>6, <3>7 DEF CallOK, TaskAt, Due, Parked, Runs
    <3>9. StackInv'
      <4> DEFINE a == queue[i]  q == "fiber"
      <4>1. q = "fiber" /\ a = FiberEntry(t)
        BY <3>2
      <4>2. cur' = [cur EXCEPT ![w] = a] /\ Goto(w, q)
        BY <2>1, <3>7
      <4> HIDE DEF a, q
      <4> QED BY <1>0, <2>3, <3>3, <3>5, <3>8, <4>1, <4>2, StackTake
    <3> QED BY <2>1, <2>2, <2>3, <3>1, <3>3, <3>8, <3>9, OnceTake
  <2> QED BY <2>4, <2>5
<1>2. CASE EnterIdle(w) \/ Stopping(w) \/ EpollWait(w) \/ SwapOut(w)
  <2>1. PICK q \in WorkerPlaces \ HoldPlaces : Goto(w, q) /\ wpc[w] \notin HoldPlaces
    <3> DEFINE stop == {"pending", "scheduler", "again", "exit", "poll"}
    <3>1. CASE Stopping(w)
      <4>1. \E q \in stop : Goto(w, q)
        BY <3>1 DEF Stopping
      <4>2. wpc[w] \notin HoldPlaces
        BY <3>1 DEF Stopping, HoldPlaces
      <4> QED BY <4>1, <4>2 DEF WorkerPlaces, HoldPlaces
    <3>2. CASE EnterIdle(w)
      BY <3>2 DEF EnterIdle, WorkerPlaces, HoldPlaces
    <3>3. CASE EpollWait(w)
      BY <3>3 DEF EpollWait, WorkerPlaces, HoldPlaces
    <3>4. CASE SwapOut(w)
      BY <3>4 DEF SwapOut, WorkerPlaces, HoldPlaces
    <3> QED BY <1>2, <3>1, <3>2, <3>3, <3>4
  <2>2. cur' = cur /\ tpc' = tpc /\ waiter' = waiter /\ queue' = queue
    BY <1>2 DEF EnterIdle, Stopping, EpollWait, SwapOut, wait
  <2>3. \A v \in Workers : /\ wpc'[v] = "fiber" <=> wpc[v] = "fiber"
                           /\ wpc'[v] \in {"callback", "cancel"} => wpc[v] \in {"callback", "cancel"}
    BY <2>1, <1>0 DEF PlaceOK, Goto, HoldPlaces
  <2>4. Due' = Due /\ Parked' = Parked /\ Runs' = Runs
    BY <2>2, TasksSame
  <2> QED BY <2>2, <2>3, <2>4, StackSame, OnceSame
<1>3. CASE ListExpired(w)
  <2>1. Goto(w, "events") /\ wpc[w] = "expire" /\ cur' = cur /\ tpc' = tpc /\ waiter' = waiter
    BY <1>3 DEF ListExpired, wait
  <2>2. Due' = Due /\ Parked' = Parked /\ Runs' = Runs
    BY <2>1, TasksSame
  <2>3. StackInv'
    <3>1. \A v \in Workers : /\ wpc'[v] = "fiber" <=> wpc[v] = "fiber"
                             /\ wpc'[v] \in {"callback", "cancel"} => wpc[v] \in {"callback", "cancel"}
      BY <2>1, <1>0 DEF PlaceOK, Goto
    <3> QED BY <2>1, <2>2, <3>1, StackSame
  <2>4. \E s \in Seq(Entry) : queue' = queue \o s /\ \A i \in 1..Len(s) : s[i].kind = "timer"
    <3> DEFINE S == {t \in Tasks : timer[t] = "due"}
               due == SetToSeq(S)
               new == [i \in DOMAIN due |-> TimerEntry(due[i], call[due[i]])]
    <3>1. IsFiniteSet(S)
      BY TasksAssumption, FS_Subset
    <3>2. Cardinality(S) \in Nat /\ due \in [1..Cardinality(S) -> S]
      BY <3>1, SetToSeqType
    <3>3. \A t \in Tasks : TimerEntry(t, call[t]) \in Entry
      BY <1>0, BoundsAssumption DEF TimerEntry, Entry, CallOK
    <3>4. new \in Seq(Entry) /\ \A i \in 1..Len(new) : new[i].kind = "timer"
      <4> HIDE DEF due
      <4>1. new \in [1..Cardinality(S) -> Entry]
        BY <3>2, <3>3
      <4>2. \A n \in Nat : [1..n -> Entry] \subseteq Seq(Entry)
        OBVIOUS
      <4>3. new \in Seq(Entry)
        BY <4>1, <4>2, <3>2, Zenon
      <4>4. DOMAIN new = DOMAIN due
        OBVIOUS
      <4>5. \A i \in DOMAIN new : new[i].kind = "timer"
        BY <4>4, EntryFacts
      <4>6. 1..Len(new) = DOMAIN new
        <5> HIDE DEF new
        <5> QED BY <4>3, LenProperties
      <4> QED BY <4>3, <4>5, <4>6
    <3>5. queue' = queue \o new
      BY <1>3 DEF ListExpired
    <3> HIDE DEF new
    <3> QED BY <3>4, <3>5
  <2> QED BY <2>1, <2>2, <2>3, <2>4, <1>0, OnceTimers DEF RunOK
<1>4. CASE Process(w)
  <2>1. PICK g \in got[w] :
          IF Registered(<<g.fd, g.ptr>>) \cap RealEvents(g) = {} \/ ~CanChange(g.fd)
          THEN UNCHANGED <<wait, queue, aborted>>
          ELSE IF RealEvents(g) \subseteq Registered(<<g.fd, g.ptr>>)
          THEN Trigger(<<g.fd, g.ptr>>, RealEvents(g)) /\ UNCHANGED aborted
          ELSE aborted' = TRUE /\ UNCHANGED <<wait, queue>>
    BY <1>4 DEF Process
  <2>2. <<g.fd, g.ptr>> \in Context
    BY <1>0 DEF RunOK, Report, Context
  <2>3. tpc' = tpc /\ wpc' = wpc /\ cur' = cur
    BY <1>4 DEF Process
  <2>4. Due' = Due /\ Parked' = Parked /\ Runs' = Runs
    BY <2>3, TasksSame
  <2>5. StackInv'
    BY <2>3, <2>4, StackSame
  <2>6. CASE UNCHANGED <<wait, queue>>
    BY <2>4, <2>5, <2>6, OnceSame DEF wait
  <2>7. CASE /\ RealEvents(g) \subseteq Registered(<<g.fd, g.ptr>>)
             /\ Trigger(<<g.fd, g.ptr>>, RealEvents(g))
    BY <2>2, <2>4, <2>5, <2>7, <1>0, OnceTrigger DEF RunOK
  <2> QED BY <2>1, <2>6, <2>7
<1> QED BY <1>1, <1>2, <1>3, <1>4

\* A hooked call.
LEMMA IoOnce ==
  ASSUME IInv, StackInv, OnceInv, NEW w \in Workers,
         \/ TrySucceeds(w) \/ TryAgain(w) \/ LookUp(w) \/ Resize(w)
         \/ Register(w) \/ RegisterFails(w) \/ Yield(w)
         \/ ResumeTimedOut(w) \/ ResumeRetries(w)
  PROVE  StackInv' /\ OnceInv'
<1> DEFINE t == cur[w].task
<1>0. RegInv /\ CallOK /\ RunOK /\ PlaceOK
  BY DEF IInv, RunOK
<1>w. wpc[w] = "fiber"
  BY DEF TrySucceeds, TryAgain, LookUp, Resize, Register, RegisterFails, Yield,
         ResumeTimedOut, ResumeRetries, At
<1>t. /\ t \in Tasks /\ t \in Runs /\ FdOf[t] \in Fds /\ EventOf[t] \in Events
      /\ <<FdOf[t], found[t]>> \in Context
  BY <1>w, FiberTask, RunningTask DEF HoldPlaces, Context
<1> HIDE DEF t
<1>1. CASE TrySucceeds(w)
  <2>1. Return(w, t) /\ tpc[t] \in Active /\ waiter' = waiter /\ queue' = queue
    BY <1>1 DEF TrySucceeds, t, At, Active, wait
  <2> QED BY <2>1, <1>w, <1>t, OnceReturn DEF t
<1>2. CASE RegisterFails(w)
  <2>1. Return(w, t) /\ tpc[t] \in Active /\ waiter' = waiter /\ queue' = queue
    BY <1>2 DEF RegisterFails, t, At, Active, wait
  <2> QED BY <2>1, <1>w, <1>t, OnceReturn DEF t
<1>3. CASE ResumeTimedOut(w)
  <2>1. Return(w, t) /\ tpc[t] \in Active /\ waiter' = waiter /\ queue' = queue
    BY <1>3 DEF ResumeTimedOut, t, At, Active, wait
  <2> QED BY <2>1, <1>w, <1>t, OnceReturn DEF t
<1>4. CASE TryAgain(w) \/ LookUp(w) \/ Resize(w) \/ ResumeRetries(w)
  <2>1. /\ \E q \in Active : TaskAt(t, q)
        /\ tpc[t] \in Active
        /\ waiter' = waiter /\ queue' = queue /\ wpc' = wpc /\ cur' = cur
    <3>1. CASE TryAgain(w)
      BY <3>1 DEF TryAgain, t, At, Active, wait
    <3>2. CASE LookUp(w)
      BY <3>2 DEF LookUp, t, At, Active, wait
    <3>3. CASE Resize(w)
      BY <3>3 DEF Resize, t, At, Active, wait
    <3>4. CASE ResumeRetries(w)
      BY <3>4 DEF ResumeRetries, t, At, Active, wait
    <3> QED BY <1>4, <3>1, <3>2, <3>3, <3>4
  <2>2. Due' = Due /\ Parked' = Parked /\ Runs' = Runs
    BY <2>1, <1>0, <1>t, GoesOn
  <2> QED BY <2>1, <2>2, StackSame, OnceSame
<1>5. CASE Register(w)
  <2> DEFINE e == EventOf[t]  c == <<FdOf[t], found[t]>>
  <2>1. tpc[t] = "register" /\ queue' = queue /\ wpc' = wpc /\ cur' = cur
    BY <1>5 DEF Register, t, At
  <2>2. CASE e \in Registered(c)
    <3>1. tpc' = tpc /\ waiter' = waiter
      BY <2>2, <1>5 DEF Register, t, wait
    <3> QED BY <2>1, <3>1, TasksSame, StackSame, OnceSame
  <2>3. CASE e \notin Registered(c)
    <3>1. waiter' = [waiter EXCEPT ![c] = [@ EXCEPT ![e] = t]] /\ TaskAt(t, "yield")
      BY <2>3, <1>5 DEF Register, t
    <3>2. waiter[c][e] = None
      BY <2>3, <1>t DEF Registered
    <3>3. t \notin Due /\ Due' = Due \cup {t} /\ Parked' = Parked \cup {t} /\ Runs' = Runs
      BY <2>1, <3>1, <1>0, <1>t DEF CallOK, TaskAt, Due, Parked, Runs
    <3>4. StackInv'
      BY <2>1, <3>3, StackSame
    <3> HIDE DEF c, e
    <3>5. c \in Context /\ e \in Events
      BY <1>t DEF c, e
    <3> QED BY <1>0, <1>t, <2>1, <3>1, <3>2, <3>3, <3>4, <3>5, OnceRegister
  <2> QED BY <2>2, <2>3
<1>6. CASE Yield(w)
  <2>1. TaskAt(t, "hold") /\ Leave(w) /\ tpc[t] = "yield" /\ waiter' = waiter /\ queue' = queue
    BY <1>6 DEF Yield, t, At, wait
  <2>2. Due' = Due /\ Parked' = Parked /\ Runs' = Runs \ {t}
    BY <2>1, <1>0, <1>t, GoesOff
  <2> QED BY <2>1, <2>2, <1>0, <1>w, StackLeave, OnceSame DEF HoldPlaces, t
<1> QED BY <1>1, <1>2, <1>3, <1>4, <1>5, <1>6

\* The timer's callback and close.
LEMMA CancelOnce ==
  ASSUME IInv, StackInv, OnceInv, NEW w \in Workers,
         TimerFires(w) \/ CancelEvent(w) \/ CancelAll(w) \/ Close(w)
  PROVE  StackInv' /\ OnceInv'
<1> DEFINE t == cur[w].task  c == Here(FdOf[t])
<1>0. RegInv /\ CtxOK /\ CallOK /\ RunOK /\ PlaceOK /\ queue \in Seq(Entry)
  BY DEF IInv, RunOK
<1>w. wpc[w] \in HoldPlaces
  BY DEF TimerFires, CancelEvent, CancelAll, Close, At, HoldPlaces
<1>t. t \in Tasks /\ c \in Context
  BY <1>w, <1>0, FiberTask DEF Here, Context, CtxOK
<1> HIDE DEF t, c
<1>1. CASE TimerFires(w)
  <2>1. wpc[w] = "callback" /\ tpc' = tpc /\ waiter' = waiter /\ queue' = queue
    BY <1>1 DEF TimerFires, wait
  <2>2. Due' = Due /\ Parked' = Parked /\ Runs' = Runs
    BY <2>1, TasksSame
  <2>3. CASE Leave(w)
    BY <2>1, <2>2, <2>3, <1>0, <1>w, StackLeave, OnceSame
  <2>4. CASE Goto(w, "cancel") /\ cur' = cur
    <3>1. \A v \in Workers : /\ wpc'[v] = "fiber" <=> wpc[v] = "fiber"
                             /\ wpc'[v] \in {"callback", "cancel"} => wpc[v] \in {"callback", "cancel"}
      BY <2>1, <2>4, <1>0 DEF PlaceOK, Goto
    <3> QED BY <2>1, <2>2, <2>4, <3>1, StackSame, OnceSame
  <2> QED BY <1>1, <2>3, <2>4 DEF TimerFires
<1>2. CASE CancelEvent(w)
  <2>1. wpc[w] = "cancel" /\ tpc' = tpc /\ Leave(w)
    BY <1>2 DEF CancelEvent
  <2>2. Due' = Due /\ Parked' = Parked /\ Runs' = Runs
    BY <2>1, TasksSame
  <2>3. StackInv'
    BY <2>1, <2>2, <1>0, <1>w, StackLeave
  <2>4. CASE UNCHANGED <<wait, queue>>
    BY <2>2, <2>3, <2>4, OnceSame DEF wait
  <2>5. CASE EventOf[t] \in Registered(c) /\ Trigger(c, {EventOf[t]})
    <3>1. {EventOf[t]} \in SUBSET Registered(c)
      BY <2>5
    <3> QED BY <2>2, <2>3, <2>5, <3>1, <1>0, <1>t, OnceTrigger
  <2> QED BY <1>2, <2>4, <2>5 DEF CancelEvent, t, c
<1>3. CASE CancelAll(w)
  <2>1. /\ wpc[w] = "fiber" /\ tpc[t] = "cancelAll" /\ TaskAt(t, "close")
        /\ wpc' = wpc /\ cur' = cur
    BY <1>3 DEF CancelAll, At, t
  <2>2. Due' = Due /\ Parked' = Parked /\ Runs' = Runs
    BY <2>1, <1>0, <1>t, GoesOn DEF Active
  <2>3. StackInv'
    BY <2>1, <2>2, StackSame
  <2>4. CASE UNCHANGED <<wait, queue>>
    BY <2>2, <2>3, <2>4, OnceSame DEF wait
  <2>5. CASE Trigger(c, Registered(c))
    BY <2>2, <2>3, <2>5, <1>0, <1>t, OnceTrigger
  <2> QED BY <1>3, <2>4, <2>5 DEF CancelAll, t, c
<1>4. CASE Close(w)
  <2>1. /\ wpc[w] = "fiber" /\ tpc[t] = "close" /\ TaskAt(t, "done") /\ Leave(w)
        /\ waiter' = waiter /\ queue' = queue
    BY <1>4 DEF Close, At, t
  <2>2. Due' = Due /\ Parked' = Parked /\ Runs' = Runs \ {t}
    BY <2>1, <1>0, <1>t, GoesOff DEF Active
  <2> QED BY <2>1, <2>2, <1>0, <1>w, StackLeave, OnceSame DEF t
<1> QED BY <1>1, <1>2, <1>3, <1>4

LEMMA OnceInit == Init => StackInv /\ OnceInv
<1> SUFFICES ASSUME Init PROVE StackInv /\ OnceInv
  OBVIOUS
<1>1. StackInv
  <2>1. Runs = {}
    BY DEF Init, Runs
  <2> QED BY <2>1 DEF Init, StackInv
<1>2. \A t \in Tasks : t \in Due /\ ~Waiting(t)
  BY NoneAssumption DEF Init, Due, Waiting
<1>3. WaitInv
  BY DEF Init, WaitInv
<1>4. PICK s \in SetToSeqs(Tasks) : queue = [i \in DOMAIN s |-> FiberEntry(s[i])]
  BY DEF Init
<1> DEFINE n == Cardinality(Tasks)
<1>5. /\ n \in Nat /\ s \in [1..n -> Tasks]
      /\ \A i, j \in 1..n : i # j => s[i] # s[j]
  BY <1>4, FS_CardinalityType, TasksAssumption DEF SetToSeqs
<1>6. Len(queue) = n /\ \A i \in 1..n : queue[i] = FiberEntry(s[i])
  <2> HIDE DEF n
  <2>1. queue = [i \in 1..n |-> FiberEntry(s[i])]
    BY <1>4, <1>5
  <2> QED BY <2>1, <1>5
<1>7. \A t \in Tasks : \E i \in 1..n : s[i] = t
  <2>1. s \in Injection(1..n, Tasks)
    BY <1>5 DEF Injection, IsInjective
  <2>2. IsFiniteSet(1..n) /\ Cardinality(1..n) = n
    BY <1>5, FS_Interval
  <2>3. s \in Surjection(1..n, Tasks)
    BY <2>1, <2>2, TasksAssumption, FS_Injection
  <2> QED BY <2>3 DEF Surjection
<1> HIDE DEF n
<1>8. QueueInv
  <2>1. \A i \in 1..n : s[i] \in Due /\ ~Waiting(s[i])
    BY <1>2, <1>5
  <2>2. \A i, j \in 1..n : queue[i] = queue[j] => i = j
    BY <1>5, <1>6, FiberEntryEq
  <2> QED BY <2>1, <2>2, <1>6 DEF QueueInv
<1>9. DueInv
  <2>1. \A t \in Due : t \in Tasks
    BY DEF Due
  <2> QED BY <2>1, <1>6, <1>7 DEF DueInv, InQueue
<1> QED BY <1>1, <1>3, <1>8, <1>9 DEF OnceInv

LEMMA OnceStep == IInv /\ StackInv /\ OnceInv /\ [Next]_vars => StackInv' /\ OnceInv'
<1> SUFFICES ASSUME IInv, StackInv, OnceInv, [Next]_vars PROVE StackInv' /\ OnceInv'
  OBVIOUS
<1>1. CASE \E w \in Workers : Work(w)
  BY <1>1, WorkerOnce, IoOnce, CancelOnce DEF Work
<1>2. CASE UNCHANGED <<waiter, tpc, queue, wpc, cur>>
  BY <1>2, TasksSame, StackSame, OnceSame
<1>3. CASE \E fd \in Fds, e \in Events \cup {"HUP"} : BecomesReady(fd, e)
  BY <1>2, <1>3 DEF BecomesReady, wait
<1>4. CASE \E t \in Tasks : Elapse(t)
  BY <1>2, <1>4 DEF Elapse, wait
<1>5. CASE Stop
  BY <1>2, <1>5 DEF Stop, wait
<1>6. CASE UNCHANGED vars
  BY <1>2, <1>6 DEF vars, wait
<1> QED BY <1>1, <1>3, <1>4, <1>5, <1>6 DEF Next

LEMMA SpecOnce == Spec => [](StackInv /\ OnceInv)
<1>1. Init => StackInv /\ OnceInv
  BY OnceInit
<1>2. IInv /\ StackInv /\ OnceInv /\ [Next]_vars => StackInv' /\ OnceInv'
  BY OnceStep
<1> QED BY <1>1, <1>2, SpecInv, PTL DEF Spec

\* A fiber that yields in do_io is resumed once: it is registered once or queued
\* once, and neither while it runs (triggerEvent, cancelEvent, the timer's callback
\* and idle() compete for it), whatever the number of workers and tasks.
THEOREM FibersResumedOnce == Spec => []ResumedOnce
<1>1. IInv /\ StackInv /\ OnceInv => ResumedOnce
  <2> SUFFICES ASSUME IInv, OnceInv, NEW t \in Tasks
               PROVE  Cardinality(Waits(t)) + Cardinality(Queued(t))
                        = IF tpc[t] \in {"yield", "hold", "new"} THEN 1 ELSE 0
    BY DEF ResumedOnce
  <2>0. t # None /\ DOMAIN queue = 1..Len(queue) /\ Cardinality({}) = 0
    BY NoneAssumption, FS_EmptySet DEF IInv, RunOK
  <2>1. ASSUME ~Waiting(t)
        PROVE  Cardinality(Waits(t)) = 0
    <3>1. Waits(t) = {}
      BY <2>1 DEF Waits, Waiting
    <3> QED BY <3>1, <2>0
  <2>2. ASSUME ~InQueue(t)
        PROVE  Cardinality(Queued(t)) = 0
    <3>1. Queued(t) = {}
      BY <2>0, <2>2 DEF Queued, InQueue
    <3> QED BY <3>1, <2>0
  <2>3. ASSUME Waiting(t)
        PROVE  t \in Due /\ Cardinality(Waits(t)) = 1
    <3>1. PICK c \in Context, e \in Events : waiter[c][e] = t
      BY <2>3 DEF Waiting
    <3>2. Waits(t) = {c}
      BY <3>1, <2>0 DEF Waits, OnceInv, WaitInv
    <3>3. t \in Due
      BY <3>1, <2>0 DEF OnceInv, WaitInv, Parked, Due
    <3> QED BY <3>2, <3>3, FS_Singleton
  <2>4. ASSUME InQueue(t)
        PROVE  t \in Due /\ ~Waiting(t) /\ Cardinality(Queued(t)) = 1
    <3>1. PICK i \in 1..Len(queue) : queue[i] = FiberEntry(t)
      BY <2>4 DEF InQueue
    <3>2. queue[i].kind = "fiber"
      BY <3>1, EntryFacts
    <3>3. PICK u \in Due : queue[i] = FiberEntry(u) /\ ~Waiting(u)
      BY <3>2 DEF OnceInv, QueueInv
    <3>4. t \in Due /\ ~Waiting(t)
      BY <3>1, <3>3, FiberEntryEq
    <3>5. Queued(t) = {i}
      BY <3>1, <3>2, <2>0 DEF Queued, OnceInv, QueueInv
    <3> QED BY <3>4, <3>5, FS_Singleton
  <2>5. CASE t \in Due
    <3>1. Waiting(t) \/ InQueue(t)
      BY <2>5 DEF OnceInv, DueInv
    <3> QED BY <3>1, <2>1, <2>2, <2>3, <2>4, <2>5 DEF Due
  <2>6. CASE t \notin Due
    BY <2>1, <2>2, <2>3, <2>4, <2>6 DEF Due
  <2> QED BY <2>5, <2>6
<1> QED BY <1>1, SpecInv, SpecOnce, PTL

---------------------------------------------------------------------------
(* The last worker leaves nothing behind *)

\* What stopping() has read stays true of a worker that went on: later registrations,
\* entries and timers are the work of another worker, which has to read in its turn.
DrainInv ==
  /\ pending # 0   => \E w \in Workers : wpc[w] \notin {"scheduler", "again", "exit"}
  /\ queue # <<>>  => \E w \in Workers : wpc[w] \notin {"again", "exit"}
  /\ ~NoTimer      => \E w \in Workers : wpc[w] # "exit"

\* A worker that has something to do answers for all of it.
LEMMA DrainWork ==
  ASSUME NEW w \in Workers, wpc'[w] \notin {"scheduler", "again", "exit"}
  PROVE  DrainInv'
BY DEF DrainInv

LEMMA DrainStopping ==
  ASSUME PlaceOK, DrainInv, NEW w \in Workers, Stopping(w)
  PROVE  DrainInv'
<1>1. pending' = pending /\ queue' = queue /\ timer' = timer
  BY DEF Stopping, wait, calls
<1>2. NoTimer' <=> NoTimer
  BY <1>1 DEF NoTimer
<1>3. \A q : Goto(w, q) => /\ wpc'[w] = q
                           /\ \A v \in Workers : v # w => wpc'[v] = wpc[v]
  BY DEF Goto, PlaceOK
<1>4. CASE wpc[w] = "timers" \/ Goto(w, "poll")
  <2>1. wpc'[w] \in {"pending", "poll"}
    BY <1>3, <1>4 DEF Stopping
  <2> QED BY <2>1, DrainWork
<1>5. CASE wpc[w] = "pending" /\ Goto(w, "scheduler")
  <2>1. pending = 0
    BY <1>3, <1>5 DEF Stopping
  <2> QED BY <2>1, <1>1, <1>3, <1>5 DEF DrainInv
<1>6. CASE wpc[w] = "scheduler" /\ Goto(w, "again")
  <2>1. queue = <<>>
    BY <1>3, <1>6 DEF Stopping
  <2>2. pending # 0 => \E v \in Workers : v # w /\ wpc[v] \notin {"scheduler", "again", "exit"}
    BY <1>6 DEF DrainInv
  <2> QED BY <2>1, <2>2, <1>1, <1>3, <1>6 DEF DrainInv
<1>7. CASE wpc[w] = "again" /\ Goto(w, "exit")
  <2>1. NoTimer
    BY <1>3, <1>7 DEF Stopping
  <2>2. pending # 0 => \E v \in Workers : v # w /\ wpc[v] \notin {"scheduler", "again", "exit"}
    BY <1>7 DEF DrainInv
  <2>3. queue # <<>> => \E v \in Workers : v # w /\ wpc[v] \notin {"again", "exit"}
    BY <1>7 DEF DrainInv
  <2>4. pending' # 0 => \E v \in Workers : wpc'[v] \notin {"scheduler", "again", "exit"}
    BY <2>2, <1>1, <1>3, <1>7
  <2>5. queue' # <<>> => \E v \in Workers : wpc'[v] \notin {"again", "exit"}
    BY <2>3, <1>1, <1>3, <1>7
  <2>6. NoTimer'
    BY <2>1, <1>2
  <2> QED BY <2>4, <2>5, <2>6 DEF DrainInv
<1> QED BY <1>4, <1>5, <1>6, <1>7 DEF Stopping

LEMMA DrainStep == IInv /\ DrainInv /\ [Next]_vars => DrainInv'
<1> SUFFICES ASSUME IInv, DrainInv, [Next]_vars PROVE DrainInv'
  OBVIOUS
<1>0. PlaceOK /\ CallOK
  BY DEF IInv, RunOK
<1>1. ASSUME NEW w \in Workers, Work(w) PROVE DrainInv'
  <2>0. /\ \A q : Goto(w, q) => wpc'[w] = q
        /\ Leave(w) => wpc'[w] = "loop"
        /\ wpc' = wpc => wpc'[w] = wpc[w]
        /\ \A t : Return(w, t) => wpc'[w] \in {wpc[w], "loop"}
    <3>1. \A q : Goto(w, q) => wpc'[w] = q
      BY <1>0 DEF Goto, PlaceOK
    <3> QED BY <3>1 DEF Leave, Return
  <2>1. CASE Stopping(w)
    BY <2>1, <1>0, DrainStopping
  <2>2. CASE Take(w)
    <3>1. \E q \in {"fiber", "callback"} : Goto(w, q)
      BY <2>2 DEF Take
    <3> QED BY <3>1, <2>0, DrainWork
  <2>3. CASE EnterIdle(w) \/ EpollWait(w) \/ ListExpired(w) \/ SwapOut(w)
    <3>1. \E q \in {"timers", "expire", "events", "loop"} : Goto(w, q)
      BY <2>3 DEF EnterIdle, EpollWait, ListExpired, SwapOut
    <3> QED BY <3>1, <2>0, DrainWork
  <2>4. CASE Process(w)
    <3>1. wpc[w] = "events" /\ wpc' = wpc
      BY <2>4 DEF Process
    <3> QED BY <3>1, <2>0, DrainWork
  <2>5. CASE TrySucceeds(w) \/ RegisterFails(w) \/ ResumeTimedOut(w)
    <3>1. wpc[w] = "fiber" /\ \E t : Return(w, t)
      BY <2>5 DEF TrySucceeds, RegisterFails, ResumeTimedOut, At
    <3> QED BY <3>1, <2>0, DrainWork
  <2>6. CASE TryAgain(w) \/ LookUp(w) \/ Resize(w) \/ Register(w) \/ ResumeRetries(w) \/ CancelAll(w)
    <3>1. wpc[w] = "fiber" /\ wpc' = wpc
      BY <2>6 DEF TryAgain, LookUp, Resize, Register, ResumeRetries, CancelAll, At
    <3> QED BY <3>1, <2>0, DrainWork
  <2>7. CASE Yield(w) \/ Close(w) \/ CancelEvent(w)
    <3>1. Leave(w)
      BY <2>7 DEF Yield, Close, CancelEvent
    <3> QED BY <3>1, <2>0, DrainWork
  <2>8. CASE TimerFires(w)
    <3>1. Goto(w, "cancel") \/ Leave(w)
      BY <2>8 DEF TimerFires
    <3> QED BY <3>1, <2>0, DrainWork
  <2> QED BY <1>1, <2>1, <2>2, <2>3, <2>4, <2>5, <2>6, <2>7, <2>8 DEF Work
<1>2. CASE pending' = pending /\ queue' = queue /\ wpc' = wpc /\ (NoTimer' <=> NoTimer)
  BY <1>2 DEF DrainInv
<1>3. CASE \E fd \in Fds, e \in Events \cup {"HUP"} : BecomesReady(fd, e)
  BY <1>2, <1>3 DEF BecomesReady, wait, calls, NoTimer
<1>4. ASSUME NEW t \in Tasks, Elapse(t) PROVE DrainInv'
  <2>1. timer[t] = "armed" /\ timer' = [timer EXCEPT ![t] = "due"]
    BY <1>4 DEF Elapse
  <2>2. ~NoTimer /\ ~NoTimer'
    BY <2>1, <1>0 DEF NoTimer, CallOK
  <2> QED BY <2>2, <1>2, <1>4 DEF Elapse, wait
<1>5. CASE Stop \/ UNCHANGED vars
  BY <1>2, <1>5 DEF Stop, vars, wait, calls, NoTimer
<1> QED BY <1>1, <1>3, <1>4, <1>5 DEF Next

\* When the last worker has left run(), nothing is waiting to run, for I/O or for a
\* timer, although stopping() reads timers, events and queue one after the other and
\* the other workers go on between its reads.
THEOREM NothingLeftAtExit == Spec => []DrainedAtExit
<1>1. Init => DrainInv
  BY WorkersAssumption DEF Init, DrainInv
<1>2. IInv /\ StackInv /\ OnceInv /\ DrainInv => DrainedAtExit
  <2> SUFFICES ASSUME IInv, StackInv, OnceInv, DrainInv, \A w \in Workers : wpc[w] = "exit"
               PROVE  queue = <<>> /\ pending = 0 /\ NoTimer /\ \A t \in Tasks : tpc[t] = "done"
    BY DEF DrainedAtExit
  <2>1. queue = <<>> /\ pending = 0 /\ NoTimer
    BY DEF DrainInv
  <2>2. Pairs = {}
    BY <2>1, ContextFacts, FS_EmptySet DEF IInv, RegInv, PendingExact
  <2>3. \A t \in Tasks : t \notin Due
    <3> SUFFICES ASSUME NEW t \in Due PROVE FALSE
      OBVIOUS
    <3>1. t # None
      BY NoneAssumption DEF Due
    <3>2. ~Waiting(t)
      <4> SUFFICES ASSUME NEW c \in Context, NEW e \in Events, waiter[c][e] = t PROVE FALSE
        BY DEF Waiting
      <4>1. <<c, e>> \in Pairs
        BY <3>1 DEF Pairs
      <4> QED BY <4>1, <2>2
    <3>3. ~InQueue(t)
      BY <2>1 DEF InQueue
    <3> QED BY <3>2, <3>3 DEF OnceInv, DueInv
  <2>4. \A t \in Tasks : t \notin Runs
    <3> SUFFICES ASSUME NEW t \in Runs PROVE FALSE
      OBVIOUS
    <3>1. PICK w \in Workers : cur[w] = FiberEntry(t)
      BY DEF StackInv, OnStack
    <3>2. cur[w] # None
      BY <3>1, EntryFacts DEF Runs
    <3> QED BY <3>2 DEF IInv, RunOK, PlaceOK, HoldPlaces
  <2> QED BY <2>1, <2>3, <2>4 DEF Due, Runs
<1> QED BY <1>1, <1>2, DrainStep, SpecInv, SpecOnce, PTL DEF Spec

---------------------------------------------------------------------------
(* Who waits where, and what the kernel's table names *)

\* The converse of KernelAgrees: what the table holds is registered.
EpollInv ==
  \A c \in Context : epoll[c[1]].on # {} /\ epoll[c[1]].ptr = c[2] =>
    open[c[1]] /\ Registered(c) = epoll[c[1]].on

\* A task waits for its own event of its own descriptor.
ShapeInv ==
  \A c \in Context, e \in Events : waiter[c][e] # None =>
    /\ waiter[c][e] \notin Closers
    /\ FdOf[waiter[c][e]] = c[1] /\ EventOf[waiter[c][e]] = e

CloserInv == \A t \in Closers : tpc[t] \in {"new", "cancelAll", "close", "done"}

LinkInv == EpollInv /\ ShapeInv /\ CloserInv

LEMMA TriggerRegistered ==
  ASSUME RegInv, NEW c \in Context, NEW es \in SUBSET Registered(c), Trigger(c, es)
  PROVE  /\ Registered(c)' = Registered(c) \ es
         /\ \A d \in Context : d # c => Registered(d)' = Registered(d)
         /\ \A d \in Context : Registered(d)' \subseteq Registered(d)
<1>1. \A d \in Context, e \in Events :
        waiter'[d][e] = IF d = c /\ e \in es THEN None ELSE waiter[d][e]
  BY DEF Trigger, RegInv
<1>2. Registered(c)' = Registered(c) \ es
  BY <1>1 DEF Registered
<1>3. \A d \in Context : d # c => Registered(d)' = Registered(d)
  BY <1>1 DEF Registered
<1> QED BY <1>2, <1>3

LEMMA LinkTrigger ==
  ASSUME RegInv, EpollInv, ShapeInv, NEW c \in Context, NEW es \in SUBSET Registered(c),
         open[c[1]], open' = open, Trigger(c, es)
  PROVE  EpollInv' /\ ShapeInv'
<1>0. c[1] \in Fds /\ c[2] \in 0..MaxMade /\ c = <<c[1], c[2]>>
  BY DEF Context
<1>1. epoll' = [epoll EXCEPT ![c[1]] = [ptr |-> c[2], on |-> Registered(c) \ es]]
  BY DEF Trigger
<1>2. EpollInv'
  <2> SUFFICES ASSUME NEW d \in Context, epoll'[d[1]].on # {}, epoll'[d[1]].ptr = d[2]
               PROVE  open'[d[1]] /\ Registered(d)' = epoll'[d[1]].on
    BY DEF EpollInv
  <2>0. d[1] \in Fds /\ d = <<d[1], d[2]>>
    BY DEF Context
  <2>1. CASE d[1] = c[1]
    <3>1. epoll'[d[1]] = [ptr |-> c[2], on |-> Registered(c) \ es]
      BY <2>1, <1>0, <1>1 DEF RegInv
    <3>2. d = c
      BY <3>1, <2>0, <2>1, <1>0
    <3>3. Registered(c)' = Registered(c) \ es
      BY TriggerRegistered
    <3> QED BY <3>1, <3>2, <3>3
  <2>2. CASE d[1] # c[1]
    <3>1. epoll'[d[1]] = epoll[d[1]]
      BY <2>0, <2>2, <1>1 DEF RegInv
    <3>2. Registered(d)' = Registered(d)
      BY <2>2, TriggerRegistered
    <3> QED BY <3>1, <3>2 DEF EpollInv
  <2> QED BY <2>1, <2>2
<1>3. ShapeInv'
  BY DEF Trigger, RegInv, ShapeInv
<1> QED BY <1>2, <1>3

LEMMA LinkRegister ==
  ASSUME RegInv, EpollInv, ShapeInv, NEW t \in Tasks \ Closers, NEW k \in 0..MaxMade,
         NEW c, c = <<FdOf[t], k>>, open[FdOf[t]], open' = open,
         epoll' = [epoll EXCEPT ![FdOf[t]] = [ptr |-> k, on |-> Registered(c) \cup {EventOf[t]}]],
         waiter' = [waiter EXCEPT ![c] = [@ EXCEPT ![EventOf[t]] = t]]
  PROVE  /\ EpollInv' /\ ShapeInv'
         /\ Registered(c)' = Registered(c) \cup {EventOf[t]}
         /\ \A d \in Context : d # c => Registered(d)' = Registered(d)
<1>0. FdOf[t] \in Fds /\ EventOf[t] \in Events /\ c \in Context /\ t # None
  BY CallAssumption, NoneAssumption DEF Context
<1>1. \A d \in Context, f \in Events :
        waiter'[d][f] = IF d = c /\ f = EventOf[t] THEN t ELSE waiter[d][f]
  BY DEF RegInv
<1>2. Registered(c)' = Registered(c) \cup {EventOf[t]}
  BY <1>0, <1>1 DEF Registered
<1>3. \A d \in Context : d # c => Registered(d)' = Registered(d)
  BY <1>1 DEF Registered
<1>4. EpollInv'
  <2> SUFFICES ASSUME NEW d \in Context, epoll'[d[1]].on # {}, epoll'[d[1]].ptr = d[2]
               PROVE  open'[d[1]] /\ Registered(d)' = epoll'[d[1]].on
    BY DEF EpollInv
  <2>0. d[1] \in Fds /\ d = <<d[1], d[2]>>
    BY DEF Context
  <2>1. CASE d[1] = FdOf[t]
    <3>1. epoll'[d[1]] = [ptr |-> k, on |-> Registered(c) \cup {EventOf[t]}]
      BY <2>1, <1>0 DEF RegInv
    <3>2. d = c
      BY <3>1, <2>0, <2>1
    <3>3. Registered(d)' = Registered(c) \cup {EventOf[t]}
      BY <3>2, <1>2
    <3>4. open'[d[1]]
      BY <2>1
    <3> QED BY <3>1, <3>3, <3>4
  <2>2. CASE d[1] # FdOf[t]
    <3>1. epoll'[d[1]] = epoll[d[1]]
      BY <2>0, <2>2 DEF RegInv
    <3>2. Registered(d)' = Registered(d)
      BY <2>2, <1>3
    <3> QED BY <3>1, <3>2 DEF EpollInv
  <2> QED BY <2>1, <2>2
<1>5. ShapeInv'
  BY <1>0, <1>1 DEF ShapeInv
<1> QED BY <1>2, <1>3, <1>4, <1>5

LEMMA LinkSame ==
  ASSUME LinkInv, waiter' = waiter, epoll' = epoll, open' = open, tpc' = tpc
  PROVE  LinkInv'
BY DEF LinkInv, EpollInv, ShapeInv, CloserInv, Registered

\* A task that is no closer moves on.
LEMMA CloserMove ==
  ASSUME CallOK, CloserInv, NEW t \in Tasks, NEW q, TaskAt(t, q),
         t \notin Closers \/ q \in {"cancelAll", "close", "done"}
  PROVE  CloserInv'
BY DEF CallOK, CloserInv, TaskAt

LEMMA LinkStep == IInv /\ StackInv /\ OnceInv /\ LinkInv /\ [Next]_vars => LinkInv'
<1> SUFFICES ASSUME IInv, StackInv, OnceInv, LinkInv, [Next]_vars PROVE LinkInv'
  OBVIOUS
<1>0. RegInv /\ CtxOK /\ CallOK /\ RunOK /\ PlaceOK /\ EpollInv /\ ShapeInv /\ CloserInv
  BY DEF IInv, RunOK, LinkInv
<1>1. CASE UNCHANGED <<waiter, epoll, open, tpc>>
  BY <1>1, LinkSame
<1>2. CASE UNCHANGED <<waiter, epoll, open>> /\ CloserInv'
  BY <1>2 DEF LinkInv, EpollInv, ShapeInv, Registered
<1>3. ASSUME NEW w \in Workers, Work(w) PROVE LinkInv'
  <2> DEFINE t == cur[w].task
  <2>0. wpc[w] \in HoldPlaces => /\ t \in Tasks /\ FdOf[t] \in Fds /\ EventOf[t] \in Events
                                 /\ found[t] \in 0..MaxMade
                                 /\ Here(FdOf[t]) \in Context /\ Here(FdOf[t])[1] = FdOf[t]
    BY <1>0, FiberTask DEF Here, Context, CtxOK
  <2> HIDE DEF t
  <2>1. CASE Take(w)
    <3>1. PICK i \in Suitable :
            IF queue[i].kind = "timer"
            THEN Goto(w, "callback") /\ UNCHANGED tpc
            ELSE Goto(w, "fiber") /\ TaskAt(queue[i].task, Entered(queue[i].task))
      BY <2>1 DEF Take
    <3>2. queue[i].task \in Tasks
      <4>1. i \in 1..Len(queue) /\ queue[i] \in Entry
        BY <1>0 DEF Suitable, RunOK
      <4> QED BY <4>1 DEF Entry
    <3>3. waiter' = waiter /\ epoll' = epoll /\ open' = open
      BY <2>1 DEF Take, wait, world
    <3> DEFINE u == queue[i].task
    <3>4. CASE tpc' = tpc
      BY <3>3, <3>4, <1>1
    <3>5. CASE TaskAt(u, Entered(u))
      <4>1. u \notin Closers \/ Entered(u) \in {"cancelAll", "close", "done"}
        BY <1>0 DEF Entered, CloserInv
      <4>2. CloserInv'
        <5> HIDE DEF u
        <5> QED BY <4>1, <3>5, <3>2, <1>0, CloserMove DEF u
      <4> QED BY <4>2, <3>3, <1>2
    <3> QED BY <3>1, <3>4, <3>5
  <2>2. CASE \/ EnterIdle(w) \/ Stopping(w) \/ EpollWait(w) \/ ListExpired(w) \/ SwapOut(w)
             \/ TimerFires(w)
    BY <2>2, <1>1 DEF EnterIdle, Stopping, EpollWait, ListExpired, SwapOut, TimerFires, wait, world
  <2>3. CASE Process(w)
    <3>1. PICK g \in got[w] :
            IF Registered(<<g.fd, g.ptr>>) \cap RealEvents(g) = {} \/ ~CanChange(g.fd)
            THEN UNCHANGED <<wait, queue, aborted>>
            ELSE IF RealEvents(g) \subseteq Registered(<<g.fd, g.ptr>>)
            THEN Trigger(<<g.fd, g.ptr>>, RealEvents(g)) /\ UNCHANGED aborted
            ELSE aborted' = TRUE /\ UNCHANGED <<wait, queue>>
      BY <2>3 DEF Process
    <3>2. <<g.fd, g.ptr>> \in Context
      BY <1>0 DEF RunOK, Report, Context
    <3>3. tpc' = tpc /\ open' = open
      BY <2>3 DEF Process, world
    <3>4. CASE UNCHANGED <<wait, queue>>
      BY <3>3, <3>4, <1>1 DEF wait
    <3>5. CASE /\ CanChange(g.fd) /\ RealEvents(g) \subseteq Registered(<<g.fd, g.ptr>>)
               /\ Trigger(<<g.fd, g.ptr>>, RealEvents(g))
      <4>1. EpollInv' /\ ShapeInv'
        BY <3>2, <3>3, <3>5, <1>0, LinkTrigger DEF CanChange
      <4> QED BY <4>1, <3>3, <1>0 DEF LinkInv, CloserInv
    <3> QED BY <3>1, <3>4, <3>5
  <2>4. CASE TrySucceeds(w) \/ RegisterFails(w) \/ ResumeTimedOut(w)
    <3>1. wpc[w] = "fiber" /\ Return(w, t) /\ tpc[t] \in {"try", "register", "woken"}
      BY <2>4 DEF TrySucceeds, RegisterFails, ResumeTimedOut, At, t
    <3>2. t \notin Closers /\ t \in Tasks
      BY <3>1, <2>0, <1>0 DEF CloserInv, HoldPlaces
    <3>3. \E q : TaskAt(t, q)
      BY <3>1 DEF Return
    <3>4. CloserInv'
      BY <3>2, <3>3, <1>0, CloserMove
    <3> QED BY <2>4, <3>4, <1>2 DEF TrySucceeds, RegisterFails, ResumeTimedOut, wait, world
  <2>5. CASE TryAgain(w) \/ LookUp(w) \/ Resize(w) \/ ResumeRetries(w) \/ Yield(w)
    <3>1. wpc[w] = "fiber" /\ tpc[t] \in {"try", "lookup", "resize", "woken", "yield"}
      BY <2>5 DEF TryAgain, LookUp, Resize, ResumeRetries, Yield, At, t
    <3>2. t \notin Closers /\ t \in Tasks
      BY <3>1, <2>0, <1>0 DEF CloserInv, HoldPlaces
    <3>3. \E q : TaskAt(t, q)
      <4>1. CASE TryAgain(w)
        BY <4>1 DEF TryAgain, t
      <4>2. CASE LookUp(w)
        BY <4>2 DEF LookUp, t
      <4>3. CASE Resize(w)
        BY <4>3 DEF Resize, t
      <4>4. CASE ResumeRetries(w) \/ Yield(w)
        BY <4>4 DEF ResumeRetries, Yield, t
      <4> QED BY <2>5, <4>1, <4>2, <4>3, <4>4
    <3>4. CloserInv'
      BY <3>2, <3>3, <1>0, CloserMove
    <3> QED BY <2>5, <3>4, <1>2 DEF TryAgain, LookUp, Resize, ResumeRetries, Yield, wait, world
  <2>6. CASE Register(w)
    <3> DEFINE c == <<FdOf[t], found[t]>>
    <3>1. wpc[w] = "fiber" /\ tpc[t] = "register" /\ open' = open
      BY <2>6 DEF Register, At, t, world
    <3>2. t \notin Closers /\ t \in Tasks /\ found[t] \in 0..MaxMade
      BY <3>1, <2>0, <1>0 DEF CloserInv, HoldPlaces
    <3>3. CASE EventOf[t] \in Registered(c)
      <4>1. tpc' = tpc /\ UNCHANGED wait
        BY <2>6, <3>3 DEF Register, t
      <4> QED BY <4>1, <3>1, <1>1 DEF wait
    <3>4. CASE EventOf[t] \notin Registered(c)
      <4>1. /\ IF Registered(c) = {} THEN CanAdd(FdOf[t]) ELSE CanChange(FdOf[t])
            /\ epoll' = [epoll EXCEPT ![FdOf[t]] = [ptr |-> found[t], on |-> Registered(c) \cup {EventOf[t]}]]
            /\ waiter' = [waiter EXCEPT ![c] = [@ EXCEPT ![EventOf[t]] = t]]
            /\ TaskAt(t, "yield")
        BY <2>6, <3>4 DEF Register, t
      <4>2. open[FdOf[t]]
        BY <4>1 DEF CanAdd, CanChange
      <4>3. CloserInv'
        BY <4>1, <3>2, <1>0, CloserMove
      <4>4. EpollInv' /\ ShapeInv'
        <5>1. c = <<FdOf[t], found[t]>>
          OBVIOUS
        <5> HIDE DEF c
        <5> QED BY <4>1, <4>2, <5>1, <3>1, <3>2, <1>0, LinkRegister
      <4> QED BY <4>3, <4>4 DEF LinkInv
    <3> QED BY <3>3, <3>4
  <2>7. CASE CancelEvent(w) \/ CancelAll(w)
    <3> DEFINE c == Here(FdOf[t])
    <3>1. wpc[w] \in HoldPlaces /\ open' = open
      BY <2>7 DEF CancelEvent, CancelAll, At, HoldPlaces, world
    <3>2. \/ UNCHANGED <<wait, queue>>
          \/ \E es \in SUBSET Registered(c) : Trigger(c, es) /\ CanChange(FdOf[t])
      <4>1. CASE CancelEvent(w)
        BY <4>1 DEF CancelEvent, t
      <4>2. CASE CancelAll(w)
        BY <4>2 DEF CancelAll, t
      <4> QED BY <2>7, <4>1, <4>2
    <3>3. EpollInv' /\ ShapeInv'
      <4>1. CASE UNCHANGED <<wait, queue>>
        BY <4>1, <3>1, <1>0 DEF wait, EpollInv, ShapeInv, Registered
      <4>2. CASE \E es \in SUBSET Registered(c) : Trigger(c, es) /\ CanChange(FdOf[t])
        <5>1. c \in Context /\ open[c[1]]
          BY <4>2, <3>1, <2>0 DEF CanChange
        <5> HIDE DEF c
        <5> QED BY <4>2, <5>1, <3>1, <1>0, LinkTrigger
      <4> QED BY <3>2, <4>1, <4>2
    <3>4. tpc' = tpc \/ TaskAt(t, "close")
      BY <2>7 DEF CancelEvent, CancelAll, t
    <3>5. CloserInv'
      BY <3>1, <3>4, <2>0, <1>0, CloserMove DEF CloserInv
    <3> QED BY <3>3, <3>5 DEF LinkInv
  <2>8. CASE Close(w)
    <3>1. /\ wpc[w] = "fiber" /\ waiter' = waiter /\ TaskAt(t, "done")
          /\ open' = [open EXCEPT ![FdOf[t]] = FALSE]
          /\ epoll' = [epoll EXCEPT ![FdOf[t]].on = {}]
      BY <2>8 DEF Close, At, t
    <3>2. CloserInv'
      BY <3>1, <2>0, <1>0, CloserMove DEF HoldPlaces
    <3>3. ShapeInv'
      BY <3>1, <1>0 DEF ShapeInv
    <3>4. EpollInv'
      <4> SUFFICES ASSUME NEW d \in Context, epoll'[d[1]].on # {}, epoll'[d[1]].ptr = d[2]
                   PROVE  open'[d[1]] /\ Registered(d)' = epoll'[d[1]].on
        BY DEF EpollInv
      <4>1. d[1] \in Fds
        BY DEF Context
      <4>2. d[1] # FdOf[t]
        BY <3>1, <4>1, <1>0 DEF RegInv
      <4>3. epoll'[d[1]] = epoll[d[1]] /\ open'[d[1]] = open[d[1]]
        BY <3>1, <4>1, <4>2, <1>0 DEF RegInv
      <4>4. Registered(d)' = Registered(d)
        BY <3>1 DEF Registered
      <4> QED BY <4>3, <4>4, <1>0 DEF EpollInv
    <3> QED BY <3>2, <3>3, <3>4 DEF LinkInv
  <2> QED BY <1>3, <2>1, <2>2, <2>3, <2>4, <2>5, <2>6, <2>7, <2>8 DEF Work
<1>4. CASE \E fd \in Fds, e \in Events \cup {"HUP"} : BecomesReady(fd, e)
  BY <1>1, <1>4 DEF BecomesReady, wait
<1>5. CASE \E u \in Tasks : Elapse(u)
  BY <1>1, <1>5 DEF Elapse, wait, world
<1>6. CASE Stop \/ UNCHANGED vars
  BY <1>1, <1>6 DEF Stop, vars, wait, world
<1> QED BY <1>3, <1>4, <1>5, <1>6 DEF Next

---------------------------------------------------------------------------
(* One worker: no assertion fails, and every wait can be ended *)

\* A slot holds a context exactly where the vector reaches.
SlotInv == size >= 2 /\ \A fd \in Fds : slot[fd] # 0 <=> fd < size

\* WaitsEndable, and the context is a real one.
EndInv ==
  \A c \in Context : Registered(c) # {} => open[c[1]] /\ slot[c[1]] = c[2] /\ c[2] # 0

\* What the one running task has read is still true.
TaskInv ==
  \A t \in Tasks :
    /\ tpc[t] = "resize" => size <= FdOf[t]
    /\ tpc[t] = "register" => found[t] = slot[FdOf[t]] /\ found[t] # 0
    /\ tpc[t] = "close" => \A c \in Context : c[1] = FdOf[t] => Registered(c) = {}

\* What epoll_wait reported and idle() has not processed is still registered.
GotInv ==
  \A w \in Workers :
    /\ wpc[w] \notin {"expire", "events"} => got[w] = {}
    /\ \A g \in got[w] : g.events \cap Events \subseteq Registered(<<g.fd, g.ptr>>)
    /\ \A g, h \in got[w] : g.fd = h.fd => g = h

OneInv == SlotInv /\ EndInv /\ TaskInv /\ GotInv /\ ~aborted

\* The task a lone worker executes is the only one that runs.
LEMMA OneRuns ==
  ASSUME NEW z, Workers = {z}, StackInv, wpc[z] = "fiber"
  PROVE  Runs = {cur[z].task}
<1>1. \A t \in Runs : t = cur[z].task
  BY EntryFacts DEF StackInv, OnStack
<1> QED BY <1>1, RunningTask

LEMMA GotIdle ==
  ASSUME NEW z, Workers = {z}, GotInv, wpc[z] \notin {"expire", "events"}, got' = got
  PROVE  GotInv'
BY DEF GotInv

\* Steps that only end waits.
LEMMA OneStay ==
  ASSUME OneInv, GotInv', UNCHANGED <<size, slot, open, found, aborted>>,
         \A c \in Context : Registered(c)' \subseteq Registered(c),
         \A t \in Tasks : tpc'[t] \in {"resize", "register", "close"} => tpc'[t] = tpc[t]
  PROVE  OneInv'
<1>1. SlotInv' /\ ~aborted'
  BY DEF OneInv, SlotInv
<1>2. EndInv'
  BY DEF OneInv, EndInv
<1>3. TaskInv'
  <2> SUFFICES ASSUME NEW t \in Tasks
               PROVE  /\ tpc'[t] = "resize" => size' <= FdOf[t]
                      /\ tpc'[t] = "register" => found'[t] = slot'[FdOf[t]] /\ found'[t] # 0
                      /\ tpc'[t] = "close" =>
                           \A c \in Context : c[1] = FdOf[t] => Registered(c)' = {}
    BY DEF TaskInv
  <2>1. tpc'[t] = "resize" => size' <= FdOf[t]
    BY DEF OneInv, TaskInv
  <2>2. tpc'[t] = "register" => found'[t] = slot'[FdOf[t]] /\ found'[t] # 0
    BY DEF OneInv, TaskInv
  <2>3. tpc'[t] = "close" => \A c \in Context : c[1] = FdOf[t] => Registered(c)' = {}
    <3> SUFFICES ASSUME tpc'[t] = "close", NEW c \in Context, c[1] = FdOf[t]
                 PROVE  Registered(c)' = {}
      OBVIOUS
    <3>1. Registered(c) = {}
      BY DEF OneInv, TaskInv
    <3> QED BY <3>1
  <2> QED BY <2>1, <2>2, <2>3
<1> QED BY <1>1, <1>2, <1>3 DEF OneInv

\* The worker loop and idle().
LEMMA OneWorker ==
  ASSUME NEW z, Workers = {z}, IInv, StackInv, OnceInv, LinkInv, OneInv,
         \/ Take(z) \/ EnterIdle(z) \/ Stopping(z) \/ EpollWait(z) \/ ListExpired(z)
         \/ Process(z) \/ SwapOut(z)
  PROVE  OneInv'
<1>0. RegInv /\ CtxOK /\ CallOK /\ RunOK /\ PlaceOK /\ EpollInv /\ GotInv /\ z \in Workers
  BY DEF IInv, RunOK, LinkInv, OneInv
<1>1. CASE Take(z)
  <2>1. PICK i \in Suitable :
          IF queue[i].kind = "timer"
          THEN Goto(z, "callback") /\ UNCHANGED tpc
          ELSE Goto(z, "fiber") /\ TaskAt(queue[i].task, Entered(queue[i].task))
    BY <1>1 DEF Take
  <2>2. \A t \in Tasks : tpc'[t] \in {"resize", "register", "close"} => tpc'[t] = tpc[t]
    <3>1. CASE tpc' = tpc
      BY <3>1
    <3>2. CASE TaskAt(queue[i].task, Entered(queue[i].task))
      BY <3>2, <1>0 DEF CallOK, TaskAt, Entered
    <3> QED BY <2>1, <3>1, <3>2
  <2>3. wpc[z] = "loop" /\ got' = got /\ waiter' = waiter
    BY <1>1 DEF Take, wait
  <2>4. \A c \in Context : Registered(c)' \subseteq Registered(c)
    BY <2>3 DEF Registered
  <2>5. GotInv'
    BY <2>3, <1>0, GotIdle
  <2> QED BY <1>1, <2>2, <2>4, <2>5, OneStay DEF Take, ctxs, world
<1>2. CASE EnterIdle(z) \/ Stopping(z)
  <2>1. wpc[z] \notin {"expire", "events"} /\ got' = got /\ waiter' = waiter /\ tpc' = tpc
    BY <1>2 DEF EnterIdle, Stopping, wait
  <2>2. \A c \in Context : Registered(c)' \subseteq Registered(c)
    BY <2>1 DEF Registered
  <2>3. GotInv'
    BY <2>1, <1>0, GotIdle
  <2> QED BY <1>2, <2>1, <2>2, <2>3, OneStay DEF EnterIdle, Stopping, ctxs, world
<1>3. CASE EpollWait(z)
  <2> DEFINE Of(fd) == ready[fd] \cap (epoll[fd].on \cup {"HUP"})
             Rep(fd) == [fd |-> fd, ptr |-> epoll[fd].ptr, events |-> Of(fd)]
             F == {f \in Fds : epoll[f].on # {} /\ Of(f) # {}}
  <2>1. got' = [got EXCEPT ![z] = {Rep(fd) : fd \in F}]
    BY <1>3 DEF EpollWait
  <2>2. got'[z] = {Rep(fd) : fd \in F}
    <3> HIDE DEF Rep, F
    <3> QED BY <2>1, <1>0 DEF RunOK
  <2>3. wpc'[z] = "expire" /\ tpc' = tpc /\ waiter' = waiter
    BY <1>3, <1>0 DEF EpollWait, Goto, PlaceOK, wait
  <2>4. \A c \in Context : Registered(c)' = Registered(c)
    BY <2>3 DEF Registered
  <2>5. ASSUME NEW fd \in F
        PROVE  /\ <<fd, epoll[fd].ptr>> \in Context
               /\ Of(fd) \cap Events \subseteq Registered(<<fd, epoll[fd].ptr>>)
    <3> DEFINE c == <<fd, epoll[fd].ptr>>
    <3>1. c \in Context /\ epoll[fd].on # {} /\ c[1] = fd /\ c[2] = epoll[fd].ptr
      BY <1>0 DEF RegInv, Context
    <3>2. Registered(c) = epoll[fd].on
      <4> HIDE DEF c, F
      <4> QED BY <3>1, <1>0 DEF EpollInv
    <3>3. "HUP" \notin Events
      BY DEF Events
    <3> QED BY <3>1, <3>2, <3>3
  <2>6. GotInv'
    <3> SUFFICES /\ \A g \in got'[z] : /\ <<g.fd, g.ptr>> \in Context
                                       /\ g.events \cap Events \subseteq Registered(<<g.fd, g.ptr>>)
                 /\ \A g, h \in got'[z] : g.fd = h.fd => g = h
      BY <2>3, <2>4 DEF GotInv
    <3>1. \A fd \in F : Rep(fd).fd = fd /\ Rep(fd).ptr = epoll[fd].ptr /\ Rep(fd).events = Of(fd)
      OBVIOUS
    <3> HIDE DEF Rep, Of, F
    <3> QED BY <2>2, <2>5, <3>1
  <2>7. \A c \in Context : Registered(c)' \subseteq Registered(c)
    BY <2>4
  <2> QED BY <1>3, <2>3, <2>6, <2>7, OneStay DEF EpollWait, ctxs, world
<1>4. CASE ListExpired(z) \/ SwapOut(z)
  <2>1. /\ got' = got /\ waiter' = waiter /\ tpc' = tpc
        /\ wpc'[z] = "events" \/ got[z] = {}
    BY <1>4, <1>0 DEF ListExpired, SwapOut, Goto, PlaceOK, wait
  <2>2. \A c : Registered(c)' = Registered(c)
    BY <2>1 DEF Registered
  <2>3. GotInv'
    BY <2>1, <2>2, <1>0 DEF GotInv
  <2> QED BY <1>4, <2>1, <2>2, <2>3, OneStay DEF ListExpired, SwapOut, ctxs, world
<1>5. CASE Process(z)
  <2>1. PICK g \in got[z] :
          /\ got' = [got EXCEPT ![z] = @ \ {g}]
          /\ IF Registered(<<g.fd, g.ptr>>) \cap RealEvents(g) = {} \/ ~CanChange(g.fd)
             THEN UNCHANGED <<wait, queue, aborted>>
             ELSE IF RealEvents(g) \subseteq Registered(<<g.fd, g.ptr>>)
             THEN Trigger(<<g.fd, g.ptr>>, RealEvents(g)) /\ UNCHANGED aborted
             ELSE aborted' = TRUE /\ UNCHANGED <<wait, queue>>
    BY <1>5 DEF Process
  <2> DEFINE c == <<g.fd, g.ptr>>
  <2>2. c \in Context /\ c[1] = g.fd
    BY <1>0 DEF RunOK, Report, Context
  <2>3. RealEvents(g) \subseteq Registered(c)
    BY <1>0 DEF RealEvents, GotInv
  <2>4. wpc[z] = "events" /\ wpc' = wpc /\ tpc' = tpc /\ got'[z] = got[z] \ {g}
    BY <1>5, <2>1, <1>0 DEF Process, RunOK
  <2>5. /\ aborted' = aborted
        /\ \A d \in Context : Registered(d)' \subseteq Registered(d)
        /\ \A d \in Context : d # c => Registered(d)' = Registered(d)
    <3>1. CASE UNCHANGED <<wait, queue, aborted>>
      BY <3>1 DEF wait, Registered
    <3>2. CASE Trigger(c, RealEvents(g)) /\ UNCHANGED aborted
      BY <3>2, <2>2, <2>3, <1>0, TriggerRegistered
    <3> QED BY <2>1, <2>3, <3>1, <3>2
  <2>6. GotInv'
    <3>1. \A h \in got'[z] : <<h.fd, h.ptr>> \in Context /\ h \in got[z] /\ h.fd # g.fd
      BY <2>4, <1>0 DEF GotInv, RunOK, Report, Context
    <3>2. \A h \in got'[z] : h.events \cap Events \subseteq Registered(<<h.fd, h.ptr>>)
      BY <3>1, <1>0 DEF GotInv
    <3>3. \A h \in got'[z] : <<h.fd, h.ptr>> # c
      BY <3>1
    <3> HIDE DEF c
    <3> QED BY <3>1, <3>2, <3>3, <2>4, <2>5, <1>0 DEF GotInv
  <2> QED BY <1>5, <2>4, <2>5, <2>6, OneStay DEF Process, ctxs, world
<1> QED BY <1>1, <1>2, <1>3, <1>4, <1>5

\* A hooked call.
LEMMA OneIo ==
  ASSUME NEW z, Workers = {z}, IInv, StackInv, OnceInv, LinkInv, OneInv,
         \/ TrySucceeds(z) \/ TryAgain(z) \/ LookUp(z) \/ Resize(z)
         \/ Register(z) \/ RegisterFails(z) \/ Yield(z)
         \/ ResumeTimedOut(z) \/ ResumeRetries(z)
  PROVE  OneInv'
<1> DEFINE t == cur[z].task  fd == FdOf[t]  e == EventOf[t]  c == <<fd, found[t]>>
<1>0. /\ RegInv /\ CtxOK /\ CallOK /\ RunOK /\ PlaceOK /\ z \in Workers
      /\ ShapeInv /\ CloserInv /\ SlotInv /\ EndInv /\ TaskInv /\ GotInv /\ ~aborted
  BY DEF IInv, RunOK, LinkInv, OneInv
<1>w. wpc[z] = "fiber" /\ got' = got
  BY DEF TrySucceeds, TryAgain, LookUp, Resize, Register, RegisterFails, Yield,
         ResumeTimedOut, ResumeRetries, At
<1>t. t \in Tasks /\ fd \in Fds /\ e \in Events /\ c \in Context /\ Runs = {t}
  BY <1>w, <1>0, FiberTask, OneRuns DEF HoldPlaces, Context
<1>g. GotInv'
  BY <1>w, <1>0, GotIdle
<1>r. \A u \in Tasks : tpc[u] \in {"resize", "register", "close"} => u = t
  BY <1>t DEF Runs
<1> HIDE DEF t
<1>1. CASE \/ TrySucceeds(z) \/ TryAgain(z) \/ RegisterFails(z) \/ Yield(z)
           \/ ResumeTimedOut(z) \/ ResumeRetries(z)
  <2>1. \E q \in {"try", "lookup", "hold", "done"} : TaskAt(t, q)
    <3>1. CASE TrySucceeds(z) \/ RegisterFails(z) \/ ResumeTimedOut(z)
      <4>1. Return(z, t)
        BY <3>1 DEF TrySucceeds, RegisterFails, ResumeTimedOut, t
      <4> QED BY <4>1 DEF Return
    <3>2. CASE TryAgain(z)
      BY <3>2 DEF TryAgain, t
    <3>3. CASE Yield(z) \/ ResumeRetries(z)
      BY <3>3 DEF Yield, ResumeRetries, t
    <3> QED BY <1>1, <3>1, <3>2, <3>3
  <2>2. \A u \in Tasks : tpc'[u] \in {"resize", "register", "close"} => tpc'[u] = tpc[u]
    BY <2>1, <1>0 DEF CallOK, TaskAt
  <2>3. waiter' = waiter /\ UNCHANGED <<size, slot, open, found, aborted>>
    BY <1>1 DEF TrySucceeds, TryAgain, RegisterFails, Yield, ResumeTimedOut, ResumeRetries,
                ctxs, wait, world
  <2>4. \A d \in Context : Registered(d)' \subseteq Registered(d)
    BY <2>3 DEF Registered
  <2> QED BY <2>2, <2>3, <2>4, <1>g, OneStay
<1>2. CASE LookUp(z)
  <2>1. /\ IF size > fd
           THEN found' = [found EXCEPT ![t] = slot[fd]] /\ TaskAt(t, "register")
           ELSE UNCHANGED found /\ TaskAt(t, "resize")
        /\ UNCHANGED <<size, slot, waiter, open, aborted>>
    BY <1>2 DEF LookUp, t, ctxs, wait, world
  <2>2. \A d : Registered(d)' = Registered(d)
    BY <2>1 DEF Registered
  <2>3. SlotInv' /\ EndInv' /\ ~aborted'
    BY <2>1, <2>2, <1>0 DEF SlotInv, EndInv
  <2>4. size \in Nat /\ fd \in Nat
    BY <1>0, <1>t, FdsAssumption DEF CtxOK
  <2>5. TaskInv'
    <3>1. CASE size > fd
      <4>1. tpc'[t] = "register" /\ found'[t] = slot[fd] /\ slot[fd] # 0
        BY <3>1, <2>1, <2>4, <1>0, <1>t DEF TaskAt, CallOK, SlotInv
      <4>2. \A u \in Tasks : u # t => tpc'[u] = tpc[u]
        BY <3>1, <2>1, <1>0 DEF TaskAt, CallOK
      <4> QED BY <4>1, <4>2, <2>1, <1>r DEF TaskInv
    <3>2. CASE ~(size > fd)
      <4>1. tpc'[t] = "resize" /\ size <= fd
        BY <3>2, <2>1, <2>4, <1>0, <1>t DEF TaskAt, CallOK
      <4>2. \A u \in Tasks : u # t => tpc'[u] = tpc[u]
        BY <3>2, <2>1, <1>0 DEF TaskAt, CallOK
      <4> QED BY <4>1, <4>2, <2>1, <1>r DEF TaskInv
    <3> QED BY <3>1, <3>2
  <2> QED BY <2>3, <2>5, <1>g DEF OneInv
<1>3. CASE Resize(z)
  <2> DEFINE n == (fd * 3) \div 2
  <2>1. /\ tpc[t] = "resize"
        /\ size' = n
        /\ slot' = [f \in Fds |-> IF f >= n THEN 0
                                   ELSE IF slot[f] = 0 THEN made[f] + 1 ELSE slot[f]]
        /\ found' = [found EXCEPT ![t] = slot'[fd]]
        /\ TaskAt(t, "register")
        /\ UNCHANGED <<waiter, open, aborted>>
    BY <1>3 DEF Resize, ContextResize, At, t, wait, world
  <2>2. /\ Fds \subseteq Nat /\ fd \in Nat /\ size \in Nat /\ size >= 2 /\ size <= fd
    BY <2>1, <1>0, <1>t, FdsAssumption DEF CtxOK, SlotInv, TaskInv
  <2>3. n \in Nat /\ n > fd /\ n >= 2
    <3> HIDE DEF fd
    <3> QED BY <2>2
  <2> HIDE DEF n
  <2>4. \A f \in Fds : f \in Nat /\ made[f] \in Nat /\ slot[f] \in Nat /\ (slot[f] # 0 <=> f < size)
    BY <2>2, <1>0, BoundsAssumption DEF CtxOK, SlotInv
  <2>5. \A f \in Fds : slot'[f] # 0 <=> f < n
    <3> SUFFICES ASSUME NEW f \in Fds PROVE slot'[f] # 0 <=> f < n
      OBVIOUS
    <3>1. slot'[f] = IF f >= n THEN 0 ELSE IF slot[f] = 0 THEN made[f] + 1 ELSE slot[f]
      BY <2>1
    <3> QED BY <3>1, <2>3, <2>4
  <2>6. \A f \in Fds : f < size => slot'[f] = slot[f]
    <3> SUFFICES ASSUME NEW f \in Fds, f < size PROVE slot'[f] = slot[f]
      OBVIOUS
    <3>1. slot'[f] = IF f >= n THEN 0 ELSE IF slot[f] = 0 THEN made[f] + 1 ELSE slot[f]
      BY <2>1
    <3> QED BY <3>1, <2>2, <2>3, <2>4
  <2>7. SlotInv'
    BY <2>1, <2>3, <2>5 DEF SlotInv
  <2>8. \A d : Registered(d)' = Registered(d)
    BY <2>1 DEF Registered
  <2>9. EndInv'
    <3> SUFFICES ASSUME NEW d \in Context, Registered(d) # {}
                 PROVE  open[d[1]] /\ slot'[d[1]] = d[2] /\ d[2] # 0
      BY <2>1, <2>8 DEF EndInv
    <3>1. open[d[1]] /\ slot[d[1]] = d[2] /\ d[2] # 0 /\ d[1] \in Fds
      BY <1>0 DEF EndInv, Context
    <3> QED BY <3>1, <2>4, <2>6
  <2>10. TaskInv'
    <3>1. tpc'[t] = "register" /\ found'[t] = slot'[fd] /\ slot'[fd] # 0
      BY <2>1, <2>3, <2>5, <1>0, <1>t DEF TaskAt, CallOK
    <3>2. \A u \in Tasks : u # t => tpc'[u] = tpc[u]
      BY <2>1, <1>0 DEF TaskAt, CallOK
    <3> QED BY <3>1, <3>2, <1>r DEF TaskInv
  <2> QED BY <2>1, <2>7, <2>9, <2>10, <1>0, <1>g DEF OneInv
<1>4. CASE Register(z)
  <2>1. /\ tpc[t] = "register" /\ UNCHANGED <<size, slot, open, found>>
        /\ found[t] = slot[fd] /\ found[t] # 0 /\ t \notin Closers
    BY <1>4, <1>0, <1>t DEF Register, At, t, ctxs, world, TaskInv, CloserInv
  <2>2. e \notin Registered(c)
    <3> SUFFICES ASSUME e \in Registered(c) PROVE FALSE
      OBVIOUS
    <3> DEFINE u == waiter[c][e]
    <3>1. u # None /\ u \in Parked
      BY <1>t DEF Registered, OnceInv, WaitInv
    <3>2. u \in Tasks \ Closers /\ FdOf[u] = fd /\ EventOf[u] = e /\ tpc[u] \in {"yield", "hold"}
      BY <3>1, <1>0, <1>t DEF ShapeInv, Parked
    <3>3. u # t
      BY <3>2, <2>1
    <3> HIDE DEF u, c
    <3> QED BY <3>2, <3>3, <2>1, <1>t, OneTaskPerEvent
  <2>3. /\ IF Registered(c) = {} THEN CanAdd(fd) ELSE CanChange(fd)
        /\ epoll' = [epoll EXCEPT ![fd] = [ptr |-> found[t], on |-> Registered(c) \cup {e}]]
        /\ waiter' = [waiter EXCEPT ![c] = [@ EXCEPT ![e] = t]]
        /\ TaskAt(t, "yield") /\ aborted' = aborted
    BY <2>2, <1>4 DEF Register, t
  <2>4. open[fd] /\ found[t] \in 0..MaxMade
    BY <2>3, <1>0, <1>t DEF CanAdd, CanChange, CallOK
  <2>5. \A d \in Context : d # c => Registered(d)' = Registered(d)
    <3>1. \A d \in Context, f \in Events :
            waiter'[d][f] = IF d = c /\ f = e THEN t ELSE waiter[d][f]
      BY <2>3, <1>0, <1>t DEF RegInv
    <3> HIDE DEF c
    <3> QED BY <3>1 DEF Registered
  <2>6. SlotInv' /\ ~aborted'
    BY <2>1, <2>3, <1>0 DEF SlotInv
  <2>7. EndInv'
    <3> SUFFICES ASSUME NEW d \in Context, Registered(d)' # {}
                 PROVE  open[d[1]] /\ slot[d[1]] = d[2] /\ d[2] # 0
      BY <2>1 DEF EndInv
    <3>1. CASE d = c
      BY <3>1, <2>1, <2>4
    <3>2. CASE d # c
      BY <3>2, <2>5, <1>0 DEF EndInv
    <3> QED BY <3>1, <3>2
  <2>8. TaskInv'
    <3>1. \A u \in Tasks : tpc'[u] \notin {"resize", "register", "close"}
      BY <2>3, <1>0, <1>r DEF TaskAt, CallOK
    <3> QED BY <3>1 DEF TaskInv
  <2> QED BY <2>6, <2>7, <2>8, <1>g DEF OneInv
<1> QED BY <1>1, <1>2, <1>3, <1>4

\* The timer's callback and close.
LEMMA OneCancel ==
  ASSUME NEW z, Workers = {z}, IInv, StackInv, OnceInv, LinkInv, OneInv,
         TimerFires(z) \/ CancelEvent(z) \/ CancelAll(z) \/ Close(z)
  PROVE  OneInv'
<1> DEFINE t == cur[z].task  fd == FdOf[t]  c == Here(fd)
<1>0. /\ RegInv /\ CtxOK /\ CallOK /\ RunOK /\ PlaceOK /\ z \in Workers
      /\ SlotInv /\ EndInv /\ TaskInv /\ GotInv /\ ~aborted
  BY DEF IInv, RunOK, OneInv
<1>w. wpc[z] \in HoldPlaces /\ got' = got
  BY DEF TimerFires, CancelEvent, CancelAll, Close, At, HoldPlaces
<1>t. t \in Tasks /\ fd \in Fds /\ c \in Context /\ c[1] = fd /\ c[2] = slot[fd]
  BY <1>w, <1>0, FiberTask DEF Here, Context, CtxOK
<1>g. GotInv'
  BY <1>w, <1>0, GotIdle DEF HoldPlaces
<1> HIDE DEF t
<1>1. CASE TimerFires(z)
  <2>1. waiter' = waiter /\ tpc' = tpc /\ UNCHANGED <<size, slot, open, found, aborted>>
    BY <1>1 DEF TimerFires, ctxs, wait, world
  <2>2. \A d \in Context : Registered(d)' \subseteq Registered(d)
    BY <2>1 DEF Registered
  <2> QED BY <2>1, <2>2, <1>g, OneStay
<1>2. CASE CancelEvent(z) \/ CancelAll(z)
  <2>1. UNCHANGED <<size, slot, open, found, aborted>>
    BY <1>2 DEF CancelEvent, CancelAll, ctxs, world
  <2>2. \/ UNCHANGED wait
        \/ \E es \in SUBSET Registered(c) : Trigger(c, es)
    <3>1. CASE CancelEvent(z)
      BY <3>1 DEF CancelEvent, t
    <3>2. CASE CancelAll(z)
      BY <3>2 DEF CancelAll, t
    <3> QED BY <1>2, <3>1, <3>2
  <2>3. \A d \in Context : Registered(d)' \subseteq Registered(d)
    <3>1. CASE UNCHANGED wait
      BY <3>1 DEF wait, Registered
    <3>2. CASE \E es \in SUBSET Registered(c) : Trigger(c, es)
      <4> HIDE DEF c
      <4> QED BY <3>2, <1>t, <1>0, TriggerRegistered
    <3> QED BY <2>2, <3>1, <3>2
  <2>4. CASE CancelEvent(z)
    BY <2>1, <2>3, <2>4, <1>g, OneStay DEF CancelEvent
  <2>5. CASE CancelAll(z)
    <3>1. wpc[z] = "fiber" /\ tpc[t] = "cancelAll" /\ TaskAt(t, "close")
      BY <2>5 DEF CancelAll, At, t
    <3>2. SlotInv' /\ EndInv' /\ ~aborted'
      BY <2>1, <2>3, <1>0 DEF SlotInv, EndInv
    <3>3. \A u \in Tasks : tpc'[u] \in {"resize", "register", "close"} => u = t
      <4>1. Runs = {t}
        BY <3>1, OneRuns DEF t
      <4> QED BY <3>1, <4>1, <1>0 DEF TaskAt, CallOK, Runs
    <3>4. \A d \in Context : d[1] = fd /\ Registered(d) # {} => d = c
      <4>1. \A d \in Context : d = <<d[1], d[2]>>
        BY DEF Context
      <4> QED BY <4>1, <1>t, <1>0 DEF EndInv
    <3>5. \A d \in Context : d[1] = fd => Registered(d)' = {}
      <4> SUFFICES ASSUME NEW d \in Context, d[1] = fd, Registered(d) # {}
                   PROVE  Registered(d)' = {}
        BY <2>3
      <4>0. d = c
        BY <3>4
      <4>1. open[fd] /\ slot[fd] # 0
        BY <1>0 DEF EndInv
      <4>2. epoll[fd].on # {}
        <5>1. epoll[d[1]] = [ptr |-> d[2], on |-> Registered(d)]
          BY <4>1, <1>0, Zenon DEF RegInv, KernelAgrees
        <5> QED BY <5>1
      <4>3. size > fd
        BY <4>1, <1>t, <1>0, FdsAssumption DEF SlotInv, CtxOK
      <4>4. Trigger(c, Registered(c))
        <5>1. size > fd /\ Registered(c) # {} /\ CanChange(fd)
          BY <4>0, <4>1, <4>2, <4>3 DEF CanChange
        <5>2. IF size > fd /\ Registered(c) # {} /\ CanChange(fd)
              THEN Trigger(c, Registered(c)) ELSE UNCHANGED <<wait, queue>>
          BY <2>5 DEF CancelAll, t
        <5> QED BY <5>1, <5>2
      <4>5. Trigger(d, Registered(d))
        <5> HIDE DEF c
        <5> QED BY <4>0, <4>4
      <4>6. Registered(d)' = Registered(d) \ Registered(d)
        BY <4>5, <1>0, TriggerRegistered
      <4> QED BY <4>6
    <3>6. TaskInv'
      <4> SUFFICES ASSUME NEW u \in Tasks
                   PROVE  /\ tpc'[u] = "resize" => size' <= FdOf[u]
                          /\ tpc'[u] = "register" => found'[u] = slot'[FdOf[u]] /\ found'[u] # 0
                          /\ tpc'[u] = "close" =>
                               \A d \in Context : d[1] = FdOf[u] => Registered(d)' = {}
        BY DEF TaskInv
      <4>1. tpc'[t] = "close"
        BY <3>1, <1>0, <1>t DEF TaskAt, CallOK
      <4> QED BY <4>1, <3>3, <3>5
    <3> QED BY <3>2, <3>6, <1>g DEF OneInv
  <2> QED BY <1>2, <2>4, <2>5
<1>3. CASE Close(z)
  <2>1. /\ wpc[z] = "fiber" /\ tpc[t] = "close" /\ TaskAt(t, "done")
        /\ open' = [open EXCEPT ![fd] = FALSE]
        /\ UNCHANGED <<size, slot, waiter, found, aborted>>
    BY <1>3 DEF Close, At, t, ctxs
  <2>2. \A d : Registered(d)' = Registered(d)
    BY <2>1 DEF Registered
  <2>3. EndInv'
    <3> SUFFICES ASSUME NEW d \in Context, Registered(d) # {}
                 PROVE  open'[d[1]] /\ slot[d[1]] = d[2] /\ d[2] # 0
      BY <2>1, <2>2 DEF EndInv
    <3>1. d[1] # fd
      BY <2>1, <1>0, <1>t DEF TaskInv
    <3>2. open[d[1]] /\ slot[d[1]] = d[2] /\ d[2] # 0 /\ d[1] \in Fds
      BY <1>0 DEF EndInv, Context
    <3> QED BY <3>1, <3>2, <2>1, <1>0 DEF RegInv
  <2>4. \A u \in Tasks : tpc'[u] \in {"resize", "register", "close"} => tpc'[u] = tpc[u]
    BY <2>1, <1>0 DEF CallOK, TaskAt
  <2>5. TaskInv'
    BY <2>1, <2>2, <2>4, <1>0 DEF TaskInv
  <2> QED BY <2>1, <2>3, <2>5, <1>0, <1>g DEF OneInv, SlotInv
<1> QED BY <1>1, <1>2, <1>3

LEMMA OneStep ==
  ASSUME NEW z, Workers = {z}
  PROVE  IInv /\ StackInv /\ OnceInv /\ LinkInv /\ OneInv /\ [Next]_vars => OneInv'
<1> SUFFICES ASSUME IInv, StackInv, OnceInv, LinkInv, OneInv, [Next]_vars PROVE OneInv'
  OBVIOUS
<1>1. CASE \E w \in Workers : Work(w)
  BY <1>1, OneWorker, OneIo, OneCancel DEF Work
<1>2. CASE UNCHANGED <<size, slot, waiter, open, tpc, found, wpc, got, aborted>>
  BY <1>2 DEF OneInv, SlotInv, EndInv, TaskInv, GotInv, Registered
<1>3. CASE \E fd \in Fds, e \in Events \cup {"HUP"} : BecomesReady(fd, e)
  BY <1>2, <1>3 DEF BecomesReady, ctxs, wait
<1>4. CASE \E t \in Tasks : Elapse(t)
  BY <1>2, <1>4 DEF Elapse, ctxs, wait, world
<1>5. CASE Stop \/ UNCHANGED vars
  BY <1>2, <1>5 DEF Stop, vars, ctxs, wait, world
<1> QED BY <1>1, <1>3, <1>4, <1>5 DEF Next

LEMMA SpecOne ==
  ASSUME NEW z, Workers = {z}
  PROVE  Spec => []OneInv
<1>1. Init => LinkInv
  <2> SUFFICES ASSUME Init PROVE LinkInv
    OBVIOUS
  <2>1. EpollInv /\ ShapeInv
    BY DEF Init, EpollInv, ShapeInv, Context
  <2>2. CloserInv
    BY TasksAssumption DEF Init, CloserInv
  <2> QED BY <2>1, <2>2 DEF LinkInv
<1>2. Init => OneInv
  <2> SUFFICES ASSUME Init PROVE OneInv
    OBVIOUS
  <2>1. \A c \in Context : Registered(c) = {}
    BY DEF Init, Registered
  <2>2. SlotInv
    BY FdsAssumption DEF Init, SlotInv
  <2> QED BY <2>1, <2>2 DEF Init, OneInv, EndInv, TaskInv, GotInv
<1>3. IInv /\ StackInv /\ OnceInv /\ LinkInv /\ [Next]_vars => LinkInv'
  BY LinkStep
<1>4. IInv /\ StackInv /\ OnceInv /\ LinkInv /\ OneInv /\ [Next]_vars => OneInv'
  BY OneStep
<1> QED BY <1>1, <1>2, <1>3, <1>4, SpecInv, SpecOnce, PTL DEF Spec

\* With one worker idle() never triggers an event that is not registered (iomanager.cc:82)
\* and, as every event has one task, addEvent finds it free (iomanager.cc:173): what
\* epoll_wait has reported stays true until it is processed.
THEOREM OneWorkerAsserts ==
  ASSUME NEW z, Workers = {z}
  PROVE  Spec => []AssertionsHold
<1>1. OneInv => AssertionsHold
  BY DEF OneInv, AssertionsHold
<1> QED BY <1>1, SpecOne, PTL

\* With one worker every wait can still be ended: its descriptor is open, and its context
\* is the one in m_fdContexts, where a timeout or a close looks for it, however often
\* the vector was resized (iomanager.cc:155-165).
THEOREM OneWorkerEnds ==
  ASSUME NEW z, Workers = {z}
  PROVE  Spec => []WaitsEndable
<1>1. OneInv => WaitsEndable
  BY DEF OneInv, EndInv, WaitsEndable
<1> QED BY <1>1, SpecOne, PTL
=============================================================================
