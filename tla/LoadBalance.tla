---------------------------- MODULE LoadBalance ----------------------------
(***************************************************************************)
(* Balancing requests over the providers of one service:                   *)
(* ZKServiceDiscovery (src/ancfl/streams/service_discovery.cc) reads the   *)
(* providers, SDLoadBalance and LoadBalance (load_balance.cc) keep a       *)
(* stream to each, RockSDLoadBalance::request (rock_stream.cc) picks one   *)
(* and counts the request in the statistics of the second it began in.     *)
(*                                                                         *)
(* Balancers and items are shared objects: a handler may hold one that has *)
(* been replaced.  They live in balancers and items, 0 is the null         *)
(* pointer.  ZooKeeper is external: a set of providers that changes.  Of   *)
(* the statistics only m_doing is kept, the one counter that goes down.    *)
(* Balancers have the default type, FAIR; which of the connected items a   *)
(* weight prefers is left open.                                            *)
(***************************************************************************)
EXTENDS Integers, Sequences, FiniteSets, SequencesExt

CONSTANTS
  Nodes,
  Callbacks,  \* what calls getChildren: the watch, the timer
  Callers,    \* fibers in request()
  Size,       \* slots of HolderStatsSet, one per second
  Width,      \* width of a counter in bits
  MaxTime,
  Bounds      \* instances: workers, changes of the providers, requests

ASSUME SizeAssumption   == Size \in Nat \ {0} /\ Width \in Nat /\ MaxTime \in Nat \ {0}
\* True of every width; the provers know nothing of powers.
ASSUME WidthAssumption  == 2^Width \in Nat \ {0}
ASSUME FiniteAssumption == IsFiniteSet(Nodes) /\ IsFiniteSet(Callbacks) /\ IsFiniteSet(Callers)
ASSUME BoundAssumption  == Bounds \subseteq [workers : Nat \ {0}, changes : Nat, requests : Nat]

VARIABLES
  bound,      \* the instance of this behaviour
  children,   \* providers of the service in ZooKeeper
  datas,      \* IServiceDiscovery::m_datas
  current,    \* SDLoadBalance::m_datas: the balancer of the service
  balancers,  \* LoadBalance objects: m_datas as listed, m_items as ready
  items,      \* LoadBalanceItem objects with their streams and statistics
  closing,    \* items whose close() is scheduled
  callback,   \* getChildren() in progress, per callback
  caller,     \* request() in progress, per caller
  time,       \* seconds
  changes, requests,
  failed,     \* listed providers no stream could be created for
  late        \* has a request lasted Size seconds?

discovery == <<children, datas, changes>>
balancing == <<current, balancers, closing, failed>>
clock     == <<time, late>>
vars == <<bound, discovery, balancing, items, callback, caller, clock, requests>>

Slots == 0..(Size - 1)
Wrap(n) == n % 2^Width

Item     == [node : Nodes, state : {"down", "up", "closed"}, last : Nat, doing : [Slots -> 0..(2^Width - 1)]]
Balancer == [listed : [Nodes -> Nat], ready : SUBSET Nat]

Idle == [pc |-> "idle"]

Init ==
  /\ bound \in Bounds
  /\ children = {} /\ datas = {} /\ changes = 0
  /\ current = 0 /\ balancers = <<>> /\ closing = {} /\ failed = {}
  /\ items = <<>>
  /\ callback = [b \in Callbacks |-> Idle]
  /\ caller = [c \in Callers |-> Idle]
  /\ time = 1 /\ late = FALSE /\ requests = 0

\* request() gives up its worker while it waits for the answer.
Running == {b \in Callbacks : callback[b].pc # "idle"} \cup {c \in Callers : caller[c].pc \notin {"idle", "waiting"}}
FreeWorker == Cardinality(Running) < bound.workers

---------------------------------------------------------------------------
(* The environment: ZooKeeper, the connections, the clock *)

Provide(n) ==
  /\ changes < bound.changes
  /\ changes' = changes + 1
  /\ children' = IF n \in children THEN children \ {n} ELSE children \cup {n}
  /\ UNCHANGED <<bound, datas, balancing, items, callback, caller, clock, requests>>

\* A stream connects, is lost and reconnects by itself until it is closed.  An
\* instance without requests leaves the streams as they begin.
Toggle(i) ==
  /\ items[i].state # "closed" /\ bound.requests > 0
  /\ items' = [items EXCEPT ![i].state = IF @ = "up" THEN "down" ELSE "up"]
  /\ UNCHANGED <<bound, discovery, balancing, callback, caller, clock, requests>>

Tick ==
  /\ time < MaxTime /\ bound.requests > 0
  /\ time' = time + 1
  /\ late' = (late \/ \E c \in Callers : caller[c].pc \in {"stats", "clear", "stamp", "count", "waiting"}
                                         /\ time' - caller[c].ts >= Size)
  /\ UNCHANGED <<bound, discovery, balancing, items, callback, caller, requests>>

---------------------------------------------------------------------------
(* HolderStatsSet *)

\* Slots of the seconds since the last update; at most all of them.
Stale(last, now) == {t % Size : t \in (last + 1)..(IF now < last + Size THEN now ELSE last + Size)}

Cleared(it, now) == [it EXCEPT !.doing = [k \in Slots |-> IF k \in Stale(it.last, now) THEN 0 ELSE @[k]]]

\* HolderStatsSet::init of the items in S, which initNolock does for their weights.
Weighed(its, S) ==
  [i \in DOMAIN its |-> IF i \in S /\ its[i].last < time THEN [Cleared(its[i], time) EXCEPT !.last = time] ELSE its[i]]

---------------------------------------------------------------------------
(* Discovery: getChildren() and onServiceChange() *)

ListedBy(b) == {b.listed[n] : n \in Nodes} \ {0}
Up(its, S)  == {i \in S : its[i].state = "up"}

\* Variant: m_items is not emptied first.
RefreshedKeeps(b, its) == [b EXCEPT !.ready = @ \cup Up(its, ListedBy(b))]

\* initNolock: requests choose from the items connected at this moment.
Refreshed(b, its) == [b EXCEPT !.ready = Up(its, ListedBy(b))]

\* The answer of ZooKeeper; a failure ends the call and changes nothing.
ReadChildren(b) ==
  /\ FreeWorker /\ callback[b] = Idle
  /\ callback' = [callback EXCEPT ![b] = [pc |-> "swap", new |-> children, old |-> {}, lb |-> 0]]
  /\ UNCHANGED <<bound, discovery, balancing, items, caller, clock, requests>>

SwapDatas(b) ==
  /\ callback[b].pc = "swap"
  /\ datas' = callback[b].new
  /\ callback' = [callback EXCEPT ![b].pc = "get", ![b].old = datas]
  /\ UNCHANGED <<bound, children, changes, balancing, items, caller, clock, requests>>

\* SDLoadBalance::get; a missing balancer is created and inserted in another
\* lock scope.
GetBalancer(b) ==
  /\ callback[b].pc = "get"
  /\ callback' = [callback EXCEPT ![b].pc = IF current = 0 THEN "insert" ELSE "update", ![b].lb = current]
  /\ UNCHANGED <<bound, discovery, balancing, items, caller, clock, requests>>

InsertBalancer(b) ==
  /\ callback[b].pc = "insert"
  /\ balancers' = Append(balancers, [listed |-> [n \in Nodes |-> 0], ready |-> {}])
  /\ current' = Len(balancers) + 1
  /\ callback' = [callback EXCEPT ![b].pc = "update", ![b].lb = Len(balancers) + 1]
  /\ UNCHANGED <<bound, discovery, closing, failed, items, caller, clock, requests>>

NewItem(n, up) == [node |-> n, state |-> IF up THEN "up" ELSE "down", last |-> 0, doing |-> [k \in Slots |-> 0]]

\* Variant: nothing is ever removed.
RemovedNone(h) == {}

\* Nodes to remove and to add: old and new answer of the same getChildren().
Removed(h) == h.old \ h.new
Added(h)   == h.new \ h.old

\* Variant: removed items are not closed.
ErasedNone(lb, h) == {}

\* The items update() hands back to be closed.
Erased(lb, h) == {lb.listed[n] : n \in Removed(h)} \ {0}

\* onServiceChange: a stream for every added node, unless it cannot be created
\* (bad); some are connected at once (on).  Then LoadBalance::update, with
\* initNolock, and a scheduled close() for what it has removed.
Update(b) ==
  LET h  == callback[b]
      lb == balancers[h.lb]
  IN  /\ h.pc = "update"
      /\ \E bad \in SUBSET Added(h) : \E on \in SUBSET (Added(h) \ bad) :
           LET nodes  == SetToSeq(Added(h) \ bad)
               all    == items \o [k \in DOMAIN nodes |-> NewItem(nodes[k], nodes[k] \in on)]
               listed == [n \in Nodes |-> IF n \in Added(h) \ bad
                                          THEN CHOOSE i \in (Len(items) + 1)..Len(all) : all[i].node = n
                                          ELSE IF n \in Removed(h) THEN 0 ELSE lb.listed[n]]
               next   == Refreshed([lb EXCEPT !.listed = listed], all)
           IN  /\ balancers' = [balancers EXCEPT ![h.lb] = next]
               /\ items' = Weighed(all, next.ready)
               /\ closing' = closing \cup Erased(lb, h)
               /\ failed' = (failed \ Removed(h)) \cup bad
      /\ callback' = [callback EXCEPT ![b] = Idle]
      /\ UNCHANGED <<bound, discovery, current, caller, clock, requests>>

\* The close() that LoadBalanceItem::close has scheduled.
CloseItem(i) ==
  /\ i \in closing
  /\ closing' = closing \ {i}
  /\ items' = [items EXCEPT ![i].state = "closed"]
  /\ UNCHANGED <<bound, discovery, current, balancers, failed, callback, caller, clock, requests>>

---------------------------------------------------------------------------
(* RockSDLoadBalance::request *)

Goes(c, h) == caller' = [caller EXCEPT ![c] = h]
Requests == UNCHANGED <<bound, discovery, current, closing, failed, callback, clock>>

\* Without a balancer the answer is NO_SERVICE.
Ask(c) ==
  /\ requests < bound.requests
  /\ FreeWorker /\ caller[c] = Idle
  /\ requests' = requests + 1
  /\ IF current = 0 THEN UNCHANGED caller ELSE Goes(c, [pc |-> "pick", lb |-> current])
  /\ Requests /\ UNCHANGED <<balancers, items>>

\* checkInit, when 500 ms have passed (due), and a connected item of m_items;
\* without one the answer is NO_CONNECTION.
Pick(c) ==
  /\ caller[c].pc = "pick"
  /\ \E due \in BOOLEAN :
       LET b  == IF due THEN Refreshed(balancers[caller[c].lb], items) ELSE balancers[caller[c].lb]
       IN  /\ balancers' = [balancers EXCEPT ![caller[c].lb] = b]
           /\ items' = Weighed(items, IF due THEN b.ready ELSE {})
           /\ IF Up(items, b.ready) = {} THEN Goes(c, Idle)
              ELSE \E i \in Up(items, b.ready) : Goes(c, [pc |-> "stats", item |-> i, ts |-> time])
  /\ Requests /\ UNCHANGED requests

\* HolderStatsSet::init without a lock: test, clear, stamp.
TestTime(c) ==
  LET h == caller[c]
  IN  /\ h.pc = "stats"
      /\ Goes(c, [h EXCEPT !.pc = IF items[h.item].last < h.ts THEN "clear" ELSE "count"])
      /\ Requests /\ UNCHANGED <<balancers, items, requests>>

ClearSlots(c) ==
  LET h == caller[c]
  IN  /\ h.pc = "clear"
      /\ items' = [items EXCEPT ![h.item] = Cleared(@, h.ts)]
      /\ Goes(c, [h EXCEPT !.pc = "stamp"])
      /\ Requests /\ UNCHANGED <<balancers, requests>>

\* Variant: the second that has just begun is not remembered.
StampBefore(c) ==
  LET h == caller[c]
  IN  /\ h.pc = "stamp"
      /\ items' = [items EXCEPT ![h.item].last = h.ts - 1]
      /\ Goes(c, [h EXCEPT !.pc = "count"])
      /\ Requests /\ UNCHANGED <<balancers, requests>>

Stamp(c) ==
  LET h == caller[c]
  IN  /\ h.pc = "stamp"
      /\ items' = [items EXCEPT ![h.item].last = h.ts]
      /\ Goes(c, [h EXCEPT !.pc = "count"])
      /\ Requests /\ UNCHANGED <<balancers, requests>>

\* incDoing, and the request is under way.
Count(c) ==
  LET h == caller[c]
  IN  /\ h.pc = "count"
      /\ items' = [items EXCEPT ![h.item].doing[h.ts % Size] = Wrap(@ + 1)]
      /\ Goes(c, [h EXCEPT !.pc = "waiting"])
      /\ Requests /\ UNCHANGED <<balancers, requests>>

\* Variant: a counter of unlimited width.
AnswerUnwrapped(c) ==
  LET h == caller[c]
  IN  /\ FreeWorker /\ h.pc = "waiting"
      /\ items' = [items EXCEPT ![h.item].doing[h.ts % Size] = @ - 1]
      /\ Goes(c, Idle)
      /\ Requests /\ UNCHANGED <<balancers, requests>>

\* The answer, whatever it is, and decDoing on the slot of the beginning.
Answer(c) ==
  LET h == caller[c]
  IN  /\ FreeWorker /\ h.pc = "waiting"
      /\ items' = [items EXCEPT ![h.item].doing[h.ts % Size] = Wrap(@ - 1)]
      /\ Goes(c, Idle)
      /\ Requests /\ UNCHANGED <<balancers, requests>>

Next ==
  \/ \E n \in Nodes : Provide(n)
  \/ \E i \in DOMAIN items : Toggle(i) \/ CloseItem(i)
  \/ Tick
  \/ \E b \in Callbacks : ReadChildren(b) \/ SwapDatas(b) \/ GetBalancer(b) \/ InsertBalancer(b) \/ Update(b)
  \/ \E c \in Callers : Ask(c) \/ Pick(c) \/ TestTime(c) \/ ClearSlots(c) \/ Stamp(c) \/ Count(c) \/ Answer(c)

Spec == Init /\ [][Next]_vars

---------------------------------------------------------------------------
(* Properties *)

\* Pointers lead to objects and counters keep their width.
TypeOK ==
  /\ bound \in Bounds
  /\ children \subseteq Nodes /\ datas \subseteq Nodes /\ failed \subseteq Nodes
  /\ current \in 0..Len(balancers)
  /\ \A k \in DOMAIN balancers :
       /\ balancers[k] \in Balancer
       /\ ListedBy(balancers[k]) \cup balancers[k].ready \subseteq DOMAIN items
  /\ items \in Seq(Item) /\ closing \subseteq DOMAIN items
  /\ \A b \in Callbacks : callback[b].pc = "update" => callback[b].lb \in DOMAIN balancers
  /\ \A c \in Callers : caller[c].pc = "waiting" => caller[c].item \in DOMAIN items
  /\ time \in 1..MaxTime /\ late \in BOOLEAN
  /\ changes \in 0..bound.changes /\ requests \in 0..bound.requests

Listed == IF current = 0 THEN {} ELSE ListedBy(balancers[current])
Settled == \A b \in Callbacks : callback[b] = Idle

\* With the callbacks on one thread the balancer of the service has an item for
\* exactly the providers discovery last read, except those whose stream could
\* not be created, and no stream is forgotten: one that is open is listed or about
\* to be closed (load_balance.cc:406, service_discovery.cc:330, LoadBalance::update).
Follows ==
  (bound.workers = 1 /\ Settled) =>
    /\ {items[i].node : i \in Listed} = datas \ failed
    /\ \A i \in DOMAIN items : items[i].state # "closed" => i \in Listed \cup closing

\* However callbacks overlap, a stream is only closed when no balancer has it
\* any more, neither listed nor among those requests choose from.
ClosedIsUnlisted ==
  \A i \in DOMAIN items : (items[i].state = "closed" \/ i \in closing) =>
    \A k \in DOMAIN balancers : i \notin ListedBy(balancers[k]) \cup balancers[k].ready

\* On one thread, as long as no request has lasted Size seconds, every slot
\* counts the requests under way that began in its second; a longer one leaves
\* 2^32 - 1 behind (rock_stream.cc:227, HolderStatsSet::init).
DoingExact ==
  (bound.workers = 1 /\ ~late /\ \A c \in Callers : caller[c].pc \in {"idle", "waiting"}) =>
    \A i \in DOMAIN items : \A k \in Slots :
      items[i].doing[k] =
        Wrap(Cardinality({c \in Callers : caller[c].pc = "waiting" /\ caller[c].item = i /\ caller[c].ts % Size = k}))
=============================================================================
