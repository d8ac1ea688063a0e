------------------------- MODULE LoadBalanceProofs -------------------------
(***************************************************************************)
(* For every number of providers, callbacks and requests: pointers lead to *)
(* objects and a stream is closed only when no balancer has it, however    *)
(* callbacks overlap; on one worker the balancer follows discovery, and    *)
(* the counters of requests under way are exact until a request lasts as   *)
(* long as they have slots.                                                *)
(***************************************************************************)
EXTENDS LoadBalance, FiniteSetTheorems, SequenceTheorems, TLAPS

\* Where a callback is, with what it took with it.
CallbackState ==
  {Idle} \cup [pc : {"swap", "get", "insert", "update"}, new : SUBSET Nodes, old : SUBSET Nodes, lb : Nat]

\* Between choosing an item and having counted the request.
InStats == {"stats", "clear", "stamp", "count"}

\* Where a request is, with the pointer it holds and its second.
CallerState ==
  {Idle} \cup [pc : {"pick"}, lb : Nat] \cup [pc : InStats \cup {"waiting"}, item : Nat, ts : Nat]

\* The sort of every variable, of the two that TypeOK only looks into as well.
Sorts ==
  /\ bound \in Bounds
  /\ children \subseteq Nodes /\ datas \subseteq Nodes /\ failed \subseteq Nodes
  /\ current \in 0..Len(balancers)
  /\ balancers \in Seq(Balancer) /\ items \in Seq(Item) /\ closing \subseteq DOMAIN items
  /\ callback \in [Callbacks -> CallbackState] /\ caller \in [Callers -> CallerState]
  /\ time \in 1..MaxTime /\ late \in BOOLEAN
  /\ changes \in 0..bound.changes /\ requests \in 0..bound.requests

\* Whoever holds a pointer holds one to an object.
Pointers ==
  /\ \A b \in Callbacks : callback[b].pc = "update" => callback[b].lb \in DOMAIN balancers
  /\ \A c \in Callers : caller[c].pc = "pick" => caller[c].lb \in DOMAIN balancers
  /\ \A c \in Callers : caller[c].pc \in InStats \cup {"waiting"} => caller[c].item \in DOMAIN items

\* A balancer chooses among the items it lists; it lists an item under its node,
\* none that is closed, and none that another balancer lists.
Lists(bs, its, cl) ==
  \A k \in DOMAIN bs :
    /\ bs[k].ready \subseteq ListedBy(bs[k])
    /\ \A n \in Nodes : bs[k].listed[n] # 0 =>
         /\ bs[k].listed[n] \in DOMAIN its \ cl
         /\ its[bs[k].listed[n]].node = n /\ its[bs[k].listed[n]].state # "closed"
         /\ \A j \in DOMAIN bs : j # k => bs[j].listed[n] # bs[k].listed[n]

\* The two together: what keeps pointers and streams apart.
ListInv == Pointers /\ Lists(balancers, items, closing)

\* A request that occupies a worker.
Active(c) == caller[c].pc \notin {"idle", "waiting"}

\* On one worker nobody else is in the middle of a callback or a request.
Alone ==
  bound.workers = 1 =>
    /\ \A a, b \in Callbacks : callback[a] # Idle /\ callback[b] # Idle => a = b
    /\ \A c, d \in Callers : Active(c) /\ Active(d) => c = d
    /\ \A b \in Callbacks, c \in Callers : ~ (callback[b] # Idle /\ Active(c))

\* Nodes the balancer of the service has an item for.
Served == IF current = 0 THEN {} ELSE {n \in Nodes : balancers[current].listed[n] # 0}

\* A callback after the swap of the lists and before the balancer has followed.
Within == {"get", "insert", "update"}

\* What Follows says between callbacks, and in one: after the swap the balancer
\* still follows what discovery knew before.
FollowInv ==
  bound.workers = 1 =>
    /\ \A b \in Callbacks : callback[b].pc = "insert" => current = 0
    /\ \A b \in Callbacks : callback[b].pc = "update" => current # 0 /\ callback[b].lb = current
    /\ \A b \in Callbacks : callback[b].pc \in Within =>
         datas = callback[b].new /\ Served = callback[b].old \ failed /\ failed \subseteq callback[b].old
    /\ (\A b \in Callbacks : callback[b].pc \notin Within) => Served = datas \ failed /\ failed \subseteq datas
    /\ \A i \in DOMAIN items : items[i].state # "closed" => i \in Listed \cup closing

\* The slot of a second.
SlotAt(t) == t % Size

\* A request that has an item.
Flying == InStats \cup {"waiting"}

\* The requests under way to an item that are counted in slot k.
Waiters(cs, i, k) == {c \in Callers : cs[c].pc = "waiting" /\ cs[c].item = i /\ SlotAt(cs[c].ts) = k}

\* The second an item was last cleared in lies between those of the requests
\* counted and that of the request being counted, so that the slots about to be
\* cleared count nobody.
Seconds(cs, its, now) ==
  /\ \A c \in Callers : cs[c].pc \in Flying => cs[c].ts <= now /\ now - cs[c].ts < Size
  /\ \A i \in DOMAIN its : its[i].last <= now
  /\ \A c \in Callers : cs[c].pc \in InStats => its[cs[c].item].last <= cs[c].ts
  /\ \A c \in Callers : cs[c].pc = "count" => its[cs[c].item].last = cs[c].ts
  /\ \A c \in Callers : cs[c].pc = "waiting" => cs[c].ts <= its[cs[c].item].last

\* Every counter counts its requests.
Tally(cs, its) ==
  \A i \in DOMAIN its : \A k \in Slots : its[i].doing[k] = Wrap(Cardinality(Waiters(cs, i, k)))

\* What holds on one worker while no request is late.
DoingInv == bound.workers = 1 /\ ~late => Seconds(caller, items, time) /\ Tally(caller, items)

---------------------------------------------------------------------------
(* Remainders *)

\* What the prover knows of quotient and remainder.
LEMMA Quotient ==
  ASSUME NEW m \in Nat \ {0}, NEW n \in Int
  PROVE  n \div m \in Int /\ n % m \in 0..(m - 1) /\ n = m * (n \div m) + (n % m)
OBVIOUS

\* The multiples of m are m apart.
LEMMA Multiples ==
  ASSUME NEW m \in Nat \ {0}, NEW p \in Int, NEW q \in Int, p > q
  PROVE  m * p >= m * q + m
<1>1. m * (p - q) >= m
  OBVIOUS
<1>2. m * (p - q) = m * p - m * q /\ m * p \in Int /\ m * q \in Int
  OBVIOUS
<1> QED BY <1>1, <1>2

\* The remainder is the only one.
LEMMA Remainder ==
  ASSUME NEW m \in Nat \ {0}, NEW q \in Int, NEW r \in 0..(m - 1), NEW n \in Int, n = m * q + r
  PROVE  n % m = r
<1>1. PICK p \in Int, s \in 0..(m - 1) : s = n % m /\ n = m * p + s
  BY Quotient
<1>2. m * p \in Int /\ m * q \in Int
  OBVIOUS
<1>3. ~ p > q
  BY <1>1, <1>2, Multiples
<1>4. ~ q > p
  BY <1>1, <1>2, Multiples
<1> QED BY <1>1, <1>3, <1>4

\* Adding to a remainder is as good as adding to the number.
LEMMA Shift ==
  ASSUME NEW m \in Nat \ {0}, NEW n \in Int, NEW d \in Int
  PROVE  ((n % m) + d) % m = (n + d) % m
<1>1. PICK q \in Int, r \in 0..(m - 1) : r = n % m /\ n = m * q + r
  BY Quotient
<1>2. PICK p \in Int, s \in 0..(m - 1) : s = (r + d) % m /\ r + d = m * p + s
  <2>1. r + d \in Int
    OBVIOUS
  <2> QED BY <2>1, Quotient
<1>3. m * (q + p) = m * q + m * p /\ m * q \in Int /\ m * p \in Int
  OBVIOUS
<1>4. n + d = m * (q + p) + s /\ n + d \in Int /\ q + p \in Int
  <2>1. PICK a \in Int, b \in Int : a = m * q /\ b = m * p
    BY <1>3
  <2>2. n = a + r /\ r + d = b + s /\ m * (q + p) = a + b
    BY <1>1, <1>2, <1>3, <2>1
  <2> QED BY <2>2
<1>5. (n + d) % m = s
  <2>1. PICK k \in Int : k = q + p
    OBVIOUS
  <2>2. PICK z \in Int : z = n + d
    OBVIOUS
  <2>3. z = m * k + s
    BY <1>4, <2>1, <2>2
  <2>4. z % m = s
    BY <2>3, Remainder
  <2> QED BY <2>2, <2>4
<1> QED BY <1>1, <1>2, <1>5

\* Less than Size apart, different seconds have different slots.
LEMMA ApartSlots ==
  ASSUME NEW s \in Nat, NEW t \in Nat, s < t, t - s < Size
  PROVE  s % Size # t % Size
<1> DEFINE m == Size
<1>0. m \in Nat \ {0} /\ t - s < m
  BY SizeAssumption
<1> SUFFICES s % m # t % m
  OBVIOUS
<1> HIDE DEF m
<1>1. SUFFICES ASSUME s % m = t % m PROVE FALSE
  OBVIOUS
<1>2. PICK p \in Int, q \in Int, r \in 0..(m - 1) : s = m * p + r /\ t = m * q + r
  <2>1. /\ s \div m \in Int /\ s % m \in 0..(m - 1) /\ s = m * (s \div m) + (s % m)
        /\ t \div m \in Int /\ t = m * (t \div m) + (t % m)
    BY <1>0, Quotient
  <2> QED BY <1>0, <1>1, <2>1
<1>3. m * p \in Int /\ m * q \in Int
  BY <1>0
<1>4. ~ q > p
  BY <1>0, <1>2, <1>3, Multiples
<1>5. ~ p > q
  BY <1>0, <1>2, <1>3, Multiples
<1> QED BY <1>0, <1>2, <1>4, <1>5

---------------------------------------------------------------------------
(* Counters of bounded width, and slots *)

\* The values of a counter.
Counter == 0..(2^Width - 1)

\* A counter starts at zero, keeps its width, and forgets only whole turns.
LEMMA Wraps ==
  ASSUME NEW n \in Int
  PROVE  /\ Wrap(n) \in Counter /\ Wrap(0) = 0 /\ 0 \in Counter
         /\ Wrap(Wrap(n) + 1) = Wrap(n + 1) /\ Wrap(Wrap(n) - 1) = Wrap(n - 1)
<1> DEFINE m == 2^Width
<1>0. m \in Nat \ {0}
  BY WidthAssumption
<1>1. Wrap(n) = n % m /\ \A d \in Int : Wrap(Wrap(n) + d) = ((n % m) + d) % m /\ Wrap(n + d) = (n + d) % m /\ Wrap(0) = 0 % m
  BY DEF Wrap
<1>2. Counter = 0..(m - 1)
  BY DEF Counter
<1> HIDE DEF m
<1>3. n % m \in 0..(m - 1) /\ 0 \in 0..(m - 1) /\ n % m \in Int
  BY <1>0, Quotient
<1>4. 0 % m = 0
  BY <1>0
<1>5. \A d \in Int : ((n % m) + d) % m = (n + d) % m
  BY <1>0, Shift
<1>6. Wrap(Wrap(n) + 1) = Wrap(n + 1)
  BY <1>1, <1>5
<1>7. Wrap(Wrap(n) + (-1)) = Wrap(n + (-1))
  BY <1>1, <1>5
<1>8. Wrap(n) + (-1) = Wrap(n) - 1 /\ n + (-1) = n - 1
  BY <1>1, <1>3
<1>9. Wrap(Wrap(n) - 1) = Wrap(n - 1)
  BY <1>7, <1>8
<1> QED BY <1>1, <1>2, <1>3, <1>4, <1>6, <1>9

\* Every second has its slot; seconds less than Size apart have slots of their own.
LEMMA SlotOf ==
  /\ \A t \in Nat : SlotAt(t) \in Slots
  /\ \A s, t \in Nat : s < t /\ t - s < Size => SlotAt(s) # SlotAt(t)
<1>1. \A t \in Nat : t % Size \in 0..(Size - 1)
  BY SizeAssumption, Quotient
<1>2. ASSUME NEW s \in Nat, NEW t \in Nat, s < t, t - s < Size
      PROVE  SlotAt(s) # SlotAt(t)
  <2>1. s % Size # t % Size
    BY <1>2, ApartSlots
  <2> QED BY <2>1 DEF SlotAt
<1> QED BY <1>1, <1>2 DEF Slots, SlotAt

---------------------------------------------------------------------------
(* Items *)

\* The fields of an item.
LEMMA ItemFields ==
  ASSUME NEW it \in Item
  PROVE  it.node \in Nodes /\ it.state \in {"down", "up", "closed"} /\ it.last \in Nat /\ it.doing \in [Slots -> Counter]
BY DEF Item, Counter

\* What an item is made of.
LEMMA ItemMade ==
  ASSUME NEW n \in Nodes, NEW s \in {"down", "up", "closed"}, NEW l \in Nat, NEW d \in [Slots -> Counter]
  PROVE  [node |-> n, state |-> s, last |-> l, doing |-> d] \in Item
BY DEF Item, Counter

\* An item in another state, at another second, with other counters.
LEMMA ItemSet ==
  ASSUME NEW it \in Item
  PROVE  /\ \A s \in {"down", "up", "closed"} :
              LET new == [it EXCEPT !.state = s]
              IN  new \in Item /\ new.node = it.node /\ new.state = s /\ new.last = it.last /\ new.doing = it.doing
         /\ \A l \in Nat :
              LET new == [it EXCEPT !.last = l]
              IN  new \in Item /\ new.node = it.node /\ new.state = it.state /\ new.last = l /\ new.doing = it.doing
         /\ \A d \in [Slots -> Counter] :
              LET new == [it EXCEPT !.doing = d]
              IN  new \in Item /\ new.node = it.node /\ new.state = it.state /\ new.last = it.last /\ new.doing = d
BY DEF Item, Counter

\* The same of one copy of an item.
LEMMA ItemLast ==
  ASSUME NEW it \in Item, NEW l \in Nat, NEW new, new = [it EXCEPT !.last = l]
  PROVE  new \in Item /\ new.node = it.node /\ new.state = it.state /\ new.last = l /\ new.doing = it.doing
BY DEF Item

\* And with other counters.
LEMMA ItemDoing ==
  ASSUME NEW it \in Item, NEW d \in [Slots -> Counter], NEW new, new = [it EXCEPT !.doing = d]
  PROVE  new \in Item /\ new.node = it.node /\ new.state = it.state /\ new.last = it.last /\ new.doing = d
BY DEF Item, Counter

\* Counters of the slots of the seconds since the item's own are zero.
Cleans(d, e, last, now) ==
  \A k \in Slots : e[k] = IF k \in Stale(last, now) THEN 0 ELSE d[k]

\* Clearing touches the counters only.
LEMMA ClearedItem ==
  ASSUME NEW it \in Item, NEW now \in Nat
  PROVE  /\ Cleared(it, now) \in Item /\ Cleared(it, now).node = it.node /\ Cleared(it, now).state = it.state
         /\ Cleared(it, now).last = it.last /\ Cleans(it.doing, Cleared(it, now).doing, it.last, now)
<1> DEFINE d == [k \in Slots |-> IF k \in Stale(it.last, now) THEN 0 ELSE it.doing[k]]
<1>1. d \in [Slots -> Counter] /\ Cleans(it.doing, d, it.last, now)
  <2>1. \A k \in Slots : it.doing[k] \in Counter
    BY ItemFields
  <2>2. 0 \in Counter
    BY Wraps
  <2> QED BY <2>1, <2>2 DEF Cleans
<1>2. Cleared(it, now) = [it EXCEPT !.doing = d]
  BY DEF Cleared
<1> HIDE DEF d
<1>3. PICK new : new = [it EXCEPT !.doing = d]
  OBVIOUS
<1>4. new \in Item /\ new.node = it.node /\ new.state = it.state /\ new.last = it.last /\ new.doing = d
  BY <1>1, <1>3, ItemDoing
<1>5. Cleared(it, now) = new
  BY <1>2, <1>3
<1> QED BY <1>1, <1>4, <1>5

\* An item of the same node and state.
Kin(a, b) == b \in Item /\ b.node = a.node /\ b.state = a.state

\* Weighing leaves an item alone or moves it to the present second, with the
\* slots in between cleared.
Weighs(a, b) ==
  \/ b = a
  \/ a.last < time /\ b.last = time /\ Cleans(a.doing, b.doing, a.last, time)

\* Weighing keeps nodes and states.
LEMMA WeighedItems ==
  ASSUME NEW its \in Seq(Item), NEW S, time \in Nat
  PROVE  /\ Weighed(its, S) \in Seq(Item) /\ Len(Weighed(its, S)) = Len(its)
         /\ \A i \in 1..Len(its) : Kin(its[i], Weighed(its, S)[i]) /\ Weighs(its[i], Weighed(its, S)[i])
<1> DEFINE new(i) == IF i \in S /\ its[i].last < time THEN [Cleared(its[i], time) EXCEPT !.last = time] ELSE its[i]
<1>1. ASSUME NEW i \in 1..Len(its)
      PROVE  Kin(its[i], new(i)) /\ Weighs(its[i], new(i))
  <2> DEFINE it == its[i]
             cl == Cleared(it, time)
             st == [cl EXCEPT !.last = time]
  <2>0. it \in Item
    OBVIOUS
  <2>1. CASE i \in S /\ it.last < time
    <3>1. new(i) = st
      BY <2>1
    <3>2. cl \in Item /\ cl.node = it.node /\ cl.state = it.state /\ Cleans(it.doing, cl.doing, it.last, time)
      <4> HIDE DEF it
      <4> QED BY <2>0, ClearedItem
    <3>3. st \in Item /\ st.node = cl.node /\ st.state = cl.state /\ st.last = time /\ st.doing = cl.doing
      <4> HIDE DEF cl
      <4> QED BY <3>2, ItemSet
    <3>4. it = its[i] /\ it.last < time
      BY <2>1
    <3> HIDE DEF it, cl, st, new
    <3> QED BY <3>1, <3>2, <3>3, <3>4 DEF Kin, Weighs
  <2>2. CASE ~ (i \in S /\ it.last < time)
    <3>1. new(i) = it /\ it = its[i]
      BY <2>2
    <3> HIDE DEF it, new
    <3> QED BY <2>0, <3>1 DEF Kin, Weighs
  <2> QED BY <2>1, <2>2
<1>2. DOMAIN its = 1..Len(its) /\ Len(its) \in Nat
  OBVIOUS
<1>3. Weighed(its, S) = [i \in 1..Len(its) |-> new(i)]
  BY <1>2 DEF Weighed
<1>4. \A i \in 1..Len(its) : new(i) \in Item
  BY <1>1 DEF Kin
<1> HIDE DEF new
<1>5. Weighed(its, S) \in Seq(Item) /\ Len(Weighed(its, S)) = Len(its)
  BY <1>2, <1>3, <1>4
<1> QED BY <1>1, <1>3, <1>5

---------------------------------------------------------------------------
(* What the steps that change one item do to it *)

\* Every item but the i-th stays.
ItemStep(i, new) ==
  /\ items' \in Seq(Item) /\ Len(items') = Len(items) /\ items'[i] = new
  /\ \A j \in 1..Len(items) : j # i => items'[j] = items[j]

\* Replacing an item of the sequence.
LEMMA ItemsSet ==
  ASSUME items \in Seq(Item), NEW i \in DOMAIN items, NEW new \in Item, items' = [items EXCEPT ![i] = new]
  PROVE  ItemStep(i, new)
BY DEF ItemStep

\* A stream connects or is lost.
LEMMA ToggleStep ==
  ASSUME items \in Seq(Item), NEW i \in DOMAIN items, Toggle(i)
  PROVE  \E new \in Item : /\ ItemStep(i, new) /\ new.node = items[i].node /\ new.state # "closed"
                           /\ new.last = items[i].last /\ new.doing = items[i].doing
<1> DEFINE s == IF items[i].state = "up" THEN "down" ELSE "up"
           new == [items[i] EXCEPT !.state = s]
<1>1. items' = [items EXCEPT ![i] = new]
  BY DEF Toggle
<1>2. s \in {"down", "up", "closed"} /\ s # "closed"
  OBVIOUS
<1>3. items[i] \in Item
  OBVIOUS
<1> HIDE DEF s
<1>4. new \in Item /\ new.node = items[i].node /\ new.state = s /\ new.last = items[i].last /\ new.doing = items[i].doing
  BY <1>2, <1>3, ItemSet
<1> HIDE DEF new
<1> QED BY <1>1, <1>2, <1>4, ItemsSet

\* A removed item is closed.
LEMMA CloseStep ==
  ASSUME items \in Seq(Item), NEW i \in DOMAIN items, CloseItem(i)
  PROVE  \E new \in Item : /\ ItemStep(i, new) /\ new.node = items[i].node /\ new.state = "closed"
                           /\ new.last = items[i].last /\ new.doing = items[i].doing
<1> DEFINE new == [items[i] EXCEPT !.state = "closed"]
<1>1. items' = [items EXCEPT ![i] = new]
  BY DEF CloseItem
<1>2. items[i] \in Item
  OBVIOUS
<1>3. new \in Item /\ new.node = items[i].node /\ new.state = "closed" /\ new.last = items[i].last /\ new.doing = items[i].doing
  BY <1>2, ItemSet
<1> HIDE DEF new
<1> QED BY <1>1, <1>3, ItemsSet

---------------------------------------------------------------------------
(* What the steps of a request do to it *)

\* The caller's own record changes, nobody else's.
Moves(c, h) ==
  /\ caller' \in [Callers -> CallerState] /\ h \in CallerState /\ caller'[c] = h
  /\ \A d \in Callers : d # c => caller'[d] = caller[d]

\* The request goes on with the item and the second it has.
Flight(c, p, q) ==
  \E h \in CallerState :
    /\ Moves(c, h) /\ caller[c].pc = p /\ h.pc = q
    /\ h.item = caller[c].item /\ h.ts = caller[c].ts /\ caller[c].ts \in Nat

\* Between requests.
LEMMA IdleCaller ==
  /\ Idle \in CallerState /\ Idle.pc = "idle"
  /\ \A h \in CallerState : h.pc = "idle" => h = Idle
BY DEF Idle, CallerState, InStats

\* The three kinds of record of a caller.
LEMMA CallerKinds ==
  ASSUME NEW h \in CallerState
  PROVE  /\ h.pc \in {"idle", "pick"} \cup Flying
         /\ h.pc = "pick" => h.lb \in Nat
         /\ h.pc \in Flying => h.item \in Nat /\ h.ts \in Nat
BY DEF Idle, CallerState, InStats, Flying

\* A request under way at another step of the same count.
LEMMA FlightSet ==
  ASSUME NEW h \in CallerState, h.pc \in Flying, NEW q \in Flying
  PROVE  LET g == [h EXCEPT !.pc = q]
         IN  g \in CallerState /\ g.pc = q /\ g.item = h.item /\ g.ts = h.ts
BY DEF Idle, CallerState, InStats, Flying

\* Replacing a record.
LEMMA CallerSet ==
  ASSUME caller \in [Callers -> CallerState], NEW c \in Callers, NEW h \in CallerState, Goes(c, h)
  PROVE  Moves(c, h)
BY DEF Goes, Moves

\* The same for a step of the count.
LEMMA FlightStep ==
  ASSUME caller \in [Callers -> CallerState], NEW c \in Callers, caller[c].pc \in Flying, NEW q \in Flying,
         Goes(c, [caller[c] EXCEPT !.pc = q])
  PROVE  Flight(c, caller[c].pc, q)
<1> DEFINE g == [caller[c] EXCEPT !.pc = q]
<1>1. caller[c] \in CallerState
  OBVIOUS
<1>2. g \in CallerState /\ g.pc = q /\ g.item = caller[c].item /\ g.ts = caller[c].ts /\ caller[c].ts \in Nat
  BY <1>1, FlightSet, CallerKinds
<1>3. Goes(c, g)
  OBVIOUS
<1> HIDE DEF g
<1> QED BY <1>2, <1>3, CallerSet DEF Flight

\* The slots are cleared of the seconds passed.
LEMMA ClearStep ==
  ASSUME Sorts, Pointers, NEW c \in Callers, ClearSlots(c)
  PROVE  /\ Flight(c, "clear", "stamp")
         /\ \E new \in Item : LET old == items[caller[c].item]
                              IN  /\ ItemStep(caller[c].item, new) /\ Kin(old, new) /\ new.last = old.last
                                  /\ Cleans(old.doing, new.doing, old.last, caller[c].ts)
<1> DEFINE i == caller[c].item
           old == items[i]
           new == Cleared(old, caller[c].ts)
<1>1. caller[c].pc = "clear" /\ Goes(c, [caller[c] EXCEPT !.pc = "stamp"]) /\ items' = [items EXCEPT ![i] = new]
  BY DEF ClearSlots
<1>2. i \in DOMAIN items /\ old \in Item /\ caller[c].ts \in Nat
  BY <1>1, CallerKinds DEF Pointers, Sorts, Flying, InStats
<1>3. Flight(c, "clear", "stamp")
  BY <1>1, FlightStep DEF Sorts, Flying, InStats
<1>4. new \in Item /\ Kin(old, new) /\ new.last = old.last /\ Cleans(old.doing, new.doing, old.last, caller[c].ts)
  <2> HIDE DEF old
  <2> QED BY <1>2, ClearedItem DEF Kin
<1>5. ItemStep(i, new)
  <2> HIDE DEF new
  <2> QED BY <1>1, <1>2, <1>4, ItemsSet DEF Sorts
<1> HIDE DEF new
<1> QED BY <1>3, <1>4, <1>5

\* The item is at the second of the request.
LEMMA StampStep ==
  ASSUME Sorts, Pointers, NEW c \in Callers, Stamp(c)
  PROVE  /\ Flight(c, "stamp", "count")
         /\ \E new \in Item : LET old == items[caller[c].item]
                              IN  /\ ItemStep(caller[c].item, new) /\ Kin(old, new) /\ new.last = caller[c].ts
                                  /\ new.doing = old.doing
<1> DEFINE i == caller[c].item
           old == items[i]
           new == [old EXCEPT !.last = caller[c].ts]
<1>1. caller[c].pc = "stamp" /\ Goes(c, [caller[c] EXCEPT !.pc = "count"]) /\ items' = [items EXCEPT ![i] = new]
  BY DEF Stamp
<1>2. i \in DOMAIN items /\ old \in Item /\ caller[c].ts \in Nat
  BY <1>1, CallerKinds DEF Pointers, Sorts, Flying, InStats
<1>3. Flight(c, "stamp", "count")
  BY <1>1, FlightStep DEF Sorts, Flying, InStats
<1>4. new \in Item /\ Kin(old, new) /\ new.last = caller[c].ts /\ new.doing = old.doing
  <2> HIDE DEF old
  <2>1. PICK z : z = [old EXCEPT !.last = caller[c].ts]
    OBVIOUS
  <2>2. z \in Item /\ z.node = old.node /\ z.state = old.state /\ z.last = caller[c].ts /\ z.doing = old.doing
    BY <1>2, <2>1, ItemLast
  <2> QED BY <2>1, <2>2 DEF Kin
<1>5. ItemStep(i, new)
  <2> HIDE DEF new
  <2> QED BY <1>1, <1>2, <1>4, ItemsSet DEF Sorts
<1> HIDE DEF new
<1> QED BY <1>3, <1>4, <1>5
\* One counter changes.
Counts(d, e, k, v) == e[k] = v /\ \A j \in Slots : j # k => e[j] = d[j]

\* Another value for one counter of an item.
LEMMA CounterSet ==
  ASSUME Sorts, NEW i \in DOMAIN items, NEW k \in Slots, NEW v \in Counter,
         items' = [items EXCEPT ![i].doing[k] = v]
  PROVE  \E new \in Item : /\ ItemStep(i, new) /\ Kin(items[i], new) /\ new.last = items[i].last
                           /\ Counts(items[i].doing, new.doing, k, v)
<1> DEFINE old == items[i]
           d == [old.doing EXCEPT ![k] = v]
           new == [old EXCEPT !.doing = d]
<1>1. old \in Item
  BY DEF Sorts
<1>2. d \in [Slots -> Counter] /\ Counts(old.doing, d, k, v)
  <2>1. old.doing \in [Slots -> Counter]
    <3> HIDE DEF old
    <3> QED BY <1>1, ItemFields
  <2> HIDE DEF old
  <2> QED BY <2>1 DEF Counts
<1>3. items' = [items EXCEPT ![i] = new]
  OBVIOUS
<1>4. new \in Item /\ Kin(old, new) /\ new.last = old.last /\ new.doing = d
  <2> HIDE DEF old, d
  <2>1. PICK z : z = [old EXCEPT !.doing = d]
    OBVIOUS
  <2>2. z \in Item /\ z.node = old.node /\ z.state = old.state /\ z.last = old.last /\ z.doing = d
    BY <1>1, <1>2, <2>1, ItemDoing
  <2> QED BY <2>1, <2>2 DEF Kin
<1>5. ItemStep(i, new)
  <2> HIDE DEF new
  <2> QED BY <1>3, <1>4, ItemsSet DEF Sorts
<1> HIDE DEF new, d
<1> QED BY <1>2, <1>4, <1>5

\* The request is counted.
LEMMA CountStep ==
  ASSUME Sorts, Pointers, NEW c \in Callers, Count(c)
  PROVE  /\ Flight(c, "count", "waiting")
         /\ \E new \in Item : LET old == items[caller[c].item]
                                  k   == SlotAt(caller[c].ts)
                              IN  /\ ItemStep(caller[c].item, new) /\ Kin(old, new) /\ new.last = old.last
                                  /\ Counts(old.doing, new.doing, k, Wrap(old.doing[k] + 1))
<1> DEFINE i == caller[c].item
           k == SlotAt(caller[c].ts)
           v == Wrap(items[i].doing[k] + 1)
<1>1. caller[c].pc = "count" /\ Goes(c, [caller[c] EXCEPT !.pc = "waiting"]) /\ items' = [items EXCEPT ![i].doing[k] = v]
  BY DEF Count, SlotAt
<1>2. i \in DOMAIN items /\ items[i] \in Item /\ caller[c].ts \in Nat
  BY <1>1, CallerKinds DEF Pointers, Sorts, Flying, InStats
<1>3. Flight(c, "count", "waiting")
  BY <1>1, FlightStep DEF Sorts, Flying, InStats
<1>4. k \in Slots
  BY <1>2, SlotOf
<1>5. v \in Counter
  <2>1. items[i].doing[k] \in Counter
    BY <1>2, <1>4, ItemFields
  <2>2. items[i].doing[k] + 1 \in Int
    BY <2>1, WidthAssumption DEF Counter
  <2> QED BY <2>2, Wraps
<1> HIDE DEF k, v
<1>6. \E new \in Item : /\ ItemStep(i, new) /\ Kin(items[i], new) /\ new.last = items[i].last
                        /\ Counts(items[i].doing, new.doing, k, v)
  BY <1>1, <1>2, <1>4, <1>5, CounterSet
<1> QED BY <1>3, <1>6 DEF k, v

\* The answer is counted.
LEMMA AnswerStep ==
  ASSUME Sorts, Pointers, NEW c \in Callers, Answer(c)
  PROVE  /\ caller[c].pc = "waiting" /\ Moves(c, Idle) /\ caller[c].ts \in Nat
         /\ \E new \in Item : LET old == items[caller[c].item]
                                  k   == SlotAt(caller[c].ts)
                              IN  /\ ItemStep(caller[c].item, new) /\ Kin(old, new) /\ new.last = old.last
                                  /\ Counts(old.doing, new.doing, k, Wrap(old.doing[k] - 1))
<1> DEFINE i == caller[c].item
           k == SlotAt(caller[c].ts)
           v == Wrap(items[i].doing[k] - 1)
<1>1. caller[c].pc = "waiting" /\ Goes(c, Idle) /\ items' = [items EXCEPT ![i].doing[k] = v]
  BY DEF Answer, SlotAt
<1>2. i \in DOMAIN items /\ items[i] \in Item /\ caller[c].ts \in Nat
  BY <1>1, CallerKinds DEF Pointers, Sorts, Flying, InStats
<1>3. Moves(c, Idle)
  BY <1>1, IdleCaller, CallerSet DEF Sorts
<1>4. k \in Slots
  BY <1>2, SlotOf
<1>5. v \in Counter
  <2>1. items[i].doing[k] \in Counter
    BY <1>2, <1>4, ItemFields
  <2>2. items[i].doing[k] - 1 \in Int
    BY <2>1, WidthAssumption DEF Counter
  <2> QED BY <2>2, Wraps
<1> HIDE DEF k, v
<1>6. \E new \in Item : /\ ItemStep(i, new) /\ Kin(items[i], new) /\ new.last = items[i].last
                        /\ Counts(items[i].doing, new.doing, k, v)
  BY <1>1, <1>2, <1>4, <1>5, CounterSet
<1> QED BY <1>1, <1>2, <1>3, <1>6 DEF k, v

\* The second of the item is compared.
LEMMA TestStep ==
  ASSUME Sorts, NEW c \in Callers, TestTime(c)
  PROVE  \/ Flight(c, "stats", "clear") /\ items[caller[c].item].last < caller[c].ts
         \/ Flight(c, "stats", "count") /\ ~ (items[caller[c].item].last < caller[c].ts)
<1>1. caller[c].pc = "stats"
  BY DEF TestTime
<1>2. CASE items[caller[c].item].last < caller[c].ts
  <2>1. Goes(c, [caller[c] EXCEPT !.pc = "clear"])
    BY <1>2 DEF TestTime
  <2> QED BY <1>1, <1>2, <2>1, FlightStep DEF Sorts, Flying, InStats
<1>3. CASE ~ (items[caller[c].item].last < caller[c].ts)
  <2>1. Goes(c, [caller[c] EXCEPT !.pc = "count"])
    BY <1>3 DEF TestTime
  <2> QED BY <1>1, <1>3, <2>1, FlightStep DEF Sorts, Flying, InStats
<1> QED BY <1>2, <1>3

\* A request begins, with the balancer of the moment.
LEMMA AskStep ==
  ASSUME Sorts, NEW c \in Callers, Ask(c)
  PROVE  /\ caller[c] = Idle
         /\ \/ UNCHANGED caller
            \/ current # 0 /\ \E h \in CallerState : Moves(c, h) /\ h.pc = "pick" /\ h.lb = current
<1>1. caller[c] = Idle /\ current \in Nat
  BY DEF Ask, Sorts
<1>2. CASE current = 0
  BY <1>1, <1>2 DEF Ask
<1>3. CASE current # 0
  <2> DEFINE h == [pc |-> "pick", lb |-> current]
  <2>1. Goes(c, h)
    BY <1>3 DEF Ask
  <2>2. h \in CallerState /\ h.pc = "pick" /\ h.lb = current
    BY <1>1 DEF CallerState
  <2> HIDE DEF h
  <2> QED BY <1>1, <1>3, <2>1, <2>2, CallerSet DEF Sorts
<1> QED BY <1>2, <1>3
---------------------------------------------------------------------------
(* What the steps of a callback do to it *)

\* The callback's own record changes, no other.
Turns(b, h) ==
  /\ callback' \in [Callbacks -> CallbackState] /\ h \in CallbackState /\ callback'[b] = h
  /\ \A a \in Callbacks : a # b => callback'[a] = callback[a]

\* Between callbacks, and in one.
LEMMA CallbackKinds ==
  /\ Idle \in CallbackState /\ Idle.pc = "idle"
  /\ \A h \in CallbackState : /\ h.pc = "idle" <=> h = Idle
                              /\ h.pc \in {"idle", "swap", "get", "insert", "update"}
                              /\ h # Idle => h.new \subseteq Nodes /\ h.old \subseteq Nodes /\ h.lb \in Nat
BY DEF Idle, CallbackState

\* A record after the swap.
LEMMA CallbackSwapped ==
  ASSUME NEW h \in CallbackState, h # Idle, NEW o \in SUBSET Nodes
  PROVE  LET g == [h EXCEPT !.pc = "get", !.old = o]
         IN  g \in CallbackState /\ g.pc = "get" /\ g.new = h.new /\ g.old = o
BY DEF Idle, CallbackState

\* A record further on.
LEMMA CallbackNext ==
  ASSUME NEW h \in CallbackState, h # Idle, NEW q, q \in {"insert", "update"}, NEW l \in Nat
  PROVE  LET g == [h EXCEPT !.pc = q, !.lb = l]
         IN  g \in CallbackState /\ g.pc = q /\ g.new = h.new /\ g.old = h.old /\ g.lb = l
BY DEF Idle, CallbackState

\* Replacing a record.
LEMMA CallbackSet ==
  ASSUME callback \in [Callbacks -> CallbackState], NEW b \in Callbacks, NEW h \in CallbackState,
         callback' = [callback EXCEPT ![b] = h]
  PROVE  Turns(b, h)
BY DEF Turns

\* The children are read.
LEMMA ReadStep ==
  ASSUME Sorts, NEW b \in Callbacks, ReadChildren(b)
  PROVE  callback[b] = Idle /\ \E h \in CallbackState : Turns(b, h) /\ h.pc = "swap" /\ h.new = children
<1> DEFINE h == [pc |-> "swap", new |-> children, old |-> {}, lb |-> 0]
<1>1. callback[b] = Idle /\ callback' = [callback EXCEPT ![b] = h]
  BY DEF ReadChildren
<1>2. h \in CallbackState /\ h.pc = "swap" /\ h.new = children
  BY DEF CallbackState, Sorts
<1> HIDE DEF h
<1> QED BY <1>1, <1>2, CallbackSet DEF Sorts

\* Discovery keeps the answer, the callback what there was before.
LEMMA SwapStep ==
  ASSUME Sorts, NEW b \in Callbacks, SwapDatas(b)
  PROVE  /\ callback[b].pc = "swap" /\ datas' = callback[b].new /\ callback[b].new \subseteq Nodes
         /\ \E h \in CallbackState : Turns(b, h) /\ h.pc = "get" /\ h.new = callback[b].new /\ h.old = datas
<1> DEFINE h == [callback[b] EXCEPT !.pc = "get", !.old = datas]
<1>1. callback[b].pc = "swap" /\ datas' = callback[b].new /\ callback' = [callback EXCEPT ![b] = h]
  BY DEF SwapDatas
<1>2. callback[b] \in CallbackState /\ callback[b] # Idle /\ datas \in SUBSET Nodes
  BY <1>1, CallbackKinds DEF Sorts
<1>3. h \in CallbackState /\ h.pc = "get" /\ h.new = callback[b].new /\ h.old = datas
  BY <1>2, CallbackSwapped
<1> HIDE DEF h
<1> QED BY <1>1, <1>2, <1>3, CallbackSet, CallbackKinds DEF Sorts

\* The balancer is looked up.
LEMMA GetStep ==
  ASSUME Sorts, NEW b \in Callbacks, GetBalancer(b)
  PROVE  /\ callback[b].pc = "get"
         /\ \E h \in CallbackState :
              /\ Turns(b, h) /\ h.pc = (IF current = 0 THEN "insert" ELSE "update")
              /\ h.new = callback[b].new /\ h.old = callback[b].old /\ h.lb = current
<1> DEFINE q == IF current = 0 THEN "insert" ELSE "update"
           h == [callback[b] EXCEPT !.pc = q, !.lb = current]
<1>1. callback[b].pc = "get" /\ callback' = [callback EXCEPT ![b] = h]
  BY DEF GetBalancer
<1>2. callback[b] \in CallbackState /\ callback[b] # Idle /\ current \in Nat /\ q \in {"insert", "update"}
  BY <1>1, CallbackKinds DEF Sorts
<1>3. h \in CallbackState /\ h.pc = q /\ h.new = callback[b].new /\ h.old = callback[b].old /\ h.lb = current
  <2>1. CASE q = "insert"
    <3>1. h = [callback[b] EXCEPT !.pc = "insert", !.lb = current]
      BY <2>1
    <3> HIDE DEF h, q
    <3> QED BY <1>2, <2>1, <3>1, CallbackNext
  <2>2. CASE q = "update"
    <3>1. h = [callback[b] EXCEPT !.pc = "update", !.lb = current]
      BY <2>2
    <3> HIDE DEF h, q
    <3> QED BY <1>2, <2>2, <3>1, CallbackNext
  <2> QED BY <1>2, <2>1, <2>2
<1>4. Turns(b, h)
  <2> HIDE DEF h
  <2> QED BY <1>1, <1>3, CallbackSet DEF Sorts
<1> HIDE DEF h
<1> QED BY <1>1, <1>3, <1>4

\* A new balancer is empty.
LEMMA InsertStep ==
  ASSUME Sorts, NEW b \in Callbacks, InsertBalancer(b)
  PROVE  /\ callback[b].pc = "insert" /\ current' = Len(balancers) + 1
         /\ \E h \in CallbackState :
              /\ Turns(b, h) /\ h.pc = "update"
              /\ h.new = callback[b].new /\ h.old = callback[b].old /\ h.lb = Len(balancers) + 1
         /\ \E l \in Balancer :
              /\ \A n \in Nodes : l.listed[n] = 0
              /\ l.ready = {}
              /\ balancers' \in Seq(Balancer) /\ Len(balancers') = Len(balancers) + 1
              /\ balancers'[Len(balancers) + 1] = l
              /\ \A k \in 1..Len(balancers) : balancers'[k] = balancers[k]
<1> DEFINE l == [listed |-> [n \in Nodes |-> 0], ready |-> {}]
           e == Len(balancers) + 1
           h == [callback[b] EXCEPT !.pc = "update", !.lb = e]
<1>1. /\ callback[b].pc = "insert" /\ current' = e /\ callback' = [callback EXCEPT ![b] = h]
      /\ balancers' = Append(balancers, l)
  BY DEF InsertBalancer
<1>2. callback[b] \in CallbackState /\ callback[b] # Idle /\ e \in Nat
  BY <1>1, CallbackKinds DEF Sorts
<1>3. h \in CallbackState /\ h.pc = "update" /\ h.new = callback[b].new /\ h.old = callback[b].old /\ h.lb = e
  <2> HIDE DEF e
  <2> QED BY <1>2, CallbackNext
<1>4. Turns(b, h)
  <2> HIDE DEF h
  <2> QED BY <1>1, <1>3, CallbackSet DEF Sorts
<1>5. l \in Balancer /\ (\A n \in Nodes : l.listed[n] = 0) /\ l.ready = {}
  BY DEF Balancer
<1>6. /\ balancers' \in Seq(Balancer) /\ Len(balancers') = Len(balancers) + 1
      /\ balancers'[Len(balancers) + 1] = l
      /\ \A k \in 1..Len(balancers) : balancers'[k] = balancers[k]
  <2> HIDE DEF l
  <2> QED BY <1>1, <1>5 DEF Sorts
<1> HIDE DEF l, h
<1> QED BY <1>1, <1>3, <1>4, <1>5, <1>6

---------------------------------------------------------------------------
(* Balancers *)

\* The fields of a balancer.
LEMMA BalancerFields ==
  ASSUME NEW l \in Balancer
  PROVE  l.listed \in [Nodes -> Nat] /\ l.ready \subseteq Nat /\ ListedBy(l) \subseteq Nat
BY DEF Balancer, ListedBy

\* Refreshing a balancer leaves its list alone.
LEMMA RefreshedList ==
  ASSUME NEW l \in Balancer, NEW its
  PROVE  /\ Refreshed(l, its) \in Balancer /\ Refreshed(l, its).listed = l.listed
         /\ Refreshed(l, its).ready \subseteq ListedBy(l)
<1>1. Up(its, ListedBy(l)) \subseteq ListedBy(l) /\ Up(its, ListedBy(l)) \subseteq Nat
  BY BalancerFields DEF Up
<1> QED BY <1>1 DEF Refreshed, Balancer

\* Balancers with the same list list the same items.
LEMMA SameList ==
  ASSUME NEW l, NEW m, l.listed = m.listed
  PROVE  ListedBy(l) = ListedBy(m)
BY DEF ListedBy

\* One balancer changes.
BalancerStep(k, new) ==
  /\ balancers' \in Seq(Balancer) /\ Len(balancers') = Len(balancers) /\ balancers'[k] = new
  /\ \A j \in 1..Len(balancers) : j # k => balancers'[j] = balancers[j]

\* Replacing a balancer.
LEMMA BalancerSet ==
  ASSUME balancers \in Seq(Balancer), NEW k \in DOMAIN balancers, NEW new \in Balancer,
         balancers' = [balancers EXCEPT ![k] = new]
  PROVE  BalancerStep(k, new)
BY DEF BalancerStep
\* A request takes an item, or gives up; the balancer it holds may be refreshed
\* and its items weighed.
LEMMA PickStep ==
  ASSUME Sorts, Pointers, NEW c \in Callers, Pick(c)
  PROVE  /\ caller[c].pc = "pick" /\ caller[c].lb \in DOMAIN balancers
         /\ \E S : items' = Weighed(items, S)
         /\ \E new \in Balancer :
              LET old == balancers[caller[c].lb]
              IN  /\ BalancerStep(caller[c].lb, new) /\ new.listed = old.listed
                  /\ new.ready \subseteq old.ready \cup ListedBy(old)
                  /\ \/ Moves(c, Idle)
                     \/ \E h \in CallerState : Moves(c, h) /\ h.pc = "stats" /\ h.item \in new.ready /\ h.ts = time
<1> DEFINE k == caller[c].lb
           old == balancers[k]
<1>1. caller[c].pc = "pick" /\ k \in DOMAIN balancers /\ old \in Balancer
  BY DEF Pick, Pointers, Sorts
<1>2. PICK due \in BOOLEAN :
        LET b == IF due THEN Refreshed(old, items) ELSE old
        IN  /\ balancers' = [balancers EXCEPT ![k] = b]
            /\ items' = Weighed(items, IF due THEN b.ready ELSE {})
            /\ IF Up(items, b.ready) = {} THEN Goes(c, Idle)
               ELSE \E i \in Up(items, b.ready) : Goes(c, [pc |-> "stats", item |-> i, ts |-> time])
  BY DEF Pick
<1>3. PICK new : new = IF due THEN Refreshed(old, items) ELSE old
  OBVIOUS
<1>4. new \in Balancer /\ new.listed = old.listed /\ new.ready \subseteq old.ready \cup ListedBy(old)
  <2> HIDE DEF old
  <2> QED BY <1>1, <1>3, RefreshedList
<1>5. balancers' = [balancers EXCEPT ![k] = new]
  BY <1>2, <1>3
<1>6. \E S : items' = Weighed(items, S)
  BY <1>2
<1>7. Goes(c, Idle) \/ \E i \in Up(items, new.ready) : Goes(c, [pc |-> "stats", item |-> i, ts |-> time])
  BY <1>2, <1>3
<1>8. BalancerStep(k, new)
  BY <1>1, <1>4, <1>5, BalancerSet DEF Sorts
<1>9. \/ Moves(c, Idle)
      \/ \E h \in CallerState : Moves(c, h) /\ h.pc = "stats" /\ h.item \in new.ready /\ h.ts = time
  <2>1. CASE Goes(c, Idle)
    BY <2>1, IdleCaller, CallerSet DEF Sorts
  <2>2. ASSUME NEW i \in Up(items, new.ready), Goes(c, [pc |-> "stats", item |-> i, ts |-> time])
        PROVE  \E h \in CallerState : Moves(c, h) /\ h.pc = "stats" /\ h.item \in new.ready /\ h.ts = time
    <3> DEFINE h == [pc |-> "stats", item |-> i, ts |-> time]
    <3>1. i \in new.ready /\ i \in Nat /\ time \in Nat
      BY <1>4, BalancerFields DEF Up, Sorts
    <3>2. h \in CallerState /\ h.pc = "stats" /\ h.item = i /\ h.ts = time
      BY <3>1 DEF CallerState, InStats
    <3>3. Goes(c, h)
      BY <2>2
    <3> HIDE DEF h
    <3>4. Moves(c, h)
      BY <3>2, <3>3, CallerSet DEF Sorts
    <3> QED BY <3>1, <3>2, <3>4
  <2> QED BY <1>7, <2>1, <2>2
<1> QED BY <1>1, <1>4, <1>6, <1>8, <1>9

\* A finite set in a sequence: all of it, each element once.
LEMMA Listing ==
  ASSUME NEW S, IsFiniteSet(S)
  PROVE  /\ SetToSeq(S) \in Seq(S)
         /\ \A x \in S : \E i \in 1..Len(SetToSeq(S)) : SetToSeq(S)[i] = x
         /\ \A i, j \in 1..Len(SetToSeq(S)) : SetToSeq(S)[i] = SetToSeq(S)[j] => i = j
<1> DEFINE n == Cardinality(S)
           q == SetToSeq(S)
<1>1. n \in Nat /\ ExistsBijection(1..n, S)
  BY FS_CardinalityType
<1>2. \E f \in [1..n -> S] : IsInjective(f)
  BY <1>1 DEF ExistsBijection, Bijection, Injection
<1>3. q \in [1..n -> S] /\ IsInjective(q)
  BY <1>2 DEF SetToSeq
<1>4. IsFiniteSet(1..n) /\ Cardinality(1..n) = n
  <2>1. n \in Int /\ 1 \in Int /\ (1 > n => n = 0) /\ n - 1 + 1 = n
    BY <1>1
  <2> HIDE DEF n
  <2> QED BY <2>1, FS_Interval
<1>5. q \in Injection(1..n, S)
  BY <1>3 DEF Injection
<1>6. q \in Surjection(1..n, S)
  <2> HIDE DEF q
  <2> QED BY <1>4, <1>5, FS_Injection
<1>7. \A x \in S : \E i \in 1..n : q[i] = x
  BY <1>6 DEF Surjection
<1>8. \A i, j \in 1..n : q[i] = q[j] => i = j
  <2> HIDE DEF q
  <2> QED BY <1>3 DEF IsInjective
<1>9. q \in Seq(S) /\ Len(q) = n
  <2> HIDE DEF n, q
  <2> QED BY <1>1, <1>3
<1> HIDE DEF n, q
<1>10. /\ q \in Seq(S)
       /\ \A x \in S : \E i \in 1..Len(q) : q[i] = x
       /\ \A i, j \in 1..Len(q) : q[i] = q[j] => i = j
  BY <1>7, <1>8, <1>9
<1> QED BY <1>10 DEF q

\* An item that has been made from nothing.
Fresh(it, made) ==
  it \in Item /\ it.node \in made /\ it.state # "closed" /\ it.last = 0 /\ \A k \in Slots : it.doing[k] = 0

\* The items with those of the added nodes behind them.
Extends(all, made) ==
  /\ all \in Seq(Item) /\ Len(all) >= Len(items)
  /\ \A i \in 1..Len(items) : all[i] = items[i]
  /\ \A i \in (Len(items) + 1)..Len(all) : Fresh(all[i], made)
  /\ \A i, j \in (Len(items) + 1)..Len(all) : all[i].node = all[j].node => i = j
  /\ \A n \in made : \E i \in (Len(items) + 1)..Len(all) : all[i].node = n

\* One new item for every added node.
LEMMA NewItems ==
  ASSUME items \in Seq(Item), NEW made \in SUBSET Nodes, NEW on
  PROVE  LET nodes == SetToSeq(made)
         IN  Extends(items \o [k \in DOMAIN nodes |-> NewItem(nodes[k], nodes[k] \in on)], made)
<1> DEFINE nodes == SetToSeq(made)
           tail == [k \in DOMAIN nodes |-> NewItem(nodes[k], nodes[k] \in on)]
<1>1. IsFiniteSet(made)
  BY FiniteAssumption, FS_Subset
<1>2. /\ nodes \in Seq(made)
      /\ \A x \in made : \E i \in 1..Len(nodes) : nodes[i] = x
      /\ \A i, j \in 1..Len(nodes) : nodes[i] = nodes[j] => i = j
  BY <1>1, Listing
<1>3. \A n \in made, up \in BOOLEAN : Fresh(NewItem(n, up), made) /\ NewItem(n, up).node = n
  <2> TAKE n \in made, up \in BOOLEAN
  <2> DEFINE s == IF up THEN "up" ELSE "down"
             d == [k \in Slots |-> 0]
  <2>1. n \in Nodes /\ s \in {"down", "up", "closed"} /\ s # "closed" /\ 0 \in Nat /\ d \in [Slots -> Counter]
    BY Wraps
  <2>2. NewItem(n, up) = [node |-> n, state |-> s, last |-> 0, doing |-> d] /\ \A k \in Slots : d[k] = 0
    BY DEF NewItem
  <2> HIDE DEF s, d
  <2>3. NewItem(n, up) \in Item
    BY <2>1, <2>2, ItemMade
  <2> QED BY <2>1, <2>2, <2>3 DEF Fresh
<1> HIDE DEF nodes
<1>4. \A k \in 1..Len(nodes) : nodes[k] \in made /\ (nodes[k] \in on) \in BOOLEAN
  BY <1>2
<1>5. DOMAIN nodes = 1..Len(nodes) /\ Len(nodes) \in Nat
  BY <1>2
<1>6. \A k \in 1..Len(nodes) : Fresh(tail[k], made) /\ tail[k].node = nodes[k]
  BY <1>3, <1>4, <1>5
<1>7. tail \in Seq(Item) /\ Len(tail) = Len(nodes)
  BY <1>5, <1>6 DEF Fresh
<1> HIDE DEF tail
<1> DEFINE all == items \o tail
<1>8. /\ all \in Seq(Item) /\ Len(all) = Len(items) + Len(nodes)
      /\ \A i \in 1..Len(items) : all[i] = items[i]
      /\ \A i \in (Len(items) + 1)..Len(all) : all[i] = tail[i - Len(items)] /\ i - Len(items) \in 1..Len(nodes)
      /\ \A k \in 1..Len(nodes) : all[k + Len(items)] = tail[k] /\ k + Len(items) \in (Len(items) + 1)..Len(all)
  BY <1>5, <1>7
<1>9. Len(items) \in Nat
  OBVIOUS
<1> HIDE DEF all
<1>10. \A i, j \in (Len(items) + 1)..Len(all) : all[i].node = all[j].node => i = j
  <2> TAKE i, j \in (Len(items) + 1)..Len(all)
  <2> HAVE all[i].node = all[j].node
  <2>1. nodes[i - Len(items)] = nodes[j - Len(items)]
    BY <1>6, <1>8
  <2>2. i - Len(items) = j - Len(items)
    BY <1>2, <1>8, <2>1
  <2> QED BY <1>9, <2>2
<1>11. \A n \in made : \E i \in (Len(items) + 1)..Len(all) : all[i].node = n
  <2> TAKE n \in made
  <2>1. PICK k \in 1..Len(nodes) : nodes[k] = n
    BY <1>2
  <2>2. k + Len(items) \in (Len(items) + 1)..Len(all) /\ all[k + Len(items)] = tail[k]
    BY <1>8
  <2>3. all[k + Len(items)].node = n
    BY <1>6, <2>1, <2>2
  <2> QED BY <2>2, <2>3
<1>12. \A i \in (Len(items) + 1)..Len(all) : Fresh(all[i], made)
  BY <1>6, <1>8
<1>13. Extends(all, made)
  BY <1>5, <1>8, <1>9, <1>10, <1>11, <1>12 DEF Extends
<1> QED BY <1>13 DEF all, tail, nodes

\* The balancer has an item for every node made, none for the others removed,
\* and for the rest what it had.
Relists(old, new, h, all, made) ==
  \A n \in Nodes :
    /\ n \in made => new.listed[n] \in (Len(items) + 1)..Len(all) /\ all[new.listed[n]].node = n
    /\ n \notin made /\ n \in Removed(h) => new.listed[n] = 0
    /\ n \notin made /\ n \notin Removed(h) => new.listed[n] = old.listed[n]

\* The balancer is updated for what the callback has added and removed.
LEMMA UpdateStep ==
  ASSUME Sorts, Pointers, NEW b \in Callbacks, Update(b)
  PROVE  LET h   == callback[b]
             old == balancers[h.lb]
         IN  /\ h.pc = "update" /\ h.lb \in DOMAIN balancers /\ Turns(b, Idle)
             /\ \E made \in SUBSET Added(h), new \in Balancer : \E all, S :
                  /\ Extends(all, made) /\ items' = Weighed(all, S)
                  /\ BalancerStep(h.lb, new) /\ new.ready \subseteq ListedBy(new) /\ Relists(old, new, h, all, made)
                  /\ closing' = closing \cup Erased(old, h)
                  /\ failed' = (failed \ Removed(h)) \cup (Added(h) \ made)
<1> DEFINE h == callback[b]
           old == balancers[h.lb]
<1>1. /\ h.pc = "update" /\ callback' = [callback EXCEPT ![b] = Idle]
      /\ \E bad \in SUBSET Added(h) : \E on \in SUBSET (Added(h) \ bad) :
           LET nodes  == SetToSeq(Added(h) \ bad)
               all    == items \o [k \in DOMAIN nodes |-> NewItem(nodes[k], nodes[k] \in on)]
               listed == [n \in Nodes |-> IF n \in Added(h) \ bad
                                          THEN CHOOSE i \in (Len(items) + 1)..Len(all) : all[i].node = n
                                          ELSE IF n \in Removed(h) THEN 0 ELSE old.listed[n]]
               next   == Refreshed([old EXCEPT !.listed = listed], all)
           IN  /\ balancers' = [balancers EXCEPT ![h.lb] = next]
               /\ items' = Weighed(all, next.ready)
               /\ closing' = closing \cup Erased(old, h)
               /\ failed' = (failed \ Removed(h)) \cup bad
  BY DEF Update
<1>2. h.lb \in DOMAIN balancers /\ old \in Balancer /\ h \in CallbackState /\ h # Idle
  <2>1. h.lb \in DOMAIN balancers
    BY <1>1 DEF Pointers
  <2>2. old \in Balancer
    BY <2>1 DEF Sorts
  <2>3. h \in CallbackState
    BY DEF Sorts
  <2> HIDE DEF h, old
  <2>4. h.pc = "update"
    BY <1>1
  <2> QED BY <2>1, <2>2, <2>3, <2>4, CallbackKinds
<1>3. Turns(b, Idle)
  BY <1>1, CallbackKinds, CallbackSet DEF Sorts
<1>4. Added(h) \subseteq Nodes
  <2> HIDE DEF h
  <2> QED BY <1>2, CallbackKinds DEF Added
<1> HIDE DEF h, old
<1>5. PICK bad \in SUBSET Added(h), on \in SUBSET Added(h) :
           LET nodes  == SetToSeq(Added(h) \ bad)
               all    == items \o [k \in DOMAIN nodes |-> NewItem(nodes[k], nodes[k] \in on)]
               listed == [n \in Nodes |-> IF n \in Added(h) \ bad
                                          THEN CHOOSE i \in (Len(items) + 1)..Len(all) : all[i].node = n
                                          ELSE IF n \in Removed(h) THEN 0 ELSE old.listed[n]]
               next   == Refreshed([old EXCEPT !.listed = listed], all)
           IN  /\ balancers' = [balancers EXCEPT ![h.lb] = next]
               /\ items' = Weighed(all, next.ready)
               /\ closing' = closing \cup Erased(old, h)
               /\ failed' = (failed \ Removed(h)) \cup bad
  BY <1>1
<1> DEFINE made == Added(h) \ bad
           nodes == SetToSeq(made)
           all == items \o [k \in DOMAIN nodes |-> NewItem(nodes[k], nodes[k] \in on)]
           Of(n) == CHOOSE i \in (Len(items) + 1)..Len(all) : all[i].node = n
           listed == [n \in Nodes |-> IF n \in made THEN Of(n) ELSE IF n \in Removed(h) THEN 0 ELSE old.listed[n]]
           base == [old EXCEPT !.listed = listed]
           new == Refreshed(base, all)
<1>6. /\ balancers' = [balancers EXCEPT ![h.lb] = new] /\ items' = Weighed(all, new.ready)
      /\ closing' = closing \cup Erased(old, h) /\ failed' = (failed \ Removed(h)) \cup bad
  BY <1>5
<1>7. made \in SUBSET Added(h) /\ made \subseteq Nodes /\ bad = Added(h) \ made
  BY <1>4
<1> HIDE DEF made
<1>8. Extends(all, made)
  BY <1>7, NewItems DEF Sorts
<1> HIDE DEF nodes, all
<1>9. \A n \in made : Of(n) \in (Len(items) + 1)..Len(all) /\ all[Of(n)].node = n
  BY <1>8 DEF Extends
<1> HIDE DEF Of
<1>10. \A n \in made : Of(n) \in Nat
  <2>1. Len(items) \in Nat
    BY DEF Sorts
  <2> QED BY <1>9, <2>1
<1>11. \A n \in Nodes : old.listed[n] \in Nat
  BY <1>2, BalancerFields
<1>12. listed \in [Nodes -> Nat]
  BY <1>10, <1>11
<1>13. \A n \in Nodes : listed[n] = IF n \in made THEN Of(n) ELSE IF n \in Removed(h) THEN 0 ELSE old.listed[n]
  OBVIOUS
<1> HIDE DEF listed
<1>14. base \in Balancer /\ base.listed = listed
  BY <1>2, <1>12 DEF Balancer
<1> HIDE DEF base
<1>15. new \in Balancer /\ new.listed = listed /\ new.ready \subseteq ListedBy(new)
  <2>1. new \in Balancer /\ new.listed = base.listed /\ new.ready \subseteq ListedBy(base)
    BY <1>14, RefreshedList
  <2> HIDE DEF new
  <2> QED BY <1>14, <2>1, SameList
<1> HIDE DEF new
<1>16. Relists(old, new, h, all, made)
  BY <1>9, <1>13, <1>15 DEF Relists
<1>17. BalancerStep(h.lb, new)
  BY <1>2, <1>6, <1>15, BalancerSet DEF Sorts
<1>18. failed' = (failed \ Removed(h)) \cup (Added(h) \ made)
  BY <1>6, <1>7
<1>19. \E m \in SUBSET Added(h), x \in Balancer : \E a, S :
         /\ Extends(a, m) /\ items' = Weighed(a, S)
         /\ BalancerStep(h.lb, x) /\ x.ready \subseteq ListedBy(x) /\ Relists(old, x, h, a, m)
         /\ closing' = closing \cup Erased(old, h)
         /\ failed' = (failed \ Removed(h)) \cup (Added(h) \ m)
  BY <1>6, <1>7, <1>8, <1>15, <1>16, <1>17, <1>18
<1> QED BY <1>1, <1>2, <1>3, <1>19 DEF h, old
---------------------------------------------------------------------------
(* Types and lists: every step *)

\* Lists stay right while items keep their nodes and none is closed but those
\* about to be.
LEMMA ListsItems ==
  ASSUME NEW bs, NEW its, NEW cl, Lists(bs, its, cl), NEW its2, NEW cl2, cl2 \subseteq cl, DOMAIN its2 = DOMAIN its,
         \A i \in DOMAIN its : /\ its2[i].node = its[i].node
                               /\ its2[i].state = "closed" => its[i].state = "closed" \/ i \in cl
  PROVE  Lists(bs, its2, cl2)
BY DEF Lists

\* They stay right when what a balancer chooses among changes within its list.
LEMMA ListsChoice ==
  ASSUME NEW bs, NEW its, NEW cl, Lists(bs, its, cl), NEW bs2, DOMAIN bs2 = DOMAIN bs,
         \A k \in DOMAIN bs : bs2[k].listed = bs[k].listed /\ bs2[k].ready \subseteq bs[k].ready \cup ListedBy(bs[k])
  PROVE  Lists(bs2, its, cl)
<1>1. \A k \in DOMAIN bs : ListedBy(bs2[k]) = ListedBy(bs[k])
  BY SameList
<1>2. \A k \in DOMAIN bs : bs[k].ready \subseteq ListedBy(bs[k])
  BY DEF Lists
<1>3. \A k \in DOMAIN bs : bs2[k].ready \subseteq ListedBy(bs2[k])
  BY <1>1, <1>2
<1> QED BY <1>3 DEF Lists

\* They stay right with one more balancer that has no item.
LEMMA ListsInsert ==
  ASSUME NEW bs, NEW its, NEW cl, Lists(bs, its, cl), NEW bs2, NEW e, DOMAIN bs2 = DOMAIN bs \cup {e},
         \A k \in DOMAIN bs : bs2[k] = bs[k], e \notin DOMAIN bs,
         \A n \in Nodes : bs2[e].listed[n] = 0, bs2[e].ready = {}
  PROVE  Lists(bs2, its, cl)
<1> SUFFICES ASSUME NEW k \in DOMAIN bs2
             PROVE  /\ bs2[k].ready \subseteq ListedBy(bs2[k])
                    /\ \A n \in Nodes : bs2[k].listed[n] # 0 =>
                         /\ bs2[k].listed[n] \in DOMAIN its \ cl
                         /\ its[bs2[k].listed[n]].node = n /\ its[bs2[k].listed[n]].state # "closed"
                         /\ \A j \in DOMAIN bs2 : j # k => bs2[j].listed[n] # bs2[k].listed[n]
  BY DEF Lists
<1>1. CASE k = e
  BY <1>1
<1>2. CASE k # e
  <2>1. k \in DOMAIN bs /\ bs2[k] = bs[k]
    BY <1>2
  <2>2. \A j \in DOMAIN bs2 : j # e => j \in DOMAIN bs /\ bs2[j] = bs[j]
    OBVIOUS
  <2> QED BY <2>1, <2>2 DEF Lists
<1> QED BY <1>1, <1>2

\* They stay right when a balancer is updated: what it loses no balancer has.
LEMMA ListsUpdate ==
  ASSUME Sorts, Lists(balancers, items, closing), NEW k \in DOMAIN balancers, NEW h, NEW made \in SUBSET Nodes,
         Removed(h) \subseteq Nodes, NEW all, NEW new \in Balancer, Extends(all, made), BalancerStep(k, new),
         new.ready \subseteq ListedBy(new), Relists(balancers[k], new, h, all, made)
  PROVE  Lists(balancers', all, closing \cup Erased(balancers[k], h))
<1> DEFINE old == balancers[k]
           D == 1..Len(items)
           E == (Len(items) + 1)..Len(all)
           cl == closing \cup Erased(old, h)
<1>1. DOMAIN balancers = 1..Len(balancers) /\ DOMAIN balancers' = DOMAIN balancers /\ DOMAIN items = D
  BY DEF Sorts, BalancerStep
<1>2. DOMAIN all = D \cup E /\ D \cap E = {} /\ 0 \notin E /\ closing \subseteq D
  <2>1. Len(items) \in Nat /\ Len(all) \in Nat /\ Len(all) >= Len(items) /\ DOMAIN all = 1..Len(all)
    BY DEF Sorts, Extends
  <2>2. closing \subseteq D
    BY <1>1 DEF Sorts
  <2> QED BY <2>1, <2>2
<1>3. balancers'[k] = new /\ \A j \in DOMAIN balancers : j # k => balancers'[j] = balancers[j]
  BY <1>1 DEF BalancerStep
<1>4. \A j \in DOMAIN balancers : \A n \in Nodes : balancers[j].listed[n] # 0 =>
        /\ balancers[j].listed[n] \in D \ closing
        /\ items[balancers[j].listed[n]].node = n /\ items[balancers[j].listed[n]].state # "closed"
        /\ \A l \in DOMAIN balancers : l # j => balancers[l].listed[n] # balancers[j].listed[n]
  BY <1>1 DEF Lists
<1>5. \A i \in D : all[i] = items[i]
  BY DEF Extends
<1>6. \A i \in E : all[i].node \in made /\ all[i].state # "closed"
  BY DEF Extends, Fresh
<1>7. \A i \in Erased(old, h) : \E n \in Removed(h) : n \in Nodes /\ i = old.listed[n] /\ i # 0
  BY DEF Erased
<1>8. Erased(old, h) \subseteq D
  BY <1>4, <1>7
<1>9. \A n \in Nodes :
        /\ n \in made => new.listed[n] \in E /\ all[new.listed[n]].node = n
        /\ n \notin made /\ n \in Removed(h) => new.listed[n] = 0
        /\ n \notin made /\ n \notin Removed(h) => new.listed[n] = old.listed[n]
  BY DEF Relists
<1> HIDE DEF D, E
<1>10. ASSUME NEW n \in Nodes, new.listed[n] # 0
       PROVE  /\ new.listed[n] \in DOMAIN all \ cl
              /\ all[new.listed[n]].node = n /\ all[new.listed[n]].state # "closed"
              /\ \A j \in DOMAIN balancers : j # k => balancers[j].listed[n] # new.listed[n]
  <2>1. CASE n \in made
    <3>1. new.listed[n] \in E /\ all[new.listed[n]].node = n
      BY <1>9, <2>1
    <3>2. new.listed[n] \notin cl
      BY <3>1, <1>2, <1>8
    <3>3. \A j \in DOMAIN balancers : balancers[j].listed[n] # new.listed[n]
      BY <3>1, <1>2, <1>4
    <3> QED BY <1>2, <1>6, <3>1, <3>2, <3>3
  <2>2. CASE n \notin made
    <3>1. new.listed[n] = old.listed[n] /\ n \notin Removed(h)
      BY <1>9, <1>10, <2>2
    <3>2. /\ old.listed[n] \in D \ closing
          /\ items[old.listed[n]].node = n /\ items[old.listed[n]].state # "closed"
          /\ \A l \in DOMAIN balancers : l # k => balancers[l].listed[n] # old.listed[n]
      BY <1>4, <1>10, <3>1
    <3>3. old.listed[n] \notin Erased(old, h)
      <4>1. SUFFICES ASSUME old.listed[n] \in Erased(old, h) PROVE FALSE
        OBVIOUS
      <4>2. PICK m \in Removed(h) : m \in Nodes /\ old.listed[n] = old.listed[m] /\ old.listed[n] # 0
        BY <1>7, <4>1
      <4>3. items[old.listed[m]].node = m
        BY <1>4, <4>2
      <4> QED BY <3>1, <3>2, <4>2, <4>3
    <3> HIDE DEF old
    <3> QED BY <1>2, <1>5, <3>1, <3>2, <3>3
  <2> QED BY <2>1, <2>2
<1>11. ASSUME NEW j \in DOMAIN balancers, j # k, NEW n \in Nodes, balancers[j].listed[n] # 0
       PROVE  /\ balancers[j].listed[n] \in DOMAIN all \ cl
              /\ all[balancers[j].listed[n]].node = n /\ all[balancers[j].listed[n]].state # "closed"
              /\ \A l \in DOMAIN balancers : l # j /\ l # k => balancers[l].listed[n] # balancers[j].listed[n]
              /\ new.listed[n] # balancers[j].listed[n]
  <2> DEFINE i == balancers[j].listed[n]
  <2>1. /\ i \in D \ closing /\ items[i].node = n /\ items[i].state # "closed"
        /\ \A l \in DOMAIN balancers : l # j => balancers[l].listed[n] # i
    BY <1>4, <1>11
  <2>2. i \notin Erased(old, h)
    <3>1. SUFFICES ASSUME i \in Erased(old, h) PROVE FALSE
      OBVIOUS
    <3>2. PICK m \in Removed(h) : m \in Nodes /\ i = old.listed[m] /\ i # 0
      BY <1>7, <3>1
    <3>3. items[i].node = m
      BY <1>4, <3>2
    <3>4. m = n /\ old.listed[n] = i
      BY <2>1, <3>2, <3>3
    <3> QED BY <1>11, <2>1, <3>4
  <2>3. new.listed[n] # i
    <3>1. CASE new.listed[n] = 0
      BY <3>1, <1>11
    <3>2. CASE new.listed[n] # 0
      BY <3>2, <1>10, <1>11
    <3> QED BY <3>1, <3>2
  <2> QED BY <1>2, <1>5, <2>1, <2>2, <2>3
<1>12. \A j \in DOMAIN balancers : balancers[j].ready \subseteq ListedBy(balancers[j])
  BY DEF Lists
<1> SUFFICES ASSUME NEW j \in DOMAIN balancers
             PROVE  /\ balancers'[j].ready \subseteq ListedBy(balancers'[j])
                    /\ \A n \in Nodes : balancers'[j].listed[n] # 0 =>
                         /\ balancers'[j].listed[n] \in DOMAIN all \ cl
                         /\ all[balancers'[j].listed[n]].node = n /\ all[balancers'[j].listed[n]].state # "closed"
                         /\ \A l \in DOMAIN balancers : l # j => balancers'[l].listed[n] # balancers'[j].listed[n]
  BY <1>1 DEF Lists
<1>13. CASE j = k
  <2>1. balancers'[j] = new /\ \A l \in DOMAIN balancers : l # j => balancers'[l] = balancers[l]
    BY <1>3, <1>13
  <2> QED BY <1>10, <1>13, <2>1
<1>14. CASE j # k
  <2>1. balancers'[j] = balancers[j]
    BY <1>3, <1>14
  <2>2. \A l \in DOMAIN balancers : balancers'[l] = IF l = k THEN new ELSE balancers[l]
    BY <1>3
  <2> QED BY <1>11, <1>12, <1>14, <2>1, <2>2
<1> QED BY <1>13, <1>14
\* An instance has numbers.
LEMMA Bounded ==
  ASSUME Sorts
  PROVE  bound.workers \in Nat \ {0} /\ bound.changes \in Nat /\ bound.requests \in Nat
BY BoundAssumption DEF Sorts

\* Pointers stay good while nothing is taken away and the new ones are good.
LEMMA PointersKept ==
  ASSUME Pointers, DOMAIN balancers \subseteq DOMAIN balancers', DOMAIN items \subseteq DOMAIN items',
         \A b \in Callbacks : \/ callback'[b] = callback[b]
                              \/ callback'[b].pc = "update" => callback'[b].lb \in DOMAIN balancers',
         \A c \in Callers : \/ caller'[c] = caller[c]
                            \/ /\ caller'[c].pc = "pick" => caller'[c].lb \in DOMAIN balancers'
                               /\ caller'[c].pc \in Flying => caller'[c].item \in DOMAIN items'
  PROVE  Pointers'
BY DEF Pointers, Flying

\* The environment touches no list.
LEMMA ProvideBase ==
  ASSUME Sorts, ListInv, NEW n \in Nodes, Provide(n)
  PROVE  Sorts' /\ ListInv'
<1>1. Sorts'
  BY Bounded DEF Sorts, Provide, balancing, clock
<1>2. ListInv'
  BY DEF ListInv, Pointers, Provide, balancing
<1> QED BY <1>1, <1>2

\* Nor does the clock.
LEMMA TickBase ==
  ASSUME Sorts, ListInv, Tick
  PROVE  Sorts' /\ ListInv'
<1>1. time' \in 1..MaxTime /\ late' \in BOOLEAN
  <2>1. time' \in 1..MaxTime
    BY SizeAssumption DEF Sorts, Tick
  <2>2. late' \in BOOLEAN
    BY DEF Sorts, Tick
  <2> QED BY <2>1, <2>2
<1>2. Sorts'
  BY <1>1 DEF Sorts, Tick, balancing, discovery
<1>3. ListInv'
  BY DEF ListInv, Pointers, Tick, balancing
<1> QED BY <1>2, <1>3

\* When one item changes and keeps its node, lists and pointers stay right.
LEMMA ItemBase ==
  ASSUME Sorts, ListInv, NEW i \in DOMAIN items, NEW new \in Item, ItemStep(i, new), new.node = items[i].node,
         new.state = "closed" => items[i].state = "closed" \/ i \in closing,
         closing' \subseteq closing, UNCHANGED <<balancers, callback>>,
         \A c \in Callers : \/ caller'[c] = caller[c]
                            \/ caller'[c].pc # "pick" /\ (caller'[c].pc \in Flying => caller'[c].item \in DOMAIN items)
  PROVE  items' \in Seq(Item) /\ closing' \subseteq DOMAIN items' /\ ListInv'
<1>1. items' \in Seq(Item) /\ DOMAIN items' = DOMAIN items /\ items'[i] = new
      /\ \A j \in DOMAIN items : j # i => items'[j] = items[j]
  BY DEF ItemStep, Sorts
<1>2. \A j \in DOMAIN items : /\ items'[j].node = items[j].node
                              /\ items'[j].state = "closed" => items[j].state = "closed" \/ j \in closing
  BY <1>1
<1>3. Lists(balancers, items', closing')
  BY <1>1, <1>2, ListsItems DEF ListInv
<1>4. Pointers'
  BY <1>1, PointersKept DEF ListInv
<1>5. ListInv'
  BY <1>3, <1>4 DEF ListInv
<1> QED BY <1>1, <1>5 DEF Sorts

\* A stream that connects or is lost.
LEMMA ToggleBase ==
  ASSUME Sorts, ListInv, NEW i \in DOMAIN items, Toggle(i)
  PROVE  Sorts' /\ ListInv'
<1>1. PICK new \in Item : ItemStep(i, new) /\ new.node = items[i].node /\ new.state # "closed"
  BY ToggleStep DEF Sorts
<1>2. UNCHANGED <<bound, children, datas, changes, current, balancers, closing, failed, callback, caller, time, late, requests>>
  BY DEF Toggle, discovery, balancing, clock
<1>3. items' \in Seq(Item) /\ closing' \subseteq DOMAIN items' /\ ListInv'
  BY <1>1, <1>2, ItemBase
<1>4. Sorts'
  BY <1>2, <1>3 DEF Sorts
<1> QED BY <1>3, <1>4

\* An item that is closed was about to be.
LEMMA CloseBase ==
  ASSUME Sorts, ListInv, NEW i \in DOMAIN items, CloseItem(i)
  PROVE  Sorts' /\ ListInv'
<1>1. PICK new \in Item : ItemStep(i, new) /\ new.node = items[i].node /\ new.state = "closed"
  BY CloseStep DEF Sorts
<1>2. /\ UNCHANGED <<bound, children, datas, changes, current, balancers, failed, callback, caller, time, late, requests>>
      /\ i \in closing /\ closing' \subseteq closing
  BY DEF CloseItem, discovery, clock
<1>3. items' \in Seq(Item) /\ closing' \subseteq DOMAIN items' /\ ListInv'
  BY <1>1, <1>2, ItemBase
<1>4. Sorts'
  BY <1>2, <1>3 DEF Sorts
<1> QED BY <1>3, <1>4

\* A request that counts changes its item and itself.
LEMMA CountingBase ==
  ASSUME Sorts, ListInv, NEW c \in Callers, ClearSlots(c) \/ Stamp(c) \/ Count(c) \/ Answer(c)
  PROVE  Sorts' /\ ListInv'
<1> DEFINE i == caller[c].item
<1>1. i \in DOMAIN items /\ items[i] \in Item
  <2>1. caller[c].pc \in Flying
    BY DEF ClearSlots, Stamp, Count, Answer, Flying, InStats
  <2> QED BY <2>1 DEF ListInv, Pointers, Sorts, Flying
<1>2. /\ UNCHANGED <<bound, children, datas, changes, current, balancers, closing, failed, callback, time, late, requests>>
  BY DEF ClearSlots, Stamp, Count, Answer, Requests, discovery, clock
<1>3. /\ \E new \in Item : ItemStep(i, new) /\ Kin(items[i], new)
      /\ \E h \in CallerState : Moves(c, h) /\ h.pc # "pick" /\ (h.pc \in Flying => h.item = i)
  <2>1. CASE ClearSlots(c)
    BY <2>1, ClearStep DEF ListInv, Flight
  <2>2. CASE Stamp(c)
    BY <2>2, StampStep DEF ListInv, Flight
  <2>3. CASE Count(c)
    BY <2>3, CountStep DEF ListInv, Flight
  <2>4. CASE Answer(c)
    <3>1. Moves(c, Idle) /\ \E new \in Item : ItemStep(i, new) /\ Kin(items[i], new)
      BY <2>4, AnswerStep DEF ListInv
    <3> QED BY <3>1, IdleCaller DEF Flying, InStats
  <2> QED BY <2>1, <2>2, <2>3, <2>4
<1>4. PICK new \in Item : ItemStep(i, new) /\ Kin(items[i], new)
  BY <1>3
<1>5. \A d \in Callers : \/ caller'[d] = caller[d]
                         \/ caller'[d].pc # "pick" /\ (caller'[d].pc \in Flying => caller'[d].item \in DOMAIN items)
  BY <1>1, <1>3 DEF Moves
<1>6. new.node = items[i].node /\ (new.state = "closed" => items[i].state = "closed")
  BY <1>4 DEF Kin
<1> HIDE DEF i
<1>7. items' \in Seq(Item) /\ closing' \subseteq DOMAIN items' /\ ListInv'
  BY <1>1, <1>2, <1>4, <1>5, <1>6, ItemBase
<1>8. caller' \in [Callers -> CallerState]
  BY <1>3 DEF Moves
<1>9. Sorts'
  BY <1>2, <1>7, <1>8 DEF Sorts
<1> QED BY <1>7, <1>9
\* A request that compares the second changes itself only.
LEMMA TestBase ==
  ASSUME Sorts, ListInv, NEW c \in Callers, TestTime(c)
  PROVE  Sorts' /\ ListInv'
<1>1. UNCHANGED <<bound, children, datas, changes, current, balancers, closing, failed, callback, time, late, requests, items>>
  BY DEF TestTime, Requests, discovery, clock
<1>2. PICK h \in CallerState : Moves(c, h) /\ h.pc \in Flying /\ h.item = caller[c].item /\ caller[c].pc = "stats"
  BY TestStep DEF Flight, Flying, InStats
<1>3. caller[c].item \in DOMAIN items
  BY <1>2 DEF ListInv, Pointers, InStats
<1>4. Pointers'
  BY <1>1, <1>2, <1>3, PointersKept DEF ListInv, Moves, Flying, InStats
<1>5. Sorts'
  BY <1>1, <1>2 DEF Sorts, Moves
<1> QED BY <1>1, <1>4, <1>5 DEF ListInv

\* A request begins with a balancer that is there.
LEMMA AskBase ==
  ASSUME Sorts, ListInv, NEW c \in Callers, Ask(c)
  PROVE  Sorts' /\ ListInv'
<1>1. /\ UNCHANGED <<bound, children, datas, changes, current, balancers, closing, failed, callback, time, late, items>>
      /\ requests' \in 0..bound.requests
  <2>1. UNCHANGED <<bound, children, datas, changes, current, balancers, closing, failed, callback, time, late, items>>
    BY DEF Ask, Requests, discovery, clock
  <2>2. requests' \in 0..bound.requests
    BY Bounded DEF Ask, Sorts
  <2> QED BY <2>1, <2>2
<1>2. \/ UNCHANGED caller
      \/ current # 0 /\ \E h \in CallerState : Moves(c, h) /\ h.pc = "pick" /\ h.lb = current
  BY AskStep
<1>3. current # 0 => current \in DOMAIN balancers
  BY DEF Sorts
<1>4. Pointers'
  BY <1>1, <1>2, <1>3, PointersKept DEF ListInv, Moves, Flying, InStats
<1>5. Sorts'
  BY <1>1, <1>2 DEF Sorts, Moves
<1> QED BY <1>1, <1>4, <1>5 DEF ListInv

\* A request takes one of the items listed.
LEMMA PickBase ==
  ASSUME Sorts, ListInv, NEW c \in Callers, Pick(c)
  PROVE  Sorts' /\ ListInv'
<1> DEFINE k == caller[c].lb
<1>1. UNCHANGED <<bound, children, datas, changes, current, closing, failed, callback, time, late, requests>>
  BY DEF Pick, Requests, discovery, clock
<1>2. PICK new \in Balancer :
        /\ k \in DOMAIN balancers /\ BalancerStep(k, new) /\ new.listed = balancers[k].listed
        /\ new.ready \subseteq balancers[k].ready \cup ListedBy(balancers[k])
        /\ \/ Moves(c, Idle)
           \/ \E h \in CallerState : Moves(c, h) /\ h.pc = "stats" /\ h.item \in new.ready /\ h.ts = time
  BY PickStep DEF ListInv
<1>3. /\ items' \in Seq(Item) /\ DOMAIN items' = DOMAIN items
      /\ \A i \in DOMAIN items : items'[i].node = items[i].node /\ items'[i].state = items[i].state
  <2>1. PICK S : items' = Weighed(items, S)
    BY PickStep DEF ListInv
  <2>2. time \in Nat
    BY DEF Sorts
  <2> QED BY <2>1, <2>2, WeighedItems DEF Sorts, Kin
<1> HIDE DEF k
<1>4. /\ DOMAIN balancers' = DOMAIN balancers
      /\ \A j \in DOMAIN balancers : /\ balancers'[j].listed = balancers[j].listed
                                     /\ balancers'[j].ready \subseteq balancers[j].ready \cup ListedBy(balancers[j])
  <2>1. DOMAIN balancers = 1..Len(balancers) /\ DOMAIN balancers' = DOMAIN balancers
    BY <1>2 DEF Sorts, BalancerStep
  <2>2. balancers'[k] = new /\ \A j \in DOMAIN balancers : j # k => balancers'[j] = balancers[j]
    BY <1>2, <2>1 DEF BalancerStep
  <2> QED BY <1>2, <2>1, <2>2
<1>5. Lists(balancers', items, closing)
  BY <1>4, ListsChoice DEF ListInv
<1>6. Lists(balancers', items', closing')
  BY <1>1, <1>3, <1>5, ListsItems
<1>7. new.ready \subseteq DOMAIN items
  <2>1. balancers[k].ready \subseteq ListedBy(balancers[k])
    BY <1>2 DEF ListInv, Lists
  <2>2. ListedBy(balancers[k]) \subseteq DOMAIN items
    BY <1>2 DEF ListInv, Lists, ListedBy
  <2> QED BY <1>2, <2>1, <2>2
<1>8. Pointers'
  <2>1. \A d \in Callers : \/ caller'[d] = caller[d]
                           \/ /\ caller'[d].pc = "pick" => caller'[d].lb \in DOMAIN balancers'
                              /\ caller'[d].pc \in Flying => caller'[d].item \in DOMAIN items'
    BY <1>2, <1>3, <1>7, IdleCaller DEF Moves, Flying, InStats
  <2> QED BY <1>1, <1>3, <1>4, <2>1, PointersKept DEF ListInv
<1>9. balancers' \in Seq(Balancer) /\ Len(balancers') = Len(balancers) /\ caller' \in [Callers -> CallerState]
  BY <1>2 DEF BalancerStep, Moves
<1>10. Sorts'
  BY <1>1, <1>3, <1>9 DEF Sorts
<1> QED BY <1>6, <1>8, <1>10 DEF ListInv

\* A callback that reads, swaps or looks up touches no list.
LEMMA ReadBase ==
  ASSUME Sorts, ListInv, NEW b \in Callbacks, ReadChildren(b) \/ SwapDatas(b) \/ GetBalancer(b)
  PROVE  Sorts' /\ ListInv'
<1>1. UNCHANGED <<bound, children, changes, current, balancers, closing, failed, caller, time, late, requests, items>>
  BY DEF ReadChildren, SwapDatas, GetBalancer, discovery, balancing, clock
<1>2. /\ datas' \subseteq Nodes
      /\ \E h \in CallbackState : Turns(b, h) /\ (h.pc = "update" => h.lb \in DOMAIN balancers)
  <2>1. CASE ReadChildren(b)
    BY <2>1, ReadStep DEF ReadChildren, discovery, Sorts
  <2>2. CASE SwapDatas(b)
    BY <2>2, SwapStep DEF Sorts
  <2>3. CASE GetBalancer(b)
    <3>1. datas' \subseteq Nodes
      BY <2>3 DEF GetBalancer, discovery, Sorts
    <3>2. current # 0 => current \in DOMAIN balancers
      BY DEF Sorts
    <3> QED BY <2>3, <3>1, <3>2, GetStep
  <2> QED BY <2>1, <2>2, <2>3
<1>3. Pointers'
  BY <1>1, <1>2, PointersKept DEF ListInv, Turns
<1>4. Sorts'
  BY <1>1, <1>2 DEF Sorts, Turns
<1> QED BY <1>1, <1>3, <1>4 DEF ListInv

\* A new balancer has no item.
LEMMA InsertBase ==
  ASSUME Sorts, ListInv, NEW b \in Callbacks, InsertBalancer(b)
  PROVE  Sorts' /\ ListInv'
<1> DEFINE e == Len(balancers) + 1
<1>1. UNCHANGED <<bound, children, datas, changes, closing, failed, caller, time, late, requests, items>>
  BY DEF InsertBalancer, discovery, clock
<1>2. current' = e /\ \E h \in CallbackState : Turns(b, h) /\ h.lb = e
  BY InsertStep
<1>3. PICK l \in Balancer :
        /\ (\A n \in Nodes : l.listed[n] = 0) /\ l.ready = {}
        /\ balancers' \in Seq(Balancer) /\ Len(balancers') = e /\ balancers'[e] = l
        /\ \A k \in 1..Len(balancers) : balancers'[k] = balancers[k]
  BY InsertStep
<1>4. DOMAIN balancers = 1..Len(balancers) /\ Len(balancers) \in Nat
  BY DEF Sorts
<1>5. DOMAIN balancers' = DOMAIN balancers \cup {e} /\ e \notin DOMAIN balancers /\ current' \in 0..Len(balancers')
  BY <1>2, <1>3, <1>4
<1> HIDE DEF e
<1>6. Lists(balancers', items, closing)
  BY <1>3, <1>4, <1>5, ListsInsert DEF ListInv
<1>7. Pointers'
  BY <1>1, <1>2, <1>5, PointersKept DEF ListInv, Turns
<1>8. Sorts'
  BY <1>1, <1>2, <1>3, <1>5 DEF Sorts, Turns
<1> QED BY <1>1, <1>6, <1>7, <1>8 DEF ListInv
\* An updated balancer has new items and loses those it hands back.
LEMMA UpdateBase ==
  ASSUME Sorts, ListInv, NEW b \in Callbacks, Update(b)
  PROVE  Sorts' /\ ListInv'
<1> DEFINE h == callback[b]
           old == balancers[h.lb]
<1>1. UNCHANGED <<bound, children, datas, changes, current, caller, time, late, requests>>
  BY DEF Update, discovery, clock
<1>2. h.lb \in DOMAIN balancers /\ Turns(b, Idle) /\ h \in CallbackState /\ h # Idle
  BY UpdateStep, CallbackKinds DEF ListInv, Sorts
<1>3. Added(h) \subseteq Nodes /\ Removed(h) \subseteq Nodes
  <2> HIDE DEF h
  <2> QED BY <1>2, CallbackKinds DEF Added, Removed
<1>4. \E made \in SUBSET Added(h), new \in Balancer : \E all, S :
        /\ Extends(all, made) /\ items' = Weighed(all, S)
        /\ BalancerStep(h.lb, new) /\ new.ready \subseteq ListedBy(new) /\ Relists(old, new, h, all, made)
        /\ closing' = closing \cup Erased(old, h)
        /\ failed' = (failed \ Removed(h)) \cup (Added(h) \ made)
  BY UpdateStep DEF ListInv
<1>5. PICK made \in SUBSET Added(h), new \in Balancer : \E all, S :
        /\ Extends(all, made) /\ items' = Weighed(all, S)
        /\ BalancerStep(h.lb, new) /\ new.ready \subseteq ListedBy(new) /\ Relists(old, new, h, all, made)
        /\ closing' = closing \cup Erased(old, h)
        /\ failed' = (failed \ Removed(h)) \cup (Added(h) \ made)
  BY <1>4
<1>6. PICK all, S :
        /\ Extends(all, made) /\ items' = Weighed(all, S)
        /\ BalancerStep(h.lb, new) /\ new.ready \subseteq ListedBy(new) /\ Relists(old, new, h, all, made)
        /\ closing' = closing \cup Erased(old, h)
        /\ failed' = (failed \ Removed(h)) \cup (Added(h) \ made)
  BY <1>5
<1> HIDE DEF h
<1>7. Lists(balancers', all, closing')
  <2>1. made \in SUBSET Nodes
    BY <1>3
  <2> QED BY <1>2, <1>3, <1>6, <2>1, ListsUpdate DEF ListInv
<1>8. all \in Seq(Item) /\ Len(all) >= Len(items) /\ time \in Nat /\ Len(items) \in Nat
  BY <1>6 DEF Extends, Sorts
<1>9. /\ items' \in Seq(Item) /\ DOMAIN items' = DOMAIN all
      /\ \A i \in DOMAIN all : items'[i].node = all[i].node /\ items'[i].state = all[i].state
  BY <1>6, <1>8, WeighedItems DEF Kin
<1>10. Lists(balancers', items', closing')
  BY <1>7, <1>9, ListsItems
<1>11. DOMAIN items \subseteq DOMAIN items' /\ DOMAIN balancers' = DOMAIN balancers
  <2>1. DOMAIN items \subseteq DOMAIN items'
    BY <1>8, <1>9 DEF Sorts
  <2>2. DOMAIN balancers' = DOMAIN balancers
    BY <1>6 DEF BalancerStep, Sorts
  <2> QED BY <2>1, <2>2
<1>12. Pointers'
  BY <1>1, <1>2, <1>11, CallbackKinds, PointersKept DEF ListInv, Turns
<1>13. closing' \subseteq DOMAIN items'
  <2>1. \A n \in Nodes : old.listed[n] # 0 => old.listed[n] \in DOMAIN items
    BY <1>2 DEF ListInv, Lists
  <2>2. Erased(old, h) \subseteq DOMAIN items
    <3> HIDE DEF old
    <3> QED BY <1>3, <2>1 DEF Erased
  <2> QED BY <1>6, <1>11, <2>2 DEF Sorts
<1>14. failed' \subseteq Nodes /\ balancers' \in Seq(Balancer) /\ Len(balancers') = Len(balancers)
       /\ callback' \in [Callbacks -> CallbackState]
  BY <1>2, <1>3, <1>6 DEF Sorts, BalancerStep, Turns
<1>15. Sorts'
  BY <1>1, <1>9, <1>13, <1>14 DEF Sorts
<1> QED BY <1>10, <1>12, <1>15 DEF ListInv

\* At the beginning there is nothing.
LEMMA InitBase == Init => Sorts /\ ListInv
<1> SUFFICES ASSUME Init PROVE Sorts /\ ListInv
  OBVIOUS
<1>1. callback \in [Callbacks -> CallbackState] /\ caller \in [Callers -> CallerState]
  BY CallbackKinds, IdleCaller DEF Init
<1>2. balancers \in Seq(Balancer) /\ items \in Seq(Item) /\ Len(balancers) = 0 /\ DOMAIN balancers = {}
  BY DEF Init
<1>3. bound.changes \in Nat /\ bound.requests \in Nat
  BY BoundAssumption DEF Init
<1>4. Sorts
  <2>1. time \in 1..MaxTime /\ changes \in 0..bound.changes /\ requests \in 0..bound.requests
    <3>1. time = 1 /\ changes = 0 /\ requests = 0
      BY DEF Init
    <3> QED BY <1>3, <3>1, SizeAssumption
  <2>2. current \in 0..Len(balancers) /\ late \in BOOLEAN
    <3>1. late \in BOOLEAN
      BY DEF Init
    <3>2. current = 0
      BY DEF Init
    <3> QED BY <1>2, <3>1, <3>2
  <2>3. bound \in Bounds /\ children \subseteq Nodes /\ datas \subseteq Nodes /\ failed \subseteq Nodes
        /\ closing \subseteq DOMAIN items
    BY DEF Init
  <2> QED BY <1>1, <1>2, <2>1, <2>2, <2>3 DEF Sorts
<1>5. Pointers
  BY DEF Init, Pointers, Idle, InStats
<1>6. Lists(balancers, items, closing)
  BY <1>2 DEF Lists
<1> QED BY <1>4, <1>5, <1>6 DEF ListInv

\* Every step keeps them.
LEMMA BaseStep == Sorts /\ ListInv /\ [Next]_vars => Sorts' /\ ListInv'
<1> SUFFICES ASSUME Sorts, ListInv, [Next]_vars PROVE Sorts' /\ ListInv'
  OBVIOUS
<1>1. CASE UNCHANGED vars
  BY <1>1 DEF vars, discovery, balancing, clock, Sorts, ListInv, Pointers
<1>2. ASSUME NEW b \in Callbacks,
             ReadChildren(b) \/ SwapDatas(b) \/ GetBalancer(b) \/ InsertBalancer(b) \/ Update(b)
      PROVE  Sorts' /\ ListInv'
  BY <1>2, ReadBase, InsertBase, UpdateBase
<1>3. ASSUME NEW c \in Callers,
             Ask(c) \/ Pick(c) \/ TestTime(c) \/ ClearSlots(c) \/ Stamp(c) \/ Count(c) \/ Answer(c)
      PROVE  Sorts' /\ ListInv'
  BY <1>3, AskBase, PickBase, TestBase, CountingBase
<1>4. ASSUME NEW i \in DOMAIN items, Toggle(i) \/ CloseItem(i)
      PROVE  Sorts' /\ ListInv'
  BY <1>4, ToggleBase, CloseBase
<1>5. ASSUME (\E n \in Nodes : Provide(n)) \/ Tick
      PROVE  Sorts' /\ ListInv'
  BY <1>5, ProvideBase, TickBase
<1> QED BY <1>1, <1>2, <1>3, <1>4, <1>5 DEF Next

\* Sorts and lists are invariant.
LEMMA SpecBase == Spec => [](Sorts /\ ListInv)
<1>1. Init => Sorts /\ ListInv
  BY InitBase
<1>2. (Sorts /\ ListInv) /\ [Next]_vars => (Sorts /\ ListInv)'
  BY BaseStep
<1> QED BY <1>1, <1>2, PTL DEF Spec

\* Every pointer kept or in use leads to an object, and no counter outgrows its
\* width, however callbacks and requests overlap (HolderStats, load_balance.h).
THEOREM Types == Spec => []TypeOK
<1>1. Sorts /\ ListInv => TypeOK
  <2> SUFFICES ASSUME Sorts, ListInv PROVE TypeOK
    OBVIOUS
  <2>1. ASSUME NEW k \in DOMAIN balancers
        PROVE  balancers[k] \in Balancer /\ ListedBy(balancers[k]) \cup balancers[k].ready \subseteq DOMAIN items
    <3>1. ListedBy(balancers[k]) \subseteq DOMAIN items /\ balancers[k].ready \subseteq ListedBy(balancers[k])
      BY <2>1 DEF ListInv, Lists, ListedBy
    <3> QED BY <2>1, <3>1 DEF Sorts
  <2> QED BY <2>1 DEF TypeOK, Sorts, ListInv, Pointers
<1> QED BY <1>1, SpecBase, PTL

\* No balancer ever lists or chooses among an item that is closed or about to be,
\* with any number of callbacks at once on any number of workers: a request may
\* hold such an item, no new one gets it (LoadBalance::update, load_balance.cc).
THEOREM Unlisted == Spec => []ClosedIsUnlisted
<1>1. Sorts /\ ListInv => ClosedIsUnlisted
  <2> SUFFICES ASSUME Sorts, ListInv,
                      NEW i \in DOMAIN items, items[i].state = "closed" \/ i \in closing,
                      NEW k \in DOMAIN balancers
               PROVE  i \notin ListedBy(balancers[k]) \cup balancers[k].ready
    BY DEF ClosedIsUnlisted
  <2>1. balancers[k].ready \subseteq ListedBy(balancers[k])
    BY DEF ListInv, Lists
  <2>2. i \notin ListedBy(balancers[k])
    BY DEF ListInv, Lists, ListedBy
  <2> QED BY <2>1, <2>2
<1> QED BY <1>1, SpecBase, PTL
---------------------------------------------------------------------------
(* One worker *)

\* When the one worker is free nobody is in the middle of anything.
LEMMA OneFree ==
  ASSUME Sorts, bound.workers = 1, FreeWorker
  PROVE  (\A b \in Callbacks : callback[b] = Idle) /\ (\A c \in Callers : ~ Active(c))
<1>1. IsFiniteSet(Running) /\ Cardinality(Running) \in Nat
  <2>1. IsFiniteSet({b \in Callbacks : callback[b].pc # "idle"})
    BY FiniteAssumption, FS_Subset
  <2>2. IsFiniteSet({c \in Callers : caller[c].pc \notin {"idle", "waiting"}})
    BY FiniteAssumption, FS_Subset
  <2> QED BY <2>1, <2>2, FS_Union, FS_CardinalityType DEF Running
<1>2. Cardinality(Running) = 0
  BY <1>1 DEF FreeWorker
<1>3. Running = {}
  BY <1>1, <1>2, FS_EmptySet
<1>4. \A b \in Callbacks : callback[b].pc = "idle"
  BY <1>3 DEF Running
<1>5. \A c \in Callers : ~ Active(c)
  BY <1>3 DEF Running, Active
<1> QED BY <1>4, <1>5, CallbackKinds DEF Sorts

\* Nobody begins in a step that makes nobody busy.
LEMMA FewerAlone ==
  ASSUME Alone, UNCHANGED bound,
         \A b \in Callbacks : callback'[b] # Idle => callback[b] # Idle,
         \A c \in Callers : caller'[c].pc \notin {"idle", "waiting"} => caller[c].pc \notin {"idle", "waiting"}
  PROVE  Alone'
BY DEF Alone, Active

\* Beginning takes the one worker.
LEMMA BeginAlone ==
  ASSUME Sorts, Alone, (\E b \in Callbacks : ReadChildren(b)) \/ (\E c \in Callers : Ask(c))
  PROVE  Alone'
<1>1. CASE bound.workers # 1
  BY <1>1 DEF Alone, ReadChildren, Ask, Requests
<1>2. CASE bound.workers = 1
  <2>1. (\A b \in Callbacks : callback[b] = Idle) /\ (\A c \in Callers : caller[c].pc \in {"idle", "waiting"})
    BY <1>2, OneFree DEF ReadChildren, Ask, Active
  <2>2. ASSUME NEW b \in Callbacks, ReadChildren(b)
        PROVE  Alone'
    <3>1. UNCHANGED caller /\ \A a \in Callbacks : a # b => callback'[a] = callback[a]
      BY <2>2, ReadStep DEF ReadChildren, Turns
    <3> QED BY <2>1, <3>1 DEF Alone, Active
  <2>3. ASSUME NEW c \in Callers, Ask(c)
        PROVE  Alone'
    <3>1. UNCHANGED callback /\ \A d \in Callers : d # c => caller'[d] = caller[d]
      BY <2>3, AskStep DEF Ask, Requests, Moves
    <3> QED BY <2>1, <3>1 DEF Alone, Active
  <2> QED BY <2>2, <2>3
<1> QED BY <1>1, <1>2

\* On one worker nothing overlaps.
LEMMA AloneStep == Sorts /\ ListInv /\ Alone /\ [Next]_vars => Alone'
<1> SUFFICES ASSUME Sorts, ListInv, Alone, [Next]_vars PROVE Alone'
  OBVIOUS
<1>1. CASE UNCHANGED vars \/ (\E n \in Nodes : Provide(n)) \/ Tick \/ \E i \in DOMAIN items : Toggle(i) \/ CloseItem(i)
  <2>1. UNCHANGED <<bound, callback, caller>>
    BY <1>1 DEF vars, Provide, Tick, Toggle, CloseItem
  <2> QED BY <2>1, FewerAlone
<1>2. ASSUME NEW b \in Callbacks, SwapDatas(b) \/ GetBalancer(b) \/ InsertBalancer(b) \/ Update(b)
      PROVE  Alone'
  <2>1. UNCHANGED <<bound, caller>>
    BY <1>2 DEF SwapDatas, GetBalancer, InsertBalancer, Update
  <2>2. callback[b] # Idle /\ \A a \in Callbacks : a # b => callback'[a] = callback[a]
    <3>1. callback[b].pc # "idle"
      BY <1>2 DEF SwapDatas, GetBalancer, InsertBalancer, Update
    <3> QED BY <1>2, <3>1, SwapStep, GetStep, InsertStep, UpdateStep, CallbackKinds DEF ListInv, Turns
  <2> QED BY <2>1, <2>2, FewerAlone
<1>3. ASSUME NEW c \in Callers, Pick(c) \/ TestTime(c) \/ ClearSlots(c) \/ Stamp(c) \/ Count(c)
      PROVE  Alone'
  <2>1. UNCHANGED <<bound, callback>> /\ caller[c].pc \notin {"idle", "waiting"}
    BY <1>3 DEF Pick, TestTime, ClearSlots, Stamp, Count, Requests
  <2>2. \E h : Moves(c, h)
    <3>1. CASE Pick(c)
      BY <3>1, PickStep DEF ListInv
    <3>2. CASE ~ Pick(c)
      BY <1>3, <3>2, TestStep, ClearStep, StampStep, CountStep DEF ListInv, Flight
    <3> QED BY <3>1, <3>2
  <2> QED BY <2>1, <2>2, FewerAlone DEF Moves
<1>4. ASSUME NEW c \in Callers, Answer(c)
      PROVE  Alone'
  <2>1. UNCHANGED <<bound, callback>> /\ Moves(c, Idle)
    BY <1>4, AnswerStep DEF Answer, Requests, ListInv
  <2> QED BY <2>1, IdleCaller, FewerAlone DEF Moves
<1> QED BY <1>1, <1>2, <1>3, <1>4, BeginAlone DEF Next
---------------------------------------------------------------------------
(* Following discovery *)

\* Steps that change neither what is listed nor what discovery knows, and let
\* no open item leave the closing ones.
LEMMA SameFollow ==
  ASSUME FollowInv, UNCHANGED <<bound, current, datas, failed>>, DOMAIN balancers' = DOMAIN balancers,
         current \in 0..Len(balancers), DOMAIN balancers = 1..Len(balancers),
         \A k \in DOMAIN balancers : balancers'[k].listed = balancers[k].listed,
         \A b \in Callbacks : callback'[b] = callback[b] \/ (callback[b].pc \notin Within /\ callback'[b].pc \notin Within),
         \A i \in DOMAIN items' : items'[i].state # "closed" =>
           i \in DOMAIN items /\ items[i].state # "closed" /\ (i \in closing => i \in closing')
  PROVE  FollowInv'
<1> SUFFICES ASSUME bound.workers = 1 PROVE FollowInv'
  BY DEF FollowInv
<1>1. Served' = Served /\ Listed' = Listed
  <2>1. CASE current = 0
    BY <2>1 DEF Served, Listed
  <2>2. CASE current # 0
    <3>1. balancers'[current].listed = balancers[current].listed
      BY <2>2
    <3>2. ListedBy(balancers'[current]) = ListedBy(balancers[current])
      BY <3>1, SameList
    <3> QED BY <2>2, <3>1, <3>2 DEF Served, Listed
  <2> QED BY <2>1, <2>2
<1>2. \A b \in Callbacks : callback'[b].pc \in Within <=> callback[b].pc \in Within
  OBVIOUS
<1>3. \A b \in Callbacks : callback'[b].pc \in Within => callback'[b] = callback[b]
  OBVIOUS
<1>4. \A b \in Callbacks : callback'[b].pc = "insert" => current' = 0
  BY <1>3 DEF FollowInv, Within
<1>5. \A b \in Callbacks : callback'[b].pc = "update" => current' # 0 /\ callback'[b].lb = current'
  BY <1>3 DEF FollowInv, Within
<1>6. \A b \in Callbacks : callback'[b].pc \in Within =>
         /\ datas' = callback'[b].new /\ Served' = callback'[b].old \ failed' /\ failed' \subseteq callback'[b].old
  BY <1>1, <1>2, <1>3 DEF FollowInv
<1>7. (\A b \in Callbacks : callback'[b].pc \notin Within) => Served' = datas' \ failed' /\ failed' \subseteq datas'
  BY <1>1, <1>2 DEF FollowInv
<1>8. \A i \in DOMAIN items' : items'[i].state # "closed" => i \in Listed' \cup closing'
  BY <1>1 DEF FollowInv
<1> QED BY <1>4, <1>5, <1>6, <1>7, <1>8 DEF FollowInv

\* The environment, the beginning of a callback, and requests.
LEMMA QuietFollow ==
  ASSUME Sorts, ListInv, FollowInv,
         \/ UNCHANGED vars \/ Tick
         \/ \E n \in Nodes : Provide(n)
         \/ \E i \in DOMAIN items : Toggle(i) \/ CloseItem(i)
         \/ \E b \in Callbacks : ReadChildren(b)
         \/ \E c \in Callers : \/ Ask(c) \/ Pick(c) \/ TestTime(c)
                               \/ ClearSlots(c) \/ Stamp(c) \/ Count(c) \/ Answer(c)
  PROVE  FollowInv'
<1>1. current \in 0..Len(balancers) /\ DOMAIN balancers = 1..Len(balancers) /\ DOMAIN items = 1..Len(items)
  BY DEF Sorts
<1>2. CASE UNCHANGED <<bound, current, datas, failed, balancers, items, closing>>
           /\ \A b \in Callbacks : callback'[b] = callback[b] \/ (callback[b].pc \notin Within /\ callback'[b].pc \notin Within)
  BY <1>1, <1>2, SameFollow
<1>3. CASE UNCHANGED vars \/ Tick \/ \E n \in Nodes : Provide(n)
  <2>1. UNCHANGED <<bound, current, datas, failed, balancers, items, closing, callback>>
    BY <1>3 DEF vars, Tick, Provide, discovery, balancing
  <2> QED BY <1>2, <2>1
<1>4. ASSUME NEW b \in Callbacks, ReadChildren(b)
      PROVE  FollowInv'
  <2>1. UNCHANGED <<bound, current, datas, failed, balancers, items, closing>>
    BY <1>4 DEF ReadChildren, discovery, balancing
  <2>2. callback[b].pc \notin Within /\ callback'[b].pc \notin Within /\ \A a \in Callbacks : a # b => callback'[a] = callback[a]
    BY <1>4, ReadStep, CallbackKinds DEF Turns, Within
  <2> QED BY <1>2, <2>1, <2>2
<1>5. ASSUME NEW i \in DOMAIN items, Toggle(i)
      PROVE  FollowInv'
  <2>1. UNCHANGED <<bound, current, datas, failed, balancers, closing, callback>> /\ items[i].state # "closed"
    BY <1>5 DEF Toggle, discovery, balancing
  <2>2. \E new \in Item : ItemStep(i, new)
    <3>1. items \in Seq(Item)
      BY DEF Sorts
    <3> QED BY <1>5, <3>1, ToggleStep
  <2>3. DOMAIN items' = DOMAIN items /\ \A j \in DOMAIN items : j # i => items'[j] = items[j]
    BY <1>1, <2>2 DEF ItemStep
  <2> QED BY <1>1, <2>1, <2>3, SameFollow
<1>6. ASSUME NEW i \in DOMAIN items, CloseItem(i)
      PROVE  FollowInv'
  <2>1. UNCHANGED <<bound, current, datas, failed, balancers, callback>> /\ closing' = closing \ {i}
    BY <1>6 DEF CloseItem, discovery
  <2>2. /\ DOMAIN items' = DOMAIN items /\ items'[i].state = "closed"
        /\ \A j \in DOMAIN items : j # i => items'[j] = items[j]
    <3>1. items \in Seq(Item)
      BY DEF Sorts
    <3>2. \E new \in Item : ItemStep(i, new) /\ new.state = "closed"
      BY <1>6, <3>1, CloseStep
    <3> QED BY <3>1, <3>2 DEF ItemStep
  <2> QED BY <1>1, <2>1, <2>2, SameFollow
<1>7. ASSUME NEW c \in Callers, Ask(c) \/ TestTime(c)
      PROVE  FollowInv'
  <2>1. UNCHANGED <<bound, current, datas, failed, balancers, items, closing, callback>>
    BY <1>7 DEF Ask, TestTime, Requests, discovery
  <2> QED BY <1>2, <2>1
<1>8. ASSUME NEW c \in Callers, Pick(c)
      PROVE  FollowInv'
  <2>1. UNCHANGED <<bound, current, datas, failed, closing, callback>>
    BY <1>8 DEF Pick, Requests, discovery
  <2>2. PICK new \in Balancer : /\ caller[c].lb \in DOMAIN balancers /\ BalancerStep(caller[c].lb, new)
                                /\ new.listed = balancers[caller[c].lb].listed
    BY <1>8, PickStep DEF ListInv
  <2>3. DOMAIN balancers' = DOMAIN balancers /\ \A k \in DOMAIN balancers : balancers'[k].listed = balancers[k].listed
    <3>1. DOMAIN balancers' = DOMAIN balancers
      BY <1>1, <2>2 DEF BalancerStep
    <3>2. \A k \in DOMAIN balancers : k # caller[c].lb => balancers'[k] = balancers[k]
      BY <1>1, <2>2 DEF BalancerStep
    <3>3. balancers'[caller[c].lb].listed = balancers[caller[c].lb].listed
      BY <2>2 DEF BalancerStep
    <3> QED BY <3>1, <3>2, <3>3
  <2>4. PICK S : items' = Weighed(items, S)
    BY <1>8, PickStep DEF ListInv
  <2>5. DOMAIN items' = DOMAIN items /\ \A i \in DOMAIN items : items'[i].state = items[i].state
    <3>1. items \in Seq(Item) /\ time \in Nat
      BY DEF Sorts
    <3> QED BY <3>1, <2>4, WeighedItems DEF Kin
  <2> QED BY <1>1, <2>1, <2>3, <2>5, SameFollow
<1>9. ASSUME NEW c \in Callers, ClearSlots(c) \/ Stamp(c) \/ Count(c) \/ Answer(c)
      PROVE  FollowInv'
  <2>1. UNCHANGED <<bound, current, datas, failed, balancers, closing, callback>>
    BY <1>9 DEF ClearSlots, Stamp, Count, Answer, Requests, discovery
  <2>2. PICK new \in Item : ItemStep(caller[c].item, new) /\ Kin(items[caller[c].item], new)
    BY <1>9, ClearStep, StampStep, CountStep, AnswerStep DEF ListInv
  <2>3. caller[c].item \in DOMAIN items
    BY <1>9 DEF ClearSlots, Stamp, Count, Answer, ListInv, Pointers, InStats
  <2>4. DOMAIN items' = DOMAIN items /\ \A i \in DOMAIN items : items'[i].state = items[i].state
    BY <1>1, <2>2, <2>3 DEF ItemStep, Kin
  <2> QED BY <1>1, <2>1, <2>4, SameFollow
<1> QED BY <1>3, <1>4, <1>5, <1>6, <1>7, <1>8, <1>9
\* In one worker's callback the others are idle.
LEMMA OthersIdle ==
  ASSUME Alone, bound.workers = 1, NEW b \in Callbacks, callback[b] # Idle
  PROVE  \A a \in Callbacks : a # b => callback[a] = Idle
BY DEF Alone

\* Discovery takes the new answer; the balancer still follows the old one.
LEMMA SwapFollow ==
  ASSUME Sorts, Alone, FollowInv, NEW b \in Callbacks, SwapDatas(b)
  PROVE  FollowInv'
<1>1. UNCHANGED <<bound, current, failed, balancers, items, closing>>
  BY DEF SwapDatas, balancing
<1> SUFFICES ASSUME bound.workers = 1 PROVE FollowInv'
  BY <1>1 DEF FollowInv
<1>2. PICK h \in CallbackState : Turns(b, h) /\ h.pc = "get" /\ h.new = callback[b].new /\ h.old = datas
  BY SwapStep
<1>3. callback[b].pc = "swap" /\ callback[b] # Idle /\ datas' = callback[b].new
  BY SwapStep, CallbackKinds
<1>4. \A a \in Callbacks : a # b => callback[a] = Idle /\ callback'[a] = Idle
  BY <1>2, <1>3, OthersIdle DEF Turns
<1>5. \A a \in Callbacks : callback[a].pc \notin Within
  BY <1>3, <1>4, CallbackKinds DEF Within
<1>6. Served = datas \ failed /\ failed \subseteq datas
  BY <1>5 DEF FollowInv
<1>7. Served' = Served /\ Listed' = Listed
  BY <1>1 DEF Served, Listed
<1>8. callback'[b] = h /\ \A a \in Callbacks : a # b => callback'[a].pc = "idle"
  BY <1>2, <1>4, CallbackKinds DEF Turns
<1>9. \A i \in DOMAIN items' : items'[i].state # "closed" => i \in Listed' \cup closing'
  BY <1>1, <1>7 DEF FollowInv
<1>10. \A a \in Callbacks : callback'[a].pc \notin {"insert", "update"}
  BY <1>2, <1>8
<1>11. \A a \in Callbacks : callback'[a].pc \in Within =>
         /\ datas' = callback'[a].new /\ Served' = callback'[a].old \ failed' /\ failed' \subseteq callback'[a].old
  BY <1>1, <1>2, <1>3, <1>6, <1>7, <1>8 DEF Within
<1>12. ~ \A a \in Callbacks : callback'[a].pc \notin Within
  BY <1>2, <1>8 DEF Within
<1> QED BY <1>9, <1>10, <1>11, <1>12 DEF FollowInv

\* The callback finds the balancer of the service, or that there is none.
LEMMA GetFollow ==
  ASSUME Sorts, Alone, FollowInv, NEW b \in Callbacks, GetBalancer(b)
  PROVE  FollowInv'
<1>1. UNCHANGED <<bound, current, datas, failed, balancers, items, closing>>
  BY DEF GetBalancer, balancing, discovery
<1> SUFFICES ASSUME bound.workers = 1 PROVE FollowInv'
  BY <1>1 DEF FollowInv
<1>2. PICK h \in CallbackState :
        /\ Turns(b, h) /\ h.pc = (IF current = 0 THEN "insert" ELSE "update")
        /\ h.new = callback[b].new /\ h.old = callback[b].old /\ h.lb = current
  BY GetStep
<1>3. callback[b].pc = "get" /\ callback[b] # Idle
  BY GetStep, CallbackKinds
<1>4. \A a \in Callbacks : a # b => callback[a] = Idle /\ callback'[a] = Idle
  BY <1>2, <1>3, OthersIdle DEF Turns
<1>5. datas = h.new /\ Served = h.old \ failed /\ failed \subseteq h.old
  BY <1>2, <1>3 DEF FollowInv, Within
<1>6. Served' = Served /\ Listed' = Listed
  BY <1>1 DEF Served, Listed
<1>7. callback'[b] = h /\ \A a \in Callbacks : a # b => callback'[a].pc = "idle"
  BY <1>2, <1>4, CallbackKinds DEF Turns
<1>8. \A i \in DOMAIN items' : items'[i].state # "closed" => i \in Listed' \cup closing'
  BY <1>1, <1>6 DEF FollowInv
<1>9. h.pc \in Within /\ (h.pc = "insert" => current = 0) /\ (h.pc = "update" => current # 0)
  BY <1>2 DEF Within
<1>10. \A a \in Callbacks : callback'[a].pc = "insert" => current' = 0
  BY <1>1, <1>7, <1>9
<1>11. \A a \in Callbacks : callback'[a].pc = "update" => current' # 0 /\ callback'[a].lb = current'
  BY <1>1, <1>2, <1>7, <1>9
<1>12. \A a \in Callbacks : callback'[a].pc \in Within =>
         /\ datas' = callback'[a].new /\ Served' = callback'[a].old \ failed' /\ failed' \subseteq callback'[a].old
  BY <1>1, <1>5, <1>6, <1>7 DEF Within
<1>13. ~ \A a \in Callbacks : callback'[a].pc \notin Within
  BY <1>7, <1>9
<1> QED BY <1>8, <1>10, <1>11, <1>12, <1>13 DEF FollowInv

\* A new balancer serves nobody, as none did.
LEMMA InsertFollow ==
  ASSUME Sorts, Alone, FollowInv, NEW b \in Callbacks, InsertBalancer(b)
  PROVE  FollowInv'
<1>1. UNCHANGED <<bound, datas, failed, items, closing>>
  BY DEF InsertBalancer, discovery
<1> SUFFICES ASSUME bound.workers = 1 PROVE FollowInv'
  BY <1>1 DEF FollowInv
<1>2. PICK h \in CallbackState :
        /\ Turns(b, h) /\ h.pc = "update"
        /\ h.new = callback[b].new /\ h.old = callback[b].old /\ h.lb = Len(balancers) + 1
  BY InsertStep
<1>3. callback[b].pc = "insert" /\ callback[b] # Idle /\ current' = Len(balancers) + 1
  BY InsertStep, CallbackKinds
<1>4. \A a \in Callbacks : a # b => callback[a] = Idle /\ callback'[a] = Idle
  BY <1>2, <1>3, OthersIdle DEF Turns
<1>5. current = 0 /\ datas = h.new /\ Served = h.old \ failed /\ failed \subseteq h.old
  BY <1>2, <1>3 DEF FollowInv, Within
<1>6. Served = {} /\ Listed = {}
  BY <1>5 DEF Served, Listed
<1>7. current' # 0 /\ \A n \in Nodes : balancers'[current'].listed[n] = 0
  <2>1. Len(balancers) \in Nat
    BY DEF Sorts
  <2> QED BY <1>3, <2>1, InsertStep
<1>8. Served' = {} /\ Listed' = {}
  BY <1>7 DEF Served, Listed, ListedBy
<1>9. callback'[b] = h /\ \A a \in Callbacks : a # b => callback'[a].pc = "idle"
  BY <1>2, <1>4, CallbackKinds DEF Turns
<1>10. \A i \in DOMAIN items' : items'[i].state # "closed" => i \in Listed' \cup closing'
  BY <1>1, <1>6, <1>8 DEF FollowInv
<1>11. \A a \in Callbacks : callback'[a].pc # "insert"
  BY <1>2, <1>9
<1>12. \A a \in Callbacks : callback'[a].pc = "update" => current' # 0 /\ callback'[a].lb = current'
  BY <1>2, <1>3, <1>7, <1>9
<1>13. \A a \in Callbacks : callback'[a].pc \in Within =>
         /\ datas' = callback'[a].new /\ Served' = callback'[a].old \ failed' /\ failed' \subseteq callback'[a].old
  BY <1>1, <1>5, <1>6, <1>8, <1>9 DEF Within
<1>14. ~ \A a \in Callbacks : callback'[a].pc \notin Within
  BY <1>2, <1>9 DEF Within
<1> QED BY <1>10, <1>11, <1>12, <1>13, <1>14 DEF FollowInv
\* After the update the balancer follows the new answer, and what it has dropped
\* is about to be closed.
LEMMA UpdateFollow ==
  ASSUME Sorts, ListInv, Alone, FollowInv, NEW b \in Callbacks, Update(b)
  PROVE  FollowInv'
<1> DEFINE h == callback[b]
           old == balancers[current]
<1>1. UNCHANGED <<bound, datas, current>>
  BY DEF Update, discovery
<1> SUFFICES ASSUME bound.workers = 1 PROVE FollowInv'
  BY <1>1 DEF FollowInv
<1>2. h.pc = "update" /\ h # Idle /\ Turns(b, Idle) /\ h \in CallbackState
  BY UpdateStep, CallbackKinds DEF ListInv, Sorts
<1>3. /\ current # 0 /\ h.lb = current /\ datas = h.new
      /\ Served = h.old \ failed /\ failed \subseteq h.old
  BY <1>2 DEF FollowInv, Within
<1>4. \A a \in Callbacks : callback'[a] = Idle
  BY <1>2, OthersIdle DEF Turns
<1>5. \A a \in Callbacks : callback'[a].pc = "idle"
  BY <1>4, CallbackKinds
<1>6. current \in DOMAIN balancers
  BY <1>3 DEF Sorts
<1>7. \E made \in SUBSET Added(h), new \in Balancer : \E all, S :
        /\ Extends(all, made) /\ items' = Weighed(all, S)
        /\ BalancerStep(h.lb, new) /\ Relists(old, new, h, all, made)
        /\ closing' = closing \cup Erased(old, h)
        /\ failed' = (failed \ Removed(h)) \cup (Added(h) \ made)
  BY <1>3, UpdateStep DEF ListInv
<1>8. PICK made \in SUBSET Added(h), new \in Balancer : \E all, S :
        /\ Extends(all, made) /\ items' = Weighed(all, S)
        /\ BalancerStep(h.lb, new) /\ Relists(old, new, h, all, made)
        /\ closing' = closing \cup Erased(old, h)
        /\ failed' = (failed \ Removed(h)) \cup (Added(h) \ made)
  BY <1>7
<1>9. PICK all, S :
        /\ Extends(all, made) /\ items' = Weighed(all, S)
        /\ BalancerStep(h.lb, new) /\ Relists(old, new, h, all, made)
        /\ closing' = closing \cup Erased(old, h)
        /\ failed' = (failed \ Removed(h)) \cup (Added(h) \ made)
  BY <1>8
<1>10. h.new \subseteq Nodes /\ h.old \subseteq Nodes
  <2> HIDE DEF h
  <2> QED BY <1>2, CallbackKinds
<1>11. balancers'[current] = new
  BY <1>3, <1>9 DEF BalancerStep
<1> HIDE DEF h
<1>12. \A n \in Nodes : n \in Served <=> old.listed[n] # 0
  BY <1>3 DEF Served
<1>13. \A n \in Nodes : n \in Served' <=> new.listed[n] # 0
  BY <1>1, <1>3, <1>11 DEF Served
<1>14. \A n \in Nodes :
         /\ n \in made => new.listed[n] \in (Len(items) + 1)..Len(all) /\ all[new.listed[n]].node = n
         /\ n \notin made /\ n \in Removed(h) => new.listed[n] = 0
         /\ n \notin made /\ n \notin Removed(h) => new.listed[n] = old.listed[n]
  BY <1>9 DEF Relists
<1>15. Len(items) \in Nat /\ DOMAIN items = 1..Len(items) /\ Len(all) \in Nat /\ Len(all) >= Len(items)
       /\ all \in Seq(Item) /\ time \in Nat
  BY <1>9 DEF Sorts, Extends
<1>16. Served' = datas' \ failed' /\ failed' \subseteq datas'
  <2>1. \A n \in Nodes : n \in made => new.listed[n] # 0
    BY <1>14, <1>15
  <2>2. \A n \in Nodes : n \in Served' <=> n \in made \/ (n \notin Removed(h) /\ n \in Served)
    BY <1>12, <1>13, <1>14, <2>1
  <2>3. Served' \subseteq Nodes
    BY DEF Served
  <2>4. Added(h) = h.new \ h.old /\ Removed(h) = h.old \ h.new
    BY DEF Added, Removed
  <2>5. \A n \in Nodes : n \in Served' <=> n \in datas' \ failed'
    BY <1>1, <1>3, <1>9, <2>2, <2>4
  <2>6. datas' \subseteq Nodes /\ failed' \subseteq datas'
    BY <1>1, <1>3, <1>9, <1>10, <2>4
  <2> QED BY <2>3, <2>5, <2>6
<1>17. \A n \in Nodes : new.listed[n] # 0 => new.listed[n] \in Listed'
  BY <1>1, <1>3, <1>11 DEF Listed, ListedBy
<1>18. /\ DOMAIN items' = 1..Len(all)
       /\ \A i \in 1..Len(all) : items'[i].node = all[i].node /\ items'[i].state = all[i].state
  BY <1>9, <1>15, WeighedItems DEF Kin
<1>19. ASSUME NEW i \in 1..Len(all), items'[i].state # "closed"
       PROVE  i \in Listed' \cup closing'
  <2>1. CASE i \in 1..Len(items)
    <3>1. items[i].state # "closed"
      BY <1>9, <1>18, <1>19, <2>1 DEF Extends
    <3>2. i \in Listed \cup closing
      BY <1>15, <2>1, <3>1 DEF FollowInv
    <3>3. CASE i \in closing
      BY <1>9, <3>3
    <3>4. CASE i \in Listed
      <4>1. PICK n \in Nodes : i = old.listed[n] /\ i # 0
        BY <1>3, <3>4 DEF Listed, ListedBy
      <4>2. CASE n \in Removed(h)
        <5>1. i \in Erased(old, h)
          BY <4>1, <4>2 DEF Erased
        <5> QED BY <1>9, <5>1
      <4>3. CASE n \notin Removed(h)
        <5>1. n \in h.old
          BY <1>3, <1>12, <4>1
        <5>2. n \notin made
          BY <5>1 DEF Added
        <5>3. new.listed[n] = i
          BY <1>14, <4>1, <4>3, <5>2
        <5> QED BY <1>17, <4>1, <5>3
      <4> QED BY <4>2, <4>3
    <3> QED BY <3>2, <3>3, <3>4
  <2>2. CASE i \in (Len(items) + 1)..Len(all)
    <3> DEFINE n == all[i].node
    <3>1. n \in made /\ n \in Nodes
      BY <1>9, <1>10, <2>2 DEF Extends, Fresh, Added
    <3>2. new.listed[n] \in (Len(items) + 1)..Len(all) /\ all[new.listed[n]].node = n
      BY <1>14, <3>1
    <3>3. new.listed[n] = i
      BY <1>9, <2>2, <3>2 DEF Extends
    <3>4. i # 0
      BY <1>15, <2>2
    <3> QED BY <1>17, <3>1, <3>3, <3>4
  <2> QED BY <1>15, <2>1, <2>2
<1>20. \A a \in Callbacks : callback'[a].pc \notin Within \cup {"insert", "update"}
  BY <1>5 DEF Within
<1> QED BY <1>16, <1>18, <1>19, <1>20 DEF FollowInv, Within

\* Every step.
LEMMA FollowStep == Sorts /\ ListInv /\ Alone /\ FollowInv /\ [Next]_vars => FollowInv'
<1> SUFFICES ASSUME Sorts, ListInv, Alone, FollowInv, [Next]_vars PROVE FollowInv'
  OBVIOUS
<1>1. ASSUME NEW b \in Callbacks, SwapDatas(b) \/ GetBalancer(b) \/ InsertBalancer(b) \/ Update(b)
      PROVE  FollowInv'
  BY <1>1, SwapFollow, GetFollow, InsertFollow, UpdateFollow
<1>2. \/ UNCHANGED vars \/ Tick
      \/ \E n \in Nodes : Provide(n)
      \/ \E i \in DOMAIN items : Toggle(i) \/ CloseItem(i)
      \/ \E b \in Callbacks : ReadChildren(b)
      \/ \E b \in Callbacks : SwapDatas(b) \/ GetBalancer(b) \/ InsertBalancer(b) \/ Update(b)
      \/ \E c \in Callers : \/ Ask(c) \/ Pick(c) \/ TestTime(c)
                            \/ ClearSlots(c) \/ Stamp(c) \/ Count(c) \/ Answer(c)
  BY DEF Next
<1> QED BY <1>1, <1>2, QuietFollow

\* What holds on one worker holds always.
LEMMA SpecFollow == Spec => [](Sorts /\ ListInv /\ Alone /\ FollowInv)
<1>1. Init => Sorts /\ ListInv /\ Alone /\ FollowInv
  <2> SUFFICES ASSUME Init PROVE Sorts /\ ListInv /\ Alone /\ FollowInv
    OBVIOUS
  <2>1. Sorts /\ ListInv
    BY InitBase
  <2>2. (\A b \in Callbacks : callback[b].pc = "idle" /\ callback[b] = Idle) /\ (\A c \in Callers : caller[c].pc = "idle")
    BY DEF Init, Idle
  <2>3. Alone
    BY <2>2 DEF Alone, Active
  <2>4. Served = {} /\ datas = {} /\ failed = {} /\ DOMAIN items = {}
    BY DEF Init, Served
  <2>5. FollowInv
    BY <2>2, <2>4 DEF FollowInv, Within
  <2> QED BY <2>1, <2>3, <2>5
<1>2. (Sorts /\ ListInv /\ Alone /\ FollowInv) /\ [Next]_vars => (Sorts /\ ListInv /\ Alone /\ FollowInv)'
  BY BaseStep, AloneStep, FollowStep
<1> QED BY <1>1, <1>2, PTL DEF Spec

\* With the callbacks on one thread the balancer of the service has, between two
\* of them, an item for exactly the providers discovery last read, except those
\* whose stream could not be created, and every open stream is listed or about
\* to be closed: none leaks and none outlives its provider
\* (SDLoadBalance::onServiceChange, LoadBalance::update).
THEOREM Followed == Spec => []Follows
<1>1. Sorts /\ ListInv /\ FollowInv => Follows
  <2> SUFFICES ASSUME Sorts, ListInv, FollowInv, bound.workers = 1, Settled
               PROVE  /\ {items[i].node : i \in Listed} = datas \ failed
                      /\ \A i \in DOMAIN items : items[i].state # "closed" => i \in Listed \cup closing
    BY DEF Follows
  <2>1. \A b \in Callbacks : callback[b].pc \notin Within
    BY CallbackKinds DEF Settled, Within
  <2>2. Served = datas \ failed
    BY <2>1 DEF FollowInv
  <2>3. {items[i].node : i \in Listed} = Served
    <3>1. CASE current = 0
      BY <3>1 DEF Served, Listed
    <3>2. CASE current # 0
      <4> DEFINE l == balancers[current].listed
      <4>1. current \in DOMAIN balancers
        BY <3>2 DEF Sorts
      <4>2. \A n \in Nodes : l[n] # 0 => items[l[n]].node = n
        BY <4>1 DEF ListInv, Lists
      <4>3. Listed = {l[n] : n \in Nodes} \ {0} /\ Served = {n \in Nodes : l[n] # 0}
        BY <3>2 DEF Listed, ListedBy, Served
      <4> HIDE DEF l
      <4>4. ASSUME NEW i \in Listed PROVE items[i].node \in Served
        BY <4>2, <4>3
      <4>5. ASSUME NEW n \in Served PROVE l[n] \in Listed /\ items[l[n]].node = n
        BY <4>2, <4>3
      <4> QED BY <4>4, <4>5
    <3> QED BY <3>1, <3>2
  <2>4. \A i \in DOMAIN items : items[i].state # "closed" => i \in Listed \cup closing
    BY DEF FollowInv
  <2> QED BY <2>2, <2>3, <2>4
<1> QED BY <1>1, SpecFollow, PTL
---------------------------------------------------------------------------
(* Counting the requests under way *)

\* The requests counted in a slot are finitely many.
LEMMA WaitersFinite ==
  ASSUME NEW cs, NEW i, NEW k
  PROVE  IsFiniteSet(Waiters(cs, i, k)) /\ Cardinality(Waiters(cs, i, k)) \in Nat
BY FiniteAssumption, FS_Subset, FS_CardinalityType DEF Waiters

\* They are the same while nobody begins or stops waiting.
LEMMA WaitersSame ==
  ASSUME NEW cs, NEW cs2,
         \A c \in Callers : cs2[c] = cs[c] \/ (cs[c].pc # "waiting" /\ cs2[c].pc # "waiting")
  PROVE  \A i, k : Waiters(cs2, i, k) = Waiters(cs, i, k)
BY DEF Waiters

\* One more waits.
LEMMA WaitersMore ==
  ASSUME NEW cs, NEW cs2, NEW c \in Callers, cs[c].pc # "waiting", cs2[c].pc = "waiting",
         \A d \in Callers : d # c => cs2[d] = cs[d], NEW i, NEW k
  PROVE  Cardinality(Waiters(cs2, i, k)) =
           Cardinality(Waiters(cs, i, k)) + (IF cs2[c].item = i /\ SlotAt(cs2[c].ts) = k THEN 1 ELSE 0)
<1>1. c \notin Waiters(cs, i, k)
  BY DEF Waiters
<1>2. CASE cs2[c].item = i /\ SlotAt(cs2[c].ts) = k
  <2>1. Waiters(cs2, i, k) = Waiters(cs, i, k) \cup {c}
    BY <1>2 DEF Waiters
  <2>2. Cardinality(Waiters(cs2, i, k)) = Cardinality(Waiters(cs, i, k)) + 1
    BY <1>1, <2>1, WaitersFinite, FS_AddElement
  <2> QED BY <1>2, <2>2
<1>3. CASE ~ (cs2[c].item = i /\ SlotAt(cs2[c].ts) = k)
  <2>1. Waiters(cs2, i, k) = Waiters(cs, i, k)
    BY <1>3 DEF Waiters
  <2> QED BY <1>3, <2>1, WaitersFinite
<1> QED BY <1>2, <1>3

\* The slots an item is cleared of count nobody: whoever waits began no later
\* than the item was last cleared, and less than Size seconds ago.
LEMMA Vacated ==
  ASSUME caller \in [Callers -> CallerState], NEW its, NEW now \in Nat, Seconds(caller, its, now),
         NEW i \in DOMAIN its, its[i].last \in Nat, NEW n2 \in Nat, n2 <= now, NEW k \in Stale(its[i].last, n2)
  PROVE  Waiters(caller, i, k) = {}
<1>1. SUFFICES ASSUME NEW c \in Waiters(caller, i, k) PROVE FALSE
  OBVIOUS
<1>2. c \in Callers /\ caller[c].pc = "waiting" /\ caller[c].item = i /\ SlotAt(caller[c].ts) = k
  BY <1>1 DEF Waiters
<1>3. caller[c].ts \in Nat
  BY <1>2, CallerKinds DEF Flying
<1>4. caller[c].ts <= its[i].last /\ now - caller[c].ts < Size
  BY <1>2 DEF Seconds, Flying
<1>5. PICK t \in (its[i].last + 1)..(IF n2 < its[i].last + Size THEN n2 ELSE its[i].last + Size) : k = SlotAt(t)
  BY DEF Stale, SlotAt
<1>6. t \in Nat /\ its[i].last < t /\ t <= now
  BY <1>5, SizeAssumption
<1>7. caller[c].ts < t /\ t - caller[c].ts < Size
  BY <1>3, <1>4, <1>6, SizeAssumption
<1>8. SlotAt(caller[c].ts) # SlotAt(t)
  BY <1>3, <1>6, <1>7, SlotOf
<1> QED BY <1>2, <1>5, <1>8

\* So clearing them keeps the counters right.
LEMMA CleansTally ==
  ASSUME caller \in [Callers -> CallerState], NEW its, NEW now \in Nat, Seconds(caller, its, now), Tally(caller, its),
         NEW i \in DOMAIN its, its[i].last \in Nat, NEW n2 \in Nat, n2 <= now, NEW e, Cleans(its[i].doing, e, its[i].last, n2)
  PROVE  \A k \in Slots : e[k] = Wrap(Cardinality(Waiters(caller, i, k)))
<1> TAKE k \in Slots
<1>1. CASE k \in Stale(its[i].last, n2)
  <2>1. Cardinality(Waiters(caller, i, k)) = 0
    BY <1>1, Vacated, FS_EmptySet
  <2>2. e[k] = 0
    BY <1>1 DEF Cleans
  <2> QED BY <2>1, <2>2, Wraps
<1>2. CASE k \notin Stale(its[i].last, n2)
  BY <1>2 DEF Cleans, Tally
<1> QED BY <1>1, <1>2

\* Weighing, with no request being counted, keeps seconds and counters right.
LEMMA WeighsDoing ==
  ASSUME caller \in [Callers -> CallerState], time \in Nat, NEW its \in Seq(Item), NEW its2, DOMAIN its2 = DOMAIN its,
         Seconds(caller, its, time), Tally(caller, its), \A i \in DOMAIN its : Weighs(its[i], its2[i]),
         \A c \in Callers : caller[c].pc \notin InStats,
         \A c \in Callers : caller[c].pc \in Flying => caller[c].item \in DOMAIN its
  PROVE  Seconds(caller, its2, time) /\ Tally(caller, its2)
<1>1. \A i \in DOMAIN its : its[i].last \in Nat
  <2> TAKE i \in DOMAIN its
  <2> QED BY ItemFields
<1>2. \A i \in DOMAIN its : its2[i].last = its[i].last \/ its2[i].last = time
  BY DEF Weighs
<1>3. \A i \in DOMAIN its : its2[i].last <= time /\ its[i].last <= its2[i].last
  BY <1>1, <1>2 DEF Seconds
<1>4. ASSUME NEW c \in Callers, caller[c].pc = "waiting"
      PROVE  caller[c].ts <= its2[caller[c].item].last
  <2>1. caller[c].ts \in Nat /\ caller[c].item \in DOMAIN its
    BY <1>4, CallerKinds DEF Flying
  <2>2. caller[c].ts <= its[caller[c].item].last
    BY <1>4 DEF Seconds
  <2>3. its2[caller[c].item].last = its[caller[c].item].last \/ its2[caller[c].item].last = time
    BY <1>2, <2>1
  <2>4. caller[c].ts <= time
    BY <1>4 DEF Seconds, Flying
  <2> QED BY <2>2, <2>3, <2>4
<1>5. Seconds(caller, its2, time)
  BY <1>3, <1>4 DEF Seconds, InStats
<1>6. ASSUME NEW i \in DOMAIN its
      PROVE  \A k \in Slots : its2[i].doing[k] = Wrap(Cardinality(Waiters(caller, i, k)))
  <2>1. CASE its2[i] = its[i]
    BY <2>1 DEF Tally
  <2>2. CASE Cleans(its[i].doing, its2[i].doing, its[i].last, time)
    BY <1>1, <2>2, CleansTally
  <2> QED BY <2>1, <2>2 DEF Weighs
<1> QED BY <1>5, <1>6 DEF Tally
\* The items of requests under way.
LEMMA FlyingItems ==
  ASSUME Sorts, ListInv, NEW c \in Callers, caller[c].pc \in Flying
  PROVE  /\ caller[c].item \in DOMAIN items /\ items[caller[c].item] \in Item
         /\ items[caller[c].item].last \in Nat /\ caller[c].ts \in Nat
<1>1. caller[c].item \in DOMAIN items /\ items[caller[c].item] \in Item
  BY DEF ListInv, Pointers, Flying, Sorts
<1>2. items[caller[c].item].last \in Nat
  BY <1>1, ItemFields
<1>3. caller[c].ts \in Nat
  BY CallerKinds DEF Sorts
<1> QED BY <1>1, <1>2, <1>3

\* A second passes and no request is late.
LEMMA TickDoing ==
  ASSUME Sorts, ListInv, DoingInv, Tick
  PROVE  DoingInv'
<1>1. UNCHANGED <<bound, items, caller>> /\ time' = time + 1
      /\ late' = (late \/ \E c \in Callers : caller[c].pc \in {"stats", "clear", "stamp", "count", "waiting"}
                                             /\ time' - caller[c].ts >= Size)
  BY DEF Tick
<1> SUFFICES ASSUME bound.workers = 1, ~late'
             PROVE  Seconds(caller, items, time') /\ Tally(caller, items)
  BY <1>1 DEF DoingInv
<1>2. Flying = {"stats", "clear", "stamp", "count", "waiting"}
  BY DEF Flying, InStats
<1>3. Seconds(caller, items, time) /\ Tally(caller, items)
  BY <1>1 DEF DoingInv
<1>4. \A c \in Callers : caller[c].pc \in Flying => ~ (time' - caller[c].ts >= Size)
  BY <1>1, <1>2
<1>5. ASSUME NEW c \in Callers, caller[c].pc \in Flying
      PROVE  caller[c].ts <= time' /\ time' - caller[c].ts < Size
  <2>1. caller[c].ts \in Nat /\ time \in Nat /\ time' \in Nat /\ caller[c].ts <= time
    BY <1>1, <1>3, <1>5, FlyingItems DEF Seconds, Sorts
  <2> QED BY <1>1, <1>4, <1>5, <2>1, SizeAssumption
<1>6. \A i \in DOMAIN items : items[i].last <= time'
  <2> TAKE i \in DOMAIN items
  <2>1. items[i].last \in Nat
    BY ItemFields DEF Sorts
  <2>2. items[i].last <= time /\ time \in Nat
    BY <1>3 DEF Seconds, Sorts
  <2> QED BY <1>1, <2>1, <2>2
<1> QED BY <1>3, <1>5, <1>6 DEF Seconds

\* A stream connects, is lost or is closed.
LEMMA StateDoing ==
  ASSUME Sorts, ListInv, DoingInv, NEW i \in DOMAIN items, Toggle(i) \/ CloseItem(i)
  PROVE  DoingInv'
<1>1. UNCHANGED <<bound, caller, time, late>>
  BY DEF Toggle, CloseItem, clock
<1>2. PICK new \in Item : ItemStep(i, new) /\ new.last = items[i].last /\ new.doing = items[i].doing
  <2>1. items \in Seq(Item)
    BY DEF Sorts
  <2> QED BY <2>1, ToggleStep, CloseStep
<1>3. DOMAIN items' = DOMAIN items /\ \A j \in DOMAIN items : items'[j].last = items[j].last /\ items'[j].doing = items[j].doing
  <2>1. DOMAIN items = 1..Len(items) /\ DOMAIN items' = DOMAIN items
    BY <1>2 DEF ItemStep, Sorts
  <2>2. items'[i] = new /\ \A j \in DOMAIN items : j # i => items'[j] = items[j]
    BY <1>2, <2>1 DEF ItemStep
  <2> QED BY <1>2, <2>1, <2>2
<1> SUFFICES ASSUME bound.workers = 1, ~late
             PROVE  Seconds(caller, items', time) /\ Tally(caller, items')
  BY <1>1 DEF DoingInv
<1>4. Seconds(caller, items, time) /\ Tally(caller, items)
  BY DEF DoingInv
<1>5. \A c \in Callers : caller[c].pc \in Flying => items'[caller[c].item].last = items[caller[c].item].last
  BY <1>3, FlyingItems
<1>6. Seconds(caller, items', time)
  BY <1>3, <1>4, <1>5 DEF Seconds, Flying, InStats
<1>7. Tally(caller, items')
  BY <1>3, <1>4 DEF Tally
<1> QED BY <1>6, <1>7

\* A callback's update: new items count nobody, the others are weighed while no
\* request is being counted.
LEMMA UpdateDoing ==
  ASSUME Sorts, ListInv, Alone, DoingInv, NEW b \in Callbacks, Update(b)
  PROVE  DoingInv'
<1>1. UNCHANGED <<bound, caller, time, late>>
  BY DEF Update, clock
<1> SUFFICES ASSUME bound.workers = 1, ~late
             PROVE  Seconds(caller, items', time) /\ Tally(caller, items')
  BY <1>1 DEF DoingInv
<1>2. Seconds(caller, items, time) /\ Tally(caller, items)
  BY DEF DoingInv
<1>3. callback[b] # Idle
  BY UpdateStep, CallbackKinds DEF ListInv
<1>4. \A c \in Callers : caller[c].pc \notin InStats
  BY <1>3 DEF Alone, Active, InStats
<1>5. \E made, all, S : Extends(all, made) /\ items' = Weighed(all, S)
  BY UpdateStep DEF ListInv
<1>6. PICK made, all, S : Extends(all, made) /\ items' = Weighed(all, S)
  BY <1>5
<1>7. /\ all \in Seq(Item) /\ Len(all) >= Len(items) /\ Len(items) \in Nat /\ Len(all) \in Nat /\ time \in Nat
      /\ DOMAIN all = 1..Len(all) /\ DOMAIN items = 1..Len(items) /\ caller \in [Callers -> CallerState]
  BY <1>6 DEF Extends, Sorts
<1>8. DOMAIN items' = DOMAIN all /\ \A i \in DOMAIN all : Weighs(all[i], items'[i])
  BY <1>6, <1>7, WeighedItems
<1>9. \A c \in Callers : caller[c].pc \in Flying => caller[c].item \in DOMAIN items /\ caller[c].item \in DOMAIN all
                                                    /\ all[caller[c].item] = items[caller[c].item]
  BY <1>6, <1>7, FlyingItems DEF Extends
<1>10. Seconds(caller, all, time)
  <2>1. \A i \in DOMAIN all : all[i].last <= time
    <3> TAKE i \in DOMAIN all
    <3>1. CASE i \in DOMAIN items
      BY <1>2, <1>6, <1>7, <3>1 DEF Extends, Seconds
    <3>2. CASE i \notin DOMAIN items
      BY <1>6, <1>7, <3>2 DEF Extends, Fresh
    <3> QED BY <3>1, <3>2
  <2> QED BY <1>2, <1>4, <1>9, <2>1 DEF Seconds, Flying, InStats
<1>11. Tally(caller, all)
  <2>1. ASSUME NEW i \in DOMAIN all, NEW k \in Slots
        PROVE  all[i].doing[k] = Wrap(Cardinality(Waiters(caller, i, k)))
    <3>1. CASE i \in DOMAIN items
      BY <1>2, <1>6, <1>7, <3>1 DEF Extends, Tally
    <3>2. CASE i \notin DOMAIN items
      <4>1. all[i].doing[k] = 0
        BY <1>6, <1>7, <3>2 DEF Extends, Fresh
      <4>2. Waiters(caller, i, k) = {}
        BY <1>9, <3>2 DEF Waiters, Flying
      <4> QED BY <4>1, <4>2, FS_EmptySet, Wraps
    <3> QED BY <3>1, <3>2
  <2> QED BY <2>1 DEF Tally
<1> QED BY <1>4, <1>7, <1>8, <1>9, <1>10, <1>11, WeighsDoing
\* Seconds stay right when the one request that moves has one that fits.
LEMMA MovesSeconds ==
  ASSUME NEW its, NEW now, Seconds(caller, its, now), NEW c \in Callers, NEW h, Moves(c, h),
         h.pc \in Flying => h.ts <= now /\ now - h.ts < Size,
         h.pc \in InStats => its[h.item].last <= h.ts,
         h.pc = "count" => its[h.item].last = h.ts,
         h.pc = "waiting" => h.ts <= its[h.item].last
  PROVE  Seconds(caller', its, now)
<1>1. caller'[c] = h /\ \A d \in Callers : d # c => caller'[d] = caller[d]
  BY DEF Moves
<1> QED BY <1>1 DEF Seconds

\* Counters stay right while nobody begins or stops waiting.
LEMMA MovesTally ==
  ASSUME NEW its, Tally(caller, its), NEW c \in Callers, NEW h, Moves(c, h), caller[c].pc # "waiting", h.pc # "waiting"
  PROVE  Tally(caller', its)
<1>1. \A i, k : Waiters(caller', i, k) = Waiters(caller, i, k)
  BY WaitersSame DEF Moves
<1> QED BY <1>1 DEF Tally

\* A request that begins.
LEMMA AskDoing ==
  ASSUME Sorts, ListInv, DoingInv, NEW c \in Callers, Ask(c)
  PROVE  DoingInv'
<1>1. UNCHANGED <<bound, items, time, late>>
  BY DEF Ask, Requests, clock
<1> SUFFICES ASSUME bound.workers = 1, ~late
             PROVE  Seconds(caller', items, time) /\ Tally(caller', items)
  BY <1>1 DEF DoingInv
<1>2. Seconds(caller, items, time) /\ Tally(caller, items)
  BY DEF DoingInv
<1>3. CASE UNCHANGED caller
  BY <1>2, <1>3
<1>4. ASSUME NEW h \in CallerState, Moves(c, h), h.pc = "pick"
      PROVE  Seconds(caller', items, time) /\ Tally(caller', items)
  <2>1. caller[c].pc # "waiting"
    BY AskStep, IdleCaller
  <2>2. h.pc \notin Flying /\ h.pc \notin InStats /\ h.pc # "count" /\ h.pc # "waiting"
    BY <1>4 DEF Flying, InStats
  <2> QED BY <1>2, <1>4, <2>1, <2>2, MovesSeconds, MovesTally
<1> QED BY <1>3, <1>4, AskStep

\* A request that takes its item begins in this very second.
LEMMA PickDoing ==
  ASSUME Sorts, ListInv, Alone, DoingInv, NEW c \in Callers, Pick(c)
  PROVE  DoingInv'
<1>1. UNCHANGED <<bound, time, late>>
  BY DEF Pick, Requests, clock
<1> SUFFICES ASSUME bound.workers = 1, ~late
             PROVE  Seconds(caller', items', time) /\ Tally(caller', items')
  BY <1>1 DEF DoingInv
<1>2. Seconds(caller, items, time) /\ Tally(caller, items)
  BY DEF DoingInv
<1>3. /\ caller[c].pc = "pick"
      /\ \/ Moves(c, Idle)
         \/ \E h \in CallerState : Moves(c, h) /\ h.pc = "stats" /\ h.item \in DOMAIN items /\ h.ts = time
  <2>1. PICK new \in Balancer :
          LET old == balancers[caller[c].lb]
          IN  /\ new.ready \subseteq old.ready \cup ListedBy(old)
              /\ \/ Moves(c, Idle)
                 \/ \E h \in CallerState : Moves(c, h) /\ h.pc = "stats" /\ h.item \in new.ready /\ h.ts = time
    BY PickStep DEF ListInv
  <2>2. caller[c].pc = "pick" /\ caller[c].lb \in DOMAIN balancers
    BY PickStep DEF ListInv
  <2>3. balancers[caller[c].lb].ready \subseteq ListedBy(balancers[caller[c].lb])
        /\ ListedBy(balancers[caller[c].lb]) \subseteq DOMAIN items
    BY <2>2 DEF ListInv, Lists, ListedBy
  <2> QED BY <2>1, <2>2, <2>3
<1>4. \A d \in Callers : caller[d].pc \notin InStats
  <2>1. Active(c)
    BY <1>3 DEF Active
  <2>2. \A d \in Callers : Active(d) => d = c
    BY <2>1 DEF Alone
  <2> QED BY <1>3, <2>2 DEF Active, InStats
<1>5. PICK S : items' = Weighed(items, S)
  BY PickStep DEF ListInv
<1>6. /\ items \in Seq(Item) /\ time \in Nat /\ DOMAIN items = 1..Len(items) /\ caller \in [Callers -> CallerState]
  BY DEF Sorts
<1>7. DOMAIN items' = DOMAIN items /\ \A i \in DOMAIN items : Weighs(items[i], items'[i])
  BY <1>5, <1>6, WeighedItems
<1>8. \A d \in Callers : caller[d].pc \in Flying => caller[d].item \in DOMAIN items
  BY FlyingItems
<1>9. Seconds(caller, items', time) /\ Tally(caller, items')
  BY <1>2, <1>4, <1>6, <1>7, <1>8, WeighsDoing
<1>10. CASE Moves(c, Idle)
  BY <1>3, <1>9, <1>10, IdleCaller, MovesSeconds, MovesTally DEF Flying, InStats
<1>11. ASSUME NEW h \in CallerState, Moves(c, h), h.pc = "stats", h.item \in DOMAIN items, h.ts = time
       PROVE  Seconds(caller', items', time) /\ Tally(caller', items')
  <2>1. items'[h.item].last <= h.ts
    BY <1>7, <1>9, <1>11 DEF Seconds
  <2>2. h.ts <= time /\ time - h.ts < Size
    BY <1>6, <1>11, SizeAssumption
  <2> QED BY <1>3, <1>9, <1>11, <2>1, <2>2, MovesSeconds, MovesTally
<1> QED BY <1>3, <1>10, <1>11

\* The second is compared: a request that need not clear has that of its item.
LEMMA TestDoing ==
  ASSUME Sorts, ListInv, DoingInv, NEW c \in Callers, TestTime(c)
  PROVE  DoingInv'
<1>1. UNCHANGED <<bound, items, time, late>>
  BY DEF TestTime, Requests, clock
<1> SUFFICES ASSUME bound.workers = 1, ~late
             PROVE  Seconds(caller', items, time) /\ Tally(caller', items)
  BY <1>1 DEF DoingInv
<1>2. Seconds(caller, items, time) /\ Tally(caller, items)
  BY DEF DoingInv
<1>3. PICK h \in CallerState :
        /\ Moves(c, h) /\ caller[c].pc = "stats" /\ h.item = caller[c].item /\ h.ts = caller[c].ts
        /\ h.pc \in {"clear", "count"} /\ (h.pc = "count" => ~ (items[caller[c].item].last < caller[c].ts))
  BY TestStep DEF Flight
<1>4. caller[c].pc \in Flying /\ caller[c].pc \in InStats
  BY <1>3 DEF Flying, InStats
<1>5. items[caller[c].item].last \in Nat /\ caller[c].ts \in Nat
  BY <1>4, FlyingItems
<1>6. /\ caller[c].ts <= time /\ time - caller[c].ts < Size
      /\ items[caller[c].item].last <= caller[c].ts
  BY <1>2, <1>4 DEF Seconds
<1>7. h.pc = "count" => items[h.item].last = h.ts
  BY <1>3, <1>5, <1>6
<1> QED BY <1>2, <1>3, <1>6, <1>7, MovesSeconds, MovesTally

\* The slots of the seconds passed are cleared.
LEMMA ClearDoing ==
  ASSUME Sorts, ListInv, DoingInv, NEW c \in Callers, ClearSlots(c)
  PROVE  DoingInv'
<1> DEFINE i == caller[c].item
<1>1. UNCHANGED <<bound, time, late>>
  BY DEF ClearSlots, Requests, clock
<1> SUFFICES ASSUME bound.workers = 1, ~late
             PROVE  Seconds(caller', items', time) /\ Tally(caller', items')
  BY <1>1 DEF DoingInv
<1>2. Seconds(caller, items, time) /\ Tally(caller, items)
  BY DEF DoingInv
<1>3. PICK new \in Item : ItemStep(i, new) /\ new.last = items[i].last
                          /\ Cleans(items[i].doing, new.doing, items[i].last, caller[c].ts)
  BY ClearStep DEF ListInv
<1>4. PICK h \in CallerState : Moves(c, h) /\ caller[c].pc = "clear" /\ h.pc = "stamp" /\ h.item = i /\ h.ts = caller[c].ts
  BY ClearStep DEF ListInv, Flight
<1>5. caller[c].pc \in Flying /\ caller[c].pc \in InStats
  BY <1>4 DEF Flying, InStats
<1>6. i \in DOMAIN items /\ items[i].last \in Nat /\ caller[c].ts \in Nat
  BY <1>5, FlyingItems
<1>7. caller[c].ts <= time /\ time - caller[c].ts < Size /\ items[i].last <= caller[c].ts
  BY <1>2, <1>5 DEF Seconds
<1>8. DOMAIN items' = DOMAIN items /\ items'[i] = new /\ \A j \in DOMAIN items : j # i => items'[j] = items[j]
  BY <1>3 DEF ItemStep, Sorts
<1> HIDE DEF i
<1>9. \A j \in DOMAIN items : items'[j].last = items[j].last
  BY <1>3, <1>8
<1>10. Seconds(caller, items', time)
  <2>1. \A d \in Callers : caller[d].pc \in Flying => items'[caller[d].item].last = items[caller[d].item].last
    BY <1>9, FlyingItems
  <2> QED BY <1>2, <1>8, <1>9, <2>1 DEF Seconds, Flying, InStats
<1>11. Tally(caller, items')
  <2>1. \A k \in Slots : new.doing[k] = Wrap(Cardinality(Waiters(caller, i, k)))
    <3>1. time \in Nat /\ caller \in [Callers -> CallerState]
      BY DEF Sorts
    <3> QED BY <1>2, <1>3, <1>6, <1>7, <3>1, CleansTally
  <2> QED BY <1>2, <1>8, <2>1 DEF Tally
<1>12. h.pc \notin {"count", "waiting"} /\ items'[h.item].last <= h.ts
  BY <1>4, <1>6, <1>7, <1>9
<1> QED BY <1>4, <1>7, <1>10, <1>11, <1>12, MovesSeconds, MovesTally
\* The item is at the second of the request; whoever is counted began before.
LEMMA StampDoing ==
  ASSUME Sorts, ListInv, Alone, DoingInv, NEW c \in Callers, Stamp(c)
  PROVE  DoingInv'
<1> DEFINE i == caller[c].item
<1>1. UNCHANGED <<bound, time, late>>
  BY DEF Stamp, Requests, clock
<1> SUFFICES ASSUME bound.workers = 1, ~late
             PROVE  Seconds(caller', items', time) /\ Tally(caller', items')
  BY <1>1 DEF DoingInv
<1>2. Seconds(caller, items, time) /\ Tally(caller, items)
  BY DEF DoingInv
<1>3. PICK new \in Item : ItemStep(i, new) /\ new.last = caller[c].ts /\ new.doing = items[i].doing
  BY StampStep DEF ListInv
<1>4. PICK h \in CallerState : Moves(c, h) /\ caller[c].pc = "stamp" /\ h.pc = "count" /\ h.item = i /\ h.ts = caller[c].ts
  BY StampStep DEF ListInv, Flight
<1>5. caller[c].pc \in Flying /\ caller[c].pc \in InStats /\ Active(c)
  BY <1>4 DEF Flying, InStats, Active
<1>6. i \in DOMAIN items /\ items[i].last \in Nat /\ caller[c].ts \in Nat
  BY <1>5, FlyingItems
<1>7. caller[c].ts <= time /\ time - caller[c].ts < Size /\ items[i].last <= caller[c].ts
  BY <1>2, <1>5 DEF Seconds
<1>8. DOMAIN items' = DOMAIN items /\ items'[i] = new /\ \A j \in DOMAIN items : j # i => items'[j] = items[j]
  BY <1>3 DEF ItemStep, Sorts
<1> HIDE DEF i
<1>9. caller'[c] = h /\ \A d \in Callers : d # c => caller'[d] = caller[d] /\ caller[d].pc \notin InStats
  <2>1. \A d \in Callers : d # c => caller[d].pc \notin InStats
    BY <1>5 DEF Alone, Active, InStats
  <2> QED BY <1>4, <2>1 DEF Moves
<1>10. \A d \in Callers : caller'[d].pc \in Flying => caller'[d].ts <= time /\ time - caller'[d].ts < Size
  BY <1>2, <1>4, <1>7, <1>9 DEF Seconds
<1>11. \A j \in DOMAIN items' : items'[j].last <= time
  BY <1>2, <1>3, <1>7, <1>8 DEF Seconds
<1>12. \A d \in Callers : caller'[d].pc \in InStats => d = c
  BY <1>9
<1>13. h.pc = "count" /\ items'[h.item].last = h.ts /\ items'[h.item].last <= h.ts
  BY <1>3, <1>4, <1>6, <1>8
<1>14. ASSUME NEW d \in Callers, caller'[d].pc = "waiting"
       PROVE  caller'[d].ts <= items'[caller'[d].item].last
  <2>1. d # c /\ caller'[d] = caller[d] /\ caller[d].pc = "waiting" /\ caller[d].pc \in Flying
    BY <1>4, <1>9, <1>14 DEF Flying
  <2>2. caller[d].item \in DOMAIN items /\ caller[d].ts \in Nat /\ items[caller[d].item].last \in Nat
    BY <2>1, FlyingItems
  <2>3. caller[d].ts <= items[caller[d].item].last
    BY <1>2, <2>1 DEF Seconds
  <2>4. CASE caller[d].item = i
    BY <1>3, <1>6, <1>7, <1>8, <2>1, <2>2, <2>3, <2>4
  <2>5. CASE caller[d].item # i
    BY <1>8, <2>1, <2>2, <2>3, <2>5
  <2> QED BY <2>4, <2>5
<1>15. Seconds(caller', items', time)
  BY <1>9, <1>10, <1>11, <1>12, <1>13, <1>14 DEF Seconds, InStats
<1>16. Tally(caller, items')
  BY <1>2, <1>3, <1>8 DEF Tally
<1>17. Tally(caller', items')
  BY <1>4, <1>16, MovesTally
<1> QED BY <1>15, <1>17

\* When one item's counter changes, its second stays.
LEMMA CounterSeconds ==
  ASSUME Sorts, ListInv, Seconds(caller, items, time), NEW i \in DOMAIN items, NEW new \in Item, ItemStep(i, new),
         new.last = items[i].last
  PROVE  Seconds(caller, items', time)
<1>1. DOMAIN items' = DOMAIN items /\ \A j \in DOMAIN items : items'[j].last = items[j].last
  <2>1. items \in Seq(Item)
    BY DEF Sorts
  <2>2. DOMAIN items' = DOMAIN items /\ items'[i] = new /\ \A j \in DOMAIN items : j # i => items'[j] = items[j]
    BY <2>1 DEF ItemStep
  <2> QED BY <2>2
<1>2. \A d \in Callers : caller[d].pc \in Flying => items'[caller[d].item].last = items[caller[d].item].last
  BY <1>1, FlyingItems
<1> QED BY <1>1, <1>2 DEF Seconds, Flying, InStats

\* The counter of the second goes up, and one request more waits.
LEMMA CountDoing ==
  ASSUME Sorts, ListInv, DoingInv, NEW c \in Callers, Count(c)
  PROVE  DoingInv'
<1> DEFINE i == caller[c].item
           s == SlotAt(caller[c].ts)
<1>1. UNCHANGED <<bound, time, late>>
  BY DEF Count, Requests, clock
<1> SUFFICES ASSUME bound.workers = 1, ~late
             PROVE  Seconds(caller', items', time) /\ Tally(caller', items')
  BY <1>1 DEF DoingInv
<1>2. Seconds(caller, items, time) /\ Tally(caller, items)
  BY DEF DoingInv
<1>3. PICK new \in Item : ItemStep(i, new) /\ new.last = items[i].last
                          /\ Counts(items[i].doing, new.doing, s, Wrap(items[i].doing[s] + 1))
  BY CountStep DEF ListInv
<1>4. PICK h \in CallerState : Moves(c, h) /\ caller[c].pc = "count" /\ h.pc = "waiting" /\ h.item = i /\ h.ts = caller[c].ts
  BY CountStep DEF ListInv, Flight
<1>5. caller[c].pc \in Flying /\ caller[c].pc \in InStats
  BY <1>4 DEF Flying, InStats
<1>6. i \in DOMAIN items /\ items[i].last \in Nat /\ caller[c].ts \in Nat /\ s \in Slots
  BY <1>5, FlyingItems, SlotOf
<1>7. caller[c].ts <= time /\ time - caller[c].ts < Size /\ items[i].last = caller[c].ts
  BY <1>2, <1>4, <1>5 DEF Seconds
<1>8. DOMAIN items' = DOMAIN items /\ items'[i] = new /\ \A j \in DOMAIN items : j # i => items'[j] = items[j]
  BY <1>3 DEF ItemStep, Sorts
<1>9. SlotAt(h.ts) = s
  BY <1>4
<1> HIDE DEF i, s
<1>10. Seconds(caller, items', time)
  BY <1>2, <1>3, <1>6, CounterSeconds
<1>11. h.pc \notin InStats /\ h.pc # "count" /\ h.ts <= items'[h.item].last /\ h.ts <= time /\ time - h.ts < Size
  BY <1>3, <1>4, <1>6, <1>7, <1>8 DEF InStats
<1>12. Seconds(caller', items', time)
  BY <1>4, <1>10, <1>11, MovesSeconds
<1>13. ASSUME NEW j, NEW k
       PROVE  Cardinality(Waiters(caller', j, k)) = Cardinality(Waiters(caller, j, k)) + (IF i = j /\ s = k THEN 1 ELSE 0)
  <2>1. caller'[c] = h /\ \A d \in Callers : d # c => caller'[d] = caller[d]
    BY <1>4 DEF Moves
  <2>2. caller[c].pc # "waiting" /\ caller'[c].pc = "waiting"
    BY <1>4, <2>1
  <2>3. Cardinality(Waiters(caller', j, k)) =
          Cardinality(Waiters(caller, j, k)) + (IF caller'[c].item = j /\ SlotAt(caller'[c].ts) = k THEN 1 ELSE 0)
    BY <2>1, <2>2, WaitersMore
  <2>4. caller'[c].item = i /\ SlotAt(caller'[c].ts) = s
    BY <1>4, <1>9, <2>1
  <2> QED BY <2>3, <2>4
<1>14. ASSUME NEW j \in DOMAIN items, NEW k \in Slots
       PROVE  items'[j].doing[k] = Wrap(Cardinality(Waiters(caller', j, k)))
  <2> DEFINE n == Cardinality(Waiters(caller, j, k))
  <2>1. n \in Nat /\ items[j].doing[k] = Wrap(n)
    BY <1>2, WaitersFinite DEF Tally
  <2>2. Cardinality(Waiters(caller', j, k)) = n + (IF i = j /\ s = k THEN 1 ELSE 0)
    BY <1>13
  <2> HIDE DEF n
  <2>3. CASE i = j /\ s = k
    <3>1. items'[j].doing[k] = Wrap(Wrap(n) + 1)
      BY <1>3, <1>8, <2>1, <2>3 DEF Counts
    <3>2. Wrap(Wrap(n) + 1) = Wrap(n + 1)
      BY <2>1, Wraps
    <3> QED BY <2>2, <2>3, <3>1, <3>2
  <2>4. CASE ~ (i = j /\ s = k)
    <3>1. items'[j].doing[k] = items[j].doing[k]
      BY <1>3, <1>8, <2>4 DEF Counts
    <3>2. Cardinality(Waiters(caller', j, k)) = n
      BY <2>1, <2>2, <2>4
    <3> QED BY <2>1, <3>1, <3>2
  <2> QED BY <2>3, <2>4
<1>15. Tally(caller', items')
  BY <1>8, <1>14 DEF Tally
<1> QED BY <1>12, <1>15

\* The counter of the second a request began in goes down when it ends.
LEMMA AnswerDoing ==
  ASSUME Sorts, ListInv, DoingInv, NEW c \in Callers, Answer(c)
  PROVE  DoingInv'
<1> DEFINE i == caller[c].item
           s == SlotAt(caller[c].ts)
<1>1. UNCHANGED <<bound, time, late>>
  BY DEF Answer, Requests, clock
<1> SUFFICES ASSUME bound.workers = 1, ~late
             PROVE  Seconds(caller', items', time) /\ Tally(caller', items')
  BY <1>1 DEF DoingInv
<1>2. Seconds(caller, items, time) /\ Tally(caller, items)
  BY DEF DoingInv
<1>3. PICK new \in Item : ItemStep(i, new) /\ new.last = items[i].last
                          /\ Counts(items[i].doing, new.doing, s, Wrap(items[i].doing[s] - 1))
  BY AnswerStep DEF ListInv
<1>4. caller[c].pc = "waiting" /\ Moves(c, Idle)
  BY AnswerStep DEF ListInv
<1>5. caller[c].pc \in Flying
  BY <1>4 DEF Flying
<1>6. i \in DOMAIN items /\ caller[c].ts \in Nat /\ s \in Slots
  BY <1>5, FlyingItems, SlotOf
<1>7. DOMAIN items' = DOMAIN items /\ items'[i] = new /\ \A j \in DOMAIN items : j # i => items'[j] = items[j]
  BY <1>3 DEF ItemStep, Sorts
<1> HIDE DEF i, s
<1>8. Seconds(caller, items', time)
  BY <1>2, <1>3, <1>6, CounterSeconds
<1>9. Idle.pc \notin Flying /\ Idle.pc \notin InStats /\ Idle.pc # "count" /\ Idle.pc # "waiting"
  BY DEF Idle, Flying, InStats
<1>10. Seconds(caller', items', time)
  BY <1>4, <1>8, <1>9, MovesSeconds
<1>11. ASSUME NEW j, NEW k
       PROVE  Cardinality(Waiters(caller, j, k)) = Cardinality(Waiters(caller', j, k)) + (IF i = j /\ s = k THEN 1 ELSE 0)
  <2>1. caller'[c] = Idle /\ \A d \in Callers : d # c => caller[d] = caller'[d]
    BY <1>4 DEF Moves
  <2> QED BY <1>4, <1>9, <2>1, WaitersMore DEF i, s
<1>12. ASSUME NEW j \in DOMAIN items, NEW k \in Slots
       PROVE  items'[j].doing[k] = Wrap(Cardinality(Waiters(caller', j, k)))
  <2> DEFINE n == Cardinality(Waiters(caller, j, k))
             m == Cardinality(Waiters(caller', j, k))
  <2>1. n \in Nat /\ m \in Nat /\ items[j].doing[k] = Wrap(n)
    BY <1>2, WaitersFinite DEF Tally
  <2>2. n = m + (IF i = j /\ s = k THEN 1 ELSE 0)
    BY <1>11
  <2> HIDE DEF n, m
  <2>3. CASE i = j /\ s = k
    <3>1. items'[j].doing[k] = Wrap(Wrap(n) - 1)
      BY <1>3, <1>7, <2>1, <2>3 DEF Counts
    <3>2. Wrap(Wrap(n) - 1) = Wrap(n - 1)
      BY <2>1, Wraps
    <3>3. n - 1 = m
      BY <2>1, <2>2, <2>3
    <3>4. items'[j].doing[k] = Wrap(m)
      BY <3>1, <3>2, <3>3
    <3> QED BY <3>4 DEF m
  <2>4. CASE ~ (i = j /\ s = k)
    <3>1. items'[j].doing[k] = items[j].doing[k]
      BY <1>3, <1>7, <2>4 DEF Counts
    <3>2. n = m
      BY <2>1, <2>2, <2>4
    <3>3. items'[j].doing[k] = Wrap(m)
      BY <2>1, <3>1, <3>2
    <3> QED BY <3>3 DEF m
  <2> QED BY <2>3, <2>4
<1>13. Tally(caller', items')
  BY <1>7, <1>12 DEF Tally
<1> QED BY <1>10, <1>13

\* Every step.
LEMMA DoingStep == Sorts /\ ListInv /\ Alone /\ DoingInv /\ [Next]_vars => DoingInv'
<1> SUFFICES ASSUME Sorts, ListInv, Alone, DoingInv, [Next]_vars PROVE DoingInv'
  OBVIOUS
<1>1. CASE UNCHANGED <<bound, items, caller, time, late>>
  BY <1>1 DEF DoingInv
<1>2. ASSUME \/ UNCHANGED vars
             \/ \E n \in Nodes : Provide(n)
             \/ \E b \in Callbacks : ReadChildren(b) \/ SwapDatas(b) \/ GetBalancer(b) \/ InsertBalancer(b)
      PROVE  DoingInv'
  <2>1. UNCHANGED <<bound, items, caller, time, late>>
    BY <1>2 DEF vars, Provide, ReadChildren, SwapDatas, GetBalancer, InsertBalancer, clock
  <2> QED BY <1>1, <2>1
<1>3. ASSUME NEW b \in Callbacks, Update(b)
      PROVE  DoingInv'
  BY <1>3, UpdateDoing
<1>4. ASSUME NEW i \in DOMAIN items, Toggle(i) \/ CloseItem(i)
      PROVE  DoingInv'
  BY <1>4, StateDoing
<1>5. ASSUME NEW c \in Callers,
             Ask(c) \/ Pick(c) \/ TestTime(c) \/ ClearSlots(c) \/ Stamp(c) \/ Count(c) \/ Answer(c)
      PROVE  DoingInv'
  BY <1>5, AskDoing, PickDoing, TestDoing, ClearDoing, StampDoing, CountDoing, AnswerDoing
<1>6. CASE Tick
  BY <1>6, TickDoing
<1> QED BY <1>2, <1>3, <1>4, <1>5, <1>6 DEF Next

\* What holds on one worker while no request is late holds always.
LEMMA SpecDoing == Spec => [](Sorts /\ ListInv /\ Alone /\ DoingInv)
<1>1. Init => Sorts /\ ListInv /\ Alone /\ DoingInv
  <2> SUFFICES ASSUME Init PROVE Sorts /\ ListInv /\ Alone /\ DoingInv
    OBVIOUS
  <2>1. Sorts /\ ListInv
    BY InitBase
  <2>2. (\A b \in Callbacks : callback[b] = Idle) /\ (\A c \in Callers : caller[c].pc = "idle") /\ DOMAIN items = {}
    BY DEF Init, Idle
  <2>3. Alone
    BY <2>2 DEF Alone, Active
  <2>4. DoingInv
    BY <2>2 DEF DoingInv, Seconds, Tally, Flying, InStats
  <2> QED BY <2>1, <2>3, <2>4
<1>2. (Sorts /\ ListInv /\ Alone /\ DoingInv) /\ [Next]_vars => (Sorts /\ ListInv /\ Alone /\ DoingInv)'
  BY BaseStep, AloneStep, DoingStep
<1> QED BY <1>1, <1>2, PTL DEF Spec

\* On one worker, as long as no request has lasted as many seconds as there are
\* slots, every counter is exactly the number of requests under way that began in
\* its second, whatever the number of slots, the width of a counter and the
\* number of requests, and although the slots are cleared without a lock while
\* requests are under way (HolderStatsSet::init, RockSDLoadBalance::request).
THEOREM Exact == Spec => []DoingExact
<1>1. DoingInv => DoingExact
  <2> SUFFICES ASSUME DoingInv, bound.workers = 1, ~late, NEW i \in DOMAIN items, NEW k \in Slots
               PROVE  items[i].doing[k] =
                        Wrap(Cardinality({c \in Callers : caller[c].pc = "waiting" /\ caller[c].item = i /\ caller[c].ts % Size = k}))
    BY DEF DoingExact
  <2>1. items[i].doing[k] = Wrap(Cardinality(Waiters(caller, i, k)))
    BY DEF DoingInv, Tally
  <2> QED BY <2>1 DEF Waiters, SlotAt
<1> QED BY <1>1, SpecDoing, PTL
=============================================================================
