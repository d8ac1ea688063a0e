-------------------------- MODULE NameServerProofs --------------------------
(***************************************************************************)
(* The registry of the name server, for every number of sessions, domains, *)
(* commands, nodes, weights and workers:                                   *)
(*   - the types.  Objects are shared by nobody who should not share them: *)
(*     a domain object is in the index once, a node set in one domain      *)
(*     once, and what a handler has made and not yet installed is its own  *)
(*     (HandInv, ObjInv, HoldInv);                                         *)
(*   - if every session has a node of its own, it leaves no entry behind   *)
(*     when its calls have ended (GhostInv);                               *)
(*   - on one worker, what is listed is what is registered (ExactInv).     *)
(* A step of a handler h to h2 falls under one of the twelve kinds of      *)
(* Step(h, h2, n); the invariants are proved over those.                   *)
(***************************************************************************)
EXTENDS NameServer, FiniteSetTheorems, SequenceTheorems, TLAPS

SetPlaces == {"addSet", "addNode", "delNode", "size", "delSet"}
Places    == {"domain", "addDomain", "cmd"} \cup SetPlaces

Handler == [pc : Places, new : Info \cup {None}, todo : Seq(Item), d : Nat, s : Nat]

HasDomain(h) == h.pc \notin {"idle", "domain"}
HasSet(h)    == h.pc \in SetPlaces
Dom(h)       == Head(h.todo).domain

\* A deletion is of commands the new registration has not, an addition of commands it has.
ItemOK(new, i) ==
  /\ i.cmds # {}
  /\ i.op = "add" => new # None /\ i.cmds \subseteq new.cmds[i.domain]
  /\ i.op = "del" => i.cmds \cap CmdsOf(new)[i.domain] = {}

\* What a handler holds where it is.
HandlerOK(h) ==
  /\ h \in Handler
  /\ h.pc # "domain" => h.todo # <<>>
  /\ h.pc = "domain" => h.d = 0
  /\ ~HasSet(h) => h.s = 0
  /\ h.pc \in {"addDomain", "addSet", "addNode"} => Head(h.todo).op = "add"
  /\ h.pc \in {"delNode", "size", "delSet"} => Head(h.todo).op = "del"
  /\ \A i \in 1..Len(h.todo) : ItemOK(h.new, h.todo[i])

HandInv ==
  /\ handlers \in [Sessions -> [Calls -> Handler \cup {Idle}]]
  /\ \A s \in Sessions : \A k \in Calls : Busy(s, k) => HandlerOK(handlers[s][k])

\* A domain object is in the index once, a node set in one domain once.
ObjInv ==
  /\ index \in [Domains -> 0..Len(domains)]
  /\ domains \in Seq([Cmds -> 0..Len(sets)])
  /\ sets \in Seq([Nodes -> Weights \cup {0}])
  /\ \A d, e \in Domains : index[d] = index[e] /\ index[d] # 0 => d = e
  /\ \A x, y \in 1..Len(domains) : \A c, b \in Cmds :
       domains[x][c] = domains[y][b] /\ domains[x][c] # 0 => x = y /\ c = b

\* What a handler holds is, if anywhere, where the handler has looked for it.
PointAt(h) ==
  /\ HasDomain(h) => /\ h.d \in 1..Len(domains)
                     /\ \A d \in Domains : index[d] = h.d => d = Dom(h)
  /\ HasSet(h) => /\ h.s \in 1..Len(sets)
                  /\ \A x \in 1..Len(domains) : \A c \in Cmds :
                       domains[x][c] = h.s => x = h.d /\ c = CmdOf(h)

\* What a handler has made and not installed yet is empty and in no table, ...
FreshAt(h) ==
  /\ h.pc = "addDomain" => /\ \A d \in Domains : index[d] # h.d
                           /\ \A c \in Cmds : domains[h.d][c] = 0
  /\ h.pc = "addSet" => /\ \A x \in 1..Len(domains) : \A c \in Cmds : domains[x][c] # h.s
                        /\ \A n \in Nodes : sets[h.s][n] = 0

\* ... and no other handler g holds it.
Apart(h, g) ==
  /\ h.pc = "addDomain" /\ HasDomain(g) => g.d # h.d
  /\ h.pc = "addSet" /\ HasSet(g) => g.s # h.s

HoldInv ==
  \A s \in Sessions : \A k \in Calls :
    /\ PointAt(handlers[s][k]) /\ FreshAt(handlers[s][k])
    /\ \A u \in Sessions : \A j \in Calls :
         <<u, j>> # <<s, k>> => Apart(handlers[s][k], handlers[u][j])

\* The rest of the types.
RestOK ==
  /\ workers \in Workers
  /\ info \in [Sessions -> Info \cup {None}]
  /\ connected \in [Sessions -> BOOLEAN]
  /\ registers \in 0..MaxRegisters[workers]
  /\ expelled \subseteq Sessions /\ overlapped \subseteq Sessions

RegistryInv == HandInv /\ ObjInv /\ HoldInv /\ RestOK

\* The weight registration i has for command c of domain d.
Weight(i, d, c)  == IF i # None /\ c \in i.cmds[d] THEN i.weight ELSE 0
Pending(h, d, c) == \E i \in 1..Len(h.todo) : h.todo[i].domain = d /\ c \in h.todo[i].cmds

\* A handler h of a session whose node is n and registration was i: what is listed is 0,
\* or as before, or, where the handler has been, as registered now.  What it has looked
\* up and another has replaced since lists nothing.
OwnAt(h, i, n) ==
  /\ \A d \in Domains : \A c \in Cmds :
       /\ Listed(d, c, n) \in {0, Weight(i, d, c), Weight(h.new, d, c)}
       /\ ~Pending(h, d, c) => Listed(d, c, n) \in {0, Weight(h.new, d, c)}
  /\ HasDomain(h) /\ h.pc # "addDomain" /\ index[Dom(h)] # h.d =>
       \A c \in Cmds : Listed(Dom(h), c, n) = 0
  /\ HasSet(h) /\ h.pc # "addSet" /\ domains[h.d][CmdOf(h)] # h.s =>
       Listed(Dom(h), CmdOf(h), n) = 0
  /\ h.pc \in {"size", "delSet"} => Listed(Dom(h), CmdOf(h), n) = 0

RestsAt(i, n) == \A d \in Domains : \A c \in Cmds : Listed(d, c, n) \in {0, Weight(i, d, c)}

\* A session whose calls have not met.
GhostAt(s) ==
  /\ (\A k \in Calls : ~Busy(s, k)) => RestsAt(info[s], NodeOf[s])
  /\ \A k \in Calls : Busy(s, k) =>
       /\ \A j \in Calls : Busy(s, j) => j = k
       /\ OwnAt(handlers[s][k], info[s], NodeOf[s])
       /\ k = "close" => handlers[s][k].new = None
  /\ ~connected[s] /\ s \notin expelled =>
       info[s] = None /\ \A k \in Calls : Busy(s, k) => handlers[s][k].new = None

GhostInv == \A s \in Sessions \ overlapped : GhostAt(s)

\* On one worker one handler runs at a time: it has what it looked up still before it,
\* and what it is not going to change is as registered.
SoleAt(h, n) ==
  /\ \A d \in Domains : \A c \in Cmds :
       ~Pending(h, d, c) => Listed(d, c, n) = Weight(h.new, d, c)
  /\ HasDomain(h) => index[Dom(h)] = IF h.pc = "addDomain" THEN 0 ELSE h.d
  /\ HasSet(h) => domains[h.d][CmdOf(h)] = IF h.pc = "addSet" THEN 0 ELSE h.s
  /\ h.pc \in {"size", "delSet"} => sets[h.s][n] = 0
  /\ h.pc = "delSet" => \A m \in Nodes : sets[h.s][m] = 0

ListsAt(i, n) == \A d \in Domains : \A c \in Cmds : Listed(d, c, n) = Weight(i, d, c)

ExactInv ==
  /\ \A s, u \in Sessions : \A k, j \in Calls : Busy(s, k) /\ Busy(u, j) => s = u /\ k = j
  /\ \A s \in Sessions : (\A k \in Calls : ~Busy(s, k)) => ListsAt(info[s], NodeOf[s])
  /\ \A s \in Sessions : \A k \in Calls : Busy(s, k) => SoleAt(handlers[s][k], NodeOf[s])

---------------------------------------------------------------------------
(* The steps of set() *)

\* The handler goes on at place p with the same list, domain object x and node set y.
GoesOn(h, h2, p, x, y) ==
  h2.pc = p /\ h2.new = h.new /\ h2.todo = h.todo /\ h2.d = x /\ h2.s = y

\* It has done with the commands C of the head of its list.
Drops(h, h2, C) ==
  /\ HandlerOK(h2) /\ h2.new = h.new
  /\ \/ h2.pc = "domain"
     \/ h2.pc = "cmd" /\ HasDomain(h) /\ h2.d = h.d /\ Dom(h2) = Dom(h)
  /\ \A d \in Domains : \A c \in Cmds :
       Pending(h, d, c) => Pending(h2, d, c) \/ (d = Dom(h) /\ c \in C)

FindsDomain(h, h2) ==
  /\ h.pc = "domain" /\ index[Dom(h)] # 0
  /\ GoesOn(h, h2, "cmd", index[Dom(h)], 0)
  /\ UNCHANGED shared
MissesDomain(h, h2) ==
  /\ h.pc = "domain" /\ index[Dom(h)] = 0 /\ Head(h.todo).op = "del"
  /\ Drops(h, h2, Head(h.todo).cmds) /\ h2.pc = "domain"
  /\ UNCHANGED shared
MakesDomain(h, h2) ==
  /\ h.pc = "domain" /\ index[Dom(h)] = 0 /\ Head(h.todo).op = "add"
  /\ GoesOn(h, h2, "addDomain", Len(domains) + 1, 0)
  /\ domains' = Append(domains, [c \in Cmds |-> 0]) /\ UNCHANGED <<index, sets>>
AddsDomain(h, h2) ==
  /\ h.pc = "addDomain"
  /\ GoesOn(h, h2, "cmd", h.d, 0)
  /\ index' = [index EXCEPT ![Dom(h)] = h.d] /\ UNCHANGED <<domains, sets>>
FindsSet(h, h2) ==
  /\ h.pc = "cmd" /\ domains[h.d][CmdOf(h)] # 0
  /\ GoesOn(h, h2, IF Head(h.todo).op = "del" THEN "delNode" ELSE "addNode",
           h.d, domains[h.d][CmdOf(h)])
  /\ UNCHANGED shared
MissesSet(h, h2) ==
  /\ h.pc = "cmd" /\ domains[h.d][CmdOf(h)] = 0 /\ Head(h.todo).op = "del"
  /\ Drops(h, h2, {CmdOf(h)})
  /\ UNCHANGED shared
MakesSet(h, h2) ==
  /\ h.pc = "cmd" /\ domains[h.d][CmdOf(h)] = 0 /\ Head(h.todo).op = "add"
  /\ GoesOn(h, h2, "addSet", h.d, Len(sets) + 1)
  /\ sets' = Append(sets, [n \in Nodes |-> 0]) /\ UNCHANGED <<index, domains>>
AddsSet(h, h2) ==
  /\ h.pc = "addSet"
  /\ GoesOn(h, h2, "addNode", h.d, h.s)
  /\ domains' = [domains EXCEPT ![h.d][CmdOf(h)] = h.s] /\ UNCHANGED <<index, sets>>
AddsNode(h, h2, n) ==
  /\ h.pc = "addNode"
  /\ Drops(h, h2, {CmdOf(h)})
  /\ sets' = [sets EXCEPT ![h.s][n] = h.new.weight] /\ UNCHANGED <<index, domains>>
DelsNode(h, h2, n) ==
  /\ h.pc = "delNode"
  /\ GoesOn(h, h2, "size", h.d, h.s)
  /\ sets' = [sets EXCEPT ![h.s][n] = 0] /\ UNCHANGED <<index, domains>>
TestsSize(h, h2) ==
  /\ h.pc = "size"
  /\ \/ GoesOn(h, h2, "delSet", h.d, h.s) /\ \A n \in Nodes : sets[h.s][n] = 0
     \/ Drops(h, h2, {CmdOf(h)})
  /\ UNCHANGED shared
DelsSet(h, h2) ==
  /\ h.pc = "delSet"
  /\ Drops(h, h2, {CmdOf(h)})
  /\ domains' = [domains EXCEPT ![h.d][CmdOf(h)] = 0] /\ UNCHANGED <<index, sets>>

\* A step of h to h2 for a session whose node is n.
Step(h, h2, n) ==
  /\ HandlerOK(h) /\ h.todo # <<>> /\ HandlerOK(h2)
  /\ \/ FindsDomain(h, h2) \/ MissesDomain(h, h2) \/ MakesDomain(h, h2) \/ AddsDomain(h, h2)
     \/ FindsSet(h, h2) \/ MissesSet(h, h2) \/ MakesSet(h, h2) \/ AddsSet(h, h2)
     \/ AddsNode(h, h2, n) \/ DelsNode(h, h2, n) \/ TestsSize(h, h2) \/ DelsSet(h, h2)

---------------------------------------------------------------------------
(* Handlers and their lists *)

\* The head of a list that is not empty, and the command that is next.
LEMMA HeadFacts ==
  ASSUME NEW h, HandlerOK(h), h.todo # <<>>
  PROVE  /\ h.todo \in Seq(Item) /\ Len(h.todo) \in Nat \ {0} /\ Head(h.todo) = h.todo[1]
         /\ Head(h.todo) \in Item /\ ItemOK(h.new, Head(h.todo))
         /\ Dom(h) \in Domains /\ Head(h.todo).op \in {"del", "add"}
         /\ CmdOf(h) \in Head(h.todo).cmds /\ CmdOf(h) \in Cmds
<1>1. h.todo \in Seq(Item)
  BY DEF HandlerOK, Handler
<1>2. Len(h.todo) \in Nat \ {0} /\ Head(h.todo) = h.todo[1] /\ Head(h.todo) \in Item
  BY <1>1, EmptySeq, HeadTailProperties
<1>3. ItemOK(h.new, Head(h.todo))
  BY <1>2 DEF HandlerOK
<1>4. CmdOf(h) \in Head(h.todo).cmds
  BY <1>3 DEF ItemOK, CmdOf
<1> QED BY <1>1, <1>2, <1>3, <1>4 DEF Item, Dom

\* What a handler does next is in its list.
LEMMA SameList ==
  ASSUME NEW h, NEW g, g.todo = h.todo
  PROVE  /\ CmdOf(g) = CmdOf(h) /\ Dom(g) = Dom(h)
         /\ \A d, c : Pending(g, d, c) <=> Pending(h, d, c)
BY DEF CmdOf, Dom, Pending

\* Which places have a domain object and which a node set.
LEMMA PlaceFacts ==
  ASSUME NEW h
  PROVE  /\ HasSet(h) => HasDomain(h)
         /\ HasSet(h) <=> h.pc \in {"addSet", "addNode", "delNode", "size", "delSet"}
         /\ HasDomain(h) <=> h.pc \notin {"idle", "domain"}
BY DEF HasSet, HasDomain, SetPlaces

\* NextItem goes on after the head of the list.
LEMMA NextItemDrops ==
  ASSUME NEW h, HandlerOK(h), h.todo # <<>>
  PROVE  Drops(h, NextItem(h), Head(h.todo).cmds) /\ NextItem(h).pc = "domain"
<1> DEFINE g == NextItem(h)
<1>1. h \in Handler
  BY DEF HandlerOK
<1>2. /\ g.pc = "domain" /\ g.new = h.new /\ g.todo = Tail(h.todo) /\ g.d = 0 /\ g.s = 0
  BY <1>1 DEF NextItem, Handler
<1>3. /\ Tail(h.todo) \in Seq(Item) /\ Len(Tail(h.todo)) = Len(h.todo) - 1
      /\ \A i \in 1..Len(Tail(h.todo)) : Tail(h.todo)[i] = h.todo[i + 1]
  BY HeadFacts, HeadTailProperties
<1>4. g \in Handler
  BY <1>1, <1>2, <1>3 DEF NextItem, Handler, Places
<1>5. \A i \in 1..Len(g.todo) : ItemOK(g.new, g.todo[i])
  <2> TAKE i \in 1..Len(g.todo)
  <2>1. i + 1 \in 1..Len(h.todo) /\ g.todo[i] = h.todo[i + 1]
    BY <1>2, <1>3, HeadFacts
  <2> QED BY <2>1, <1>2 DEF HandlerOK
<1>6. HandlerOK(g)
  BY <1>2, <1>4, <1>5 DEF HandlerOK, HasSet, SetPlaces
<1>7. ASSUME NEW d \in Domains, NEW c \in Cmds, Pending(h, d, c)
      PROVE  Pending(g, d, c) \/ (d = Dom(h) /\ c \in Head(h.todo).cmds)
  <2>1. PICK i \in 1..Len(h.todo) : h.todo[i].domain = d /\ c \in h.todo[i].cmds
    BY <1>7 DEF Pending
  <2>2. CASE i = 1
    BY <2>1, <2>2, HeadFacts DEF Dom
  <2>3. CASE i # 1
    <3>1. i - 1 \in 1..Len(g.todo) /\ g.todo[i - 1] = h.todo[i]
      BY <2>3, <1>2, <1>3, HeadFacts
    <3> QED BY <3>1, <2>1 DEF Pending
  <2> QED BY <2>2, <2>3
<1> QED BY <1>2, <1>6, <1>7 DEF Drops

\* NextCmd goes on after the next command of the head of the list.
LEMMA NextCmdDrops ==
  ASSUME NEW h, HandlerOK(h), h.todo # <<>>, HasDomain(h)
  PROVE  Drops(h, NextCmd(h, CmdOf(h)), {CmdOf(h)})
<1> DEFINE c == CmdOf(h)
           g == NextCmd(h, c)
           i1 == [Head(h.todo) EXCEPT !.cmds = @ \ {c}]
           t == [h.todo EXCEPT ![1] = i1]
<1> HIDE DEF c
<1>0. c = CmdOf(h)
  BY DEF c
<1>1. CASE Head(h.todo).cmds = {c}
  <2>1. g = NextItem(h)
    BY <1>1 DEF NextCmd
  <2> QED BY <2>1, <1>1, <1>0, NextItemDrops
<1>2. CASE Head(h.todo).cmds # {c}
  <2>1. h \in Handler /\ h.todo \in Seq(Item) /\ Head(h.todo) = h.todo[1] /\ 1 \in 1..Len(h.todo)
    BY HeadFacts DEF HandlerOK
  <2>2. /\ i1 \in Item /\ i1.domain = Dom(h) /\ i1.op = Head(h.todo).op
        /\ i1.cmds = Head(h.todo).cmds \ {c}
    BY HeadFacts DEF Item, Dom
  <2>3. /\ t \in Seq(Item) /\ Len(t) = Len(h.todo)
        /\ \A j \in 1..Len(h.todo) : t[j] = IF j = 1 THEN i1 ELSE h.todo[j]
    BY <2>1, <2>2, ExceptSeq
  <2>4. g = [h EXCEPT !.pc = "cmd", !.todo = t, !.s = 0]
    BY <1>2, <2>1 DEF NextCmd, Handler
  <2>5. g.pc = "cmd" /\ g.new = h.new /\ g.todo = t /\ g.d = h.d /\ g.s = 0 /\ g \in Handler
    <3>1. \A q \in Seq(Item) : LET e == [h EXCEPT !.pc = "cmd", !.todo = q, !.s = 0] IN
            e.pc = "cmd" /\ e.new = h.new /\ e.todo = q /\ e.d = h.d /\ e.s = 0 /\ e \in Handler
      BY <2>1 DEF Handler, Places
    <3> HIDE DEF g, t
    <3> QED BY <3>1, <2>3, <2>4
  <2>6. t # <<>> /\ Head(t) = i1
    BY <2>1, <2>3, EmptySeq
  <2>7. ItemOK(h.new, i1)
    <3>1. ItemOK(h.new, Head(h.todo)) /\ c \in Head(h.todo).cmds
      BY HeadFacts, <1>0
    <3> QED BY <3>1, <2>2, <1>2 DEF ItemOK, Dom
  <2>8. \A j \in 1..Len(g.todo) : ItemOK(g.new, g.todo[j])
    BY <2>3, <2>5, <2>7 DEF HandlerOK
  <2>9. HandlerOK(g)
    BY <2>5, <2>6, <2>8 DEF HandlerOK, HasSet, SetPlaces
  <2>10. ASSUME NEW d \in Domains, NEW b \in Cmds, Pending(h, d, b)
         PROVE  Pending(g, d, b) \/ (d = Dom(h) /\ b \in {c})
    <3>1. PICK i \in 1..Len(h.todo) : h.todo[i].domain = d /\ b \in h.todo[i].cmds
      BY <2>10 DEF Pending
    <3>2. CASE i = 1
      <4>1. d = Dom(h) /\ b \in Head(h.todo).cmds
        BY <3>1, <3>2, <2>1 DEF Dom
      <4>2. b # c => Pending(g, d, b)
        BY <4>1, <2>1, <2>2, <2>3, <2>5 DEF Pending
      <4> QED BY <4>1, <4>2
    <3>3. CASE i # 1
      <4>1. i \in 1..Len(g.todo) /\ g.todo[i] = h.todo[i]
        BY <3>3, <2>3, <2>5
      <4> QED BY <4>1, <3>1 DEF Pending
    <3> QED BY <3>2, <3>3
  <2>11. Dom(g) = Dom(h)
    BY <2>2, <2>5, <2>6 DEF Dom
  <2> QED BY <2>5, <2>9, <2>10, <2>11, <1>0 DEF Drops
<1> QED BY <1>1, <1>2

---------------------------------------------------------------------------
(* Objects and who holds them *)

\* What a step of h to h2 leaves of the objects and of what a handler g holds.
HoldsOn(h, h2) ==
  /\ ObjInv' /\ PointAt(h2)' /\ FreshAt(h2)'
  /\ \A g : PointAt(g) /\ FreshAt(g) /\ Apart(g, h) /\ Apart(h, g) =>
       PointAt(g)' /\ FreshAt(g)' /\ Apart(g, h2) /\ Apart(h2, g)

\* A handler writes one entry of a domain object.
Writes(x, a, v)    == domains' = [domains EXCEPT ![x][a] = v]
WritesSet(x, m, v) == sets' = [sets EXCEPT ![x][m] = v]

\* One entry of a domain object is written: the rest stays, and a node set that was in no
\* domain is then in one.
LEMMA WriteDomain ==
  ASSUME ObjInv, NEW x \in 1..Len(domains), NEW a \in Cmds, NEW v \in 0..Len(sets),
         Writes(x, a, v), UNCHANGED sets,
         v = 0 \/ \A y \in 1..Len(domains) : \A c \in Cmds : domains[y][c] # v
  PROVE  /\ domains' \in Seq([Cmds -> 0..Len(sets')]) /\ Len(domains') = Len(domains)
         /\ \A y \in 1..Len(domains) : \A c \in Cmds :
              domains'[y][c] = IF y = x /\ c = a THEN v ELSE domains[y][c]
         /\ \A y, z \in 1..Len(domains') : \A c, b \in Cmds :
              domains'[y][c] = domains'[z][b] /\ domains'[y][c] # 0 => y = z /\ c = b
<1> DEFINE T == 0..Len(sets)
           e == [domains[x] EXCEPT ![a] = v]
<1>0. \A y, z \in 1..Len(domains) : \A c, b \in Cmds :
        domains[y][c] = domains[z][b] /\ domains[y][c] # 0 => y = z /\ c = b
  BY DEF ObjInv
<1>1. domains \in Seq([Cmds -> T]) /\ domains[x] \in [Cmds -> T] /\ v \in T
  BY DEF ObjInv
<1> HIDE DEF T
<1>2. e \in [Cmds -> T] /\ \A c \in Cmds : e[c] = IF c = a THEN v ELSE domains[x][c]
  BY <1>1
<1>3. domains' = [domains EXCEPT ![x] = e]
  BY DEF Writes
<1> HIDE DEF e
<1>4. /\ domains' \in Seq([Cmds -> T]) /\ Len(domains') = Len(domains)
      /\ \A y \in 1..Len(domains) : domains'[y] = IF y = x THEN e ELSE domains[y]
  BY <1>1, <1>2, <1>3, ExceptSeq
<1>5. \A y \in 1..Len(domains) : \A c \in Cmds :
        domains'[y][c] = IF y = x /\ c = a THEN v ELSE domains[y][c]
  BY <1>2, <1>4
<1>6. \A y, z \in 1..Len(domains) : \A c, b \in Cmds :
        domains'[y][c] = domains'[z][b] /\ domains'[y][c] # 0 => y = z /\ c = b
  <2> SUFFICES ASSUME NEW y \in 1..Len(domains), NEW z \in 1..Len(domains),
                      NEW c \in Cmds, NEW b \in Cmds,
                      domains'[y][c] = domains'[z][b], domains'[y][c] # 0
               PROVE  y = z /\ c = b
    OBVIOUS
  <2>1. domains[y][c] = domains[z][b] /\ domains[y][c] # 0 => y = z /\ c = b
    BY <1>0
  <2>2. domains'[y][c] = IF y = x /\ c = a THEN v ELSE domains[y][c]
    BY <1>5
  <2>3. domains'[z][b] = IF z = x /\ b = a THEN v ELSE domains[z][b]
    BY <1>5
  <2>4. v = 0 \/ (domains[y][c] # v /\ domains[z][b] # v)
    OBVIOUS
  <2> QED BY <2>1, <2>2, <2>3, <2>4
<1> QED BY <1>4, <1>5, <1>6 DEF T

\* A handler writes one entry of a node set.
LEMMA WriteSet ==
  ASSUME ObjInv, NEW x \in 1..Len(sets), NEW m \in Nodes, NEW v \in Weights \cup {0},
         WritesSet(x, m, v)
  PROVE  /\ sets' \in Seq([Nodes -> Weights \cup {0}]) /\ Len(sets') = Len(sets)
         /\ \A y \in 1..Len(sets) : \A n \in Nodes :
              sets'[y][n] = IF y = x /\ n = m THEN v ELSE sets[y][n]
         /\ \A y \in 1..Len(sets) : y # x => sets'[y] = sets[y]
<1> DEFINE T == Weights \cup {0}
           e == [sets[x] EXCEPT ![m] = v]
<1>1. sets \in Seq([Nodes -> T]) /\ sets[x] \in [Nodes -> T] /\ v \in T
  BY DEF ObjInv
<1> HIDE DEF T
<1>2. e \in [Nodes -> T] /\ \A n \in Nodes : e[n] = IF n = m THEN v ELSE sets[x][n]
  BY <1>1
<1>3. sets' = [sets EXCEPT ![x] = e]
  BY DEF WritesSet
<1> HIDE DEF e
<1>4. /\ sets' \in Seq([Nodes -> T]) /\ Len(sets') = Len(sets)
      /\ \A y \in 1..Len(sets) : sets'[y] = IF y = x THEN e ELSE sets[y]
  BY <1>1, <1>2, <1>3, ExceptSeq
<1> QED BY <1>2, <1>4 DEF T

\* A step that leaves the tables alone and writes at most to the node set it holds.
LEMMA QuietHolds ==
  ASSUME ObjInv, NEW h, NEW h2, PointAt(h2), h2.pc \notin {"addDomain", "addSet"},
         UNCHANGED <<index, domains>>,
         sets' \in Seq([Nodes -> Weights \cup {0}]), Len(sets') = Len(sets),
         \A x \in 1..Len(sets) : sets'[x] # sets[x] => HasSet(h) /\ x = h.s,
         HasDomain(h2) => (HasDomain(h) /\ h2.d = h.d) \/ \E d \in Domains : index[d] = h2.d,
         HasSet(h2) => (HasSet(h) /\ h2.s = h.s)
                       \/ \E x \in 1..Len(domains) : \E c \in Cmds : domains[x][c] = h2.s
  PROVE  HoldsOn(h, h2)
<1>1. ObjInv'
  BY DEF ObjInv
<1>2. PointAt(h2)'
  BY DEF PointAt
<1>3. FreshAt(h2)'
  BY DEF FreshAt
<1>4. ASSUME NEW g, PointAt(g), FreshAt(g), Apart(g, h), Apart(h, g)
      PROVE  PointAt(g)' /\ FreshAt(g)' /\ Apart(g, h2) /\ Apart(h2, g)
  <2>1. PointAt(g)'
    BY <1>4 DEF PointAt
  <2>2. FreshAt(g)'
    <3>1. g.pc = "addSet" => g.s \in 1..Len(sets)
      BY <1>4, PlaceFacts DEF PointAt
    <3>2. g.pc = "addSet" => sets'[g.s] = sets[g.s]
      BY <1>4, <3>1 DEF Apart
    <3> QED BY <1>4, <3>2 DEF FreshAt
  <2>3. Apart(g, h2)
    BY <1>4 DEF Apart, FreshAt
  <2>4. Apart(h2, g)
    BY DEF Apart
  <2> QED BY <2>1, <2>2, <2>3, <2>4
<1> QED BY <1>1, <1>2, <1>3, <1>4 DEF HoldsOn

\* The handler makes a domain object, or adds it to the index.
LEMMA DomainHolds ==
  ASSUME ObjInv, NEW h, NEW h2, HandlerOK(h), h.todo # <<>>, PointAt(h), FreshAt(h),
         MakesDomain(h, h2) \/ AddsDomain(h, h2)
  PROVE  HoldsOn(h, h2)
<1>0. Dom(h) \in Domains /\ Dom(h2) = Dom(h)
  BY HeadFacts, SameList DEF MakesDomain, AddsDomain, GoesOn
<1>1. CASE MakesDomain(h, h2)
  <2> DEFINE e == [c \in Cmds |-> 0]
  <2>1. e \in [Cmds -> 0..Len(sets)] /\ \A c \in Cmds : e[c] = 0
    BY DEF ObjInv
  <2>2. /\ domains' = Append(domains, e) /\ domains \in Seq([Cmds -> 0..Len(sets)])
        /\ h2.pc = "addDomain" /\ h2.d = Len(domains) + 1 /\ UNCHANGED <<index, sets>>
    BY <1>1 DEF MakesDomain, GoesOn, ObjInv
  <2> HIDE DEF e
  <2>3. /\ domains' \in Seq([Cmds -> 0..Len(sets)]) /\ Len(domains') = Len(domains) + 1
        /\ Len(domains) \in Nat
        /\ \A x \in 1..Len(domains) : domains'[x] = domains[x]
        /\ domains'[Len(domains) + 1] = e
    BY <2>1, <2>2, AppendProperties
  <2>4. \A x \in 1..Len(domains') : \A c \in Cmds :
           (x \in 1..Len(domains) /\ domains'[x][c] = domains[x][c]) \/ domains'[x][c] = 0
    BY <2>1, <2>3
  <2>5. ObjInv'
    BY <2>2, <2>3, <2>4 DEF ObjInv
  <2>6. \A d \in Domains : index[d] \in 0..Len(domains)
    BY DEF ObjInv
  <2>7. PointAt(h2)'
    BY <2>2, <2>3, <2>6 DEF PointAt, HasDomain, HasSet, SetPlaces
  <2>8. FreshAt(h2)'
    BY <2>1, <2>2, <2>3, <2>6 DEF FreshAt
  <2>9. ASSUME NEW g, PointAt(g), FreshAt(g), Apart(g, h), Apart(h, g)
        PROVE  PointAt(g)' /\ FreshAt(g)' /\ Apart(g, h2) /\ Apart(h2, g)
    <3>1. PointAt(g)'
      BY <2>2, <2>3, <2>4, <2>9 DEF PointAt
    <3>2. FreshAt(g)'
      <4>1. g.pc = "addDomain" => g.d \in 1..Len(domains)
        BY <2>9 DEF PointAt, HasDomain
      <4>2. g.pc = "addSet" => g.s \in 1..Len(sets)
        BY <2>9, PlaceFacts DEF PointAt
      <4> QED BY <2>2, <2>3, <2>4, <2>9, <4>1, <4>2 DEF FreshAt
    <3>3. HasDomain(g) => g.d # h2.d
      BY <2>2, <2>3, <2>9 DEF PointAt
    <3> QED BY <3>1, <3>2, <3>3, <2>2, <2>3, <2>9, PlaceFacts DEF Apart, PointAt
  <2> QED BY <2>5, <2>7, <2>8, <2>9 DEF HoldsOn
<1>2. CASE AddsDomain(h, h2)
  <2>1. /\ h.pc = "addDomain" /\ h2.pc = "cmd" /\ h2.d = h.d
        /\ index' = [index EXCEPT ![Dom(h)] = h.d] /\ UNCHANGED <<domains, sets>>
    BY <1>2 DEF AddsDomain, GoesOn
  <2>2. HasDomain(h) /\ ~HasSet(h2) /\ HasDomain(h2)
    BY <2>1 DEF HasDomain, HasSet, SetPlaces
  <2>3. h.d \in 1..Len(domains) /\ \A d \in Domains : index[d] # h.d
    BY <2>1, <2>2 DEF PointAt, FreshAt
  <2>4. \A d \in Domains : index'[d] = IF d = Dom(h) THEN h.d ELSE index[d]
    BY <2>1 DEF ObjInv
  <2>5. ObjInv'
    BY <1>0, <2>1, <2>3, <2>4 DEF ObjInv
  <2>6. PointAt(h2)' /\ FreshAt(h2)'
    BY <1>0, <2>1, <2>2, <2>3, <2>4 DEF PointAt, FreshAt
  <2>7. ASSUME NEW g, PointAt(g), FreshAt(g), Apart(g, h), Apart(h, g)
        PROVE  PointAt(g)' /\ FreshAt(g)' /\ Apart(g, h2) /\ Apart(h2, g)
    <3>1. HasDomain(g) => g.d # h.d
      BY <2>1, <2>7 DEF Apart
    <3> QED BY <3>1, <2>1, <2>2, <2>4, <2>7 DEF PointAt, FreshAt, Apart, HasDomain
  <2> QED BY <2>5, <2>6, <2>7 DEF HoldsOn
<1> QED BY <1>1, <1>2

\* The handler makes a node set, or adds it to its domain.
LEMMA SetHolds ==
  ASSUME ObjInv, NEW h, NEW h2, HandlerOK(h), h.todo # <<>>, PointAt(h), FreshAt(h),
         MakesSet(h, h2) \/ AddsSet(h, h2)
  PROVE  HoldsOn(h, h2)
<1>0. CmdOf(h) \in Cmds /\ CmdOf(h2) = CmdOf(h) /\ Dom(h2) = Dom(h)
  BY HeadFacts, SameList DEF MakesSet, AddsSet, GoesOn
<1>1. CASE MakesSet(h, h2)
  <2> DEFINE e == [n \in Nodes |-> 0]
  <2>1. e \in [Nodes -> Weights \cup {0}] /\ \A n \in Nodes : e[n] = 0
    OBVIOUS
  <2>2. /\ sets' = Append(sets, e) /\ sets \in Seq([Nodes -> Weights \cup {0}])
        /\ h.pc = "cmd" /\ h2.pc = "addSet" /\ h2.d = h.d /\ h2.s = Len(sets) + 1
        /\ UNCHANGED <<index, domains>>
    BY <1>1 DEF MakesSet, GoesOn, ObjInv
  <2> HIDE DEF e
  <2>3. /\ sets' \in Seq([Nodes -> Weights \cup {0}]) /\ Len(sets') = Len(sets) + 1
        /\ Len(sets) \in Nat
        /\ \A x \in 1..Len(sets) : sets'[x] = sets[x]
        /\ sets'[Len(sets) + 1] = e
    BY <2>1, <2>2, AppendProperties
  <2>4. domains \in Seq([Cmds -> 0..Len(sets')])
    <3>1. domains \in [1..Len(domains) -> [Cmds -> 0..Len(sets)]] /\ Len(domains) \in Nat
      BY DEF ObjInv
    <3>2. domains \in [1..Len(domains) -> [Cmds -> 0..Len(sets')]]
      BY <3>1, <2>3
    <3> QED BY <3>1, <3>2
  <2>5. ObjInv'
    BY <2>2, <2>3, <2>4 DEF ObjInv
  <2>6. \A x \in 1..Len(domains) : \A c \in Cmds : domains[x][c] \in 0..Len(sets)
    BY DEF ObjInv
  <2>7. HasDomain(h) /\ HasDomain(h2) /\ HasSet(h2)
    BY <2>2 DEF HasDomain, HasSet, SetPlaces
  <2>8. PointAt(h2)'
    BY <1>0, <2>2, <2>3, <2>6, <2>7 DEF PointAt
  <2>9. FreshAt(h2)'
    BY <2>1, <2>2, <2>3, <2>6 DEF FreshAt
  <2>10. ASSUME NEW g, PointAt(g), FreshAt(g), Apart(g, h), Apart(h, g)
         PROVE  PointAt(g)' /\ FreshAt(g)' /\ Apart(g, h2) /\ Apart(h2, g)
    <3>1. HasSet(g) => g.s \in 1..Len(sets) /\ g.s # h2.s
      BY <2>2, <2>3, <2>10 DEF PointAt
    <3>2. PointAt(g)'
      BY <2>2, <2>3, <2>10 DEF PointAt
    <3>3. FreshAt(g)'
      BY <3>1, <2>2, <2>3, <2>10, PlaceFacts DEF FreshAt
    <3>4. Apart(g, h2)
      BY <3>1, <2>2, <2>7, <2>10, PlaceFacts DEF Apart
    <3>5. Apart(h2, g)
      BY <3>1, <2>2 DEF Apart
    <3> QED BY <3>2, <3>3, <3>4, <3>5
  <2> QED BY <2>5, <2>8, <2>9, <2>10 DEF HoldsOn
<1>2. CASE AddsSet(h, h2)
  <2>1. /\ h.pc = "addSet" /\ h2.pc = "addNode" /\ h2.d = h.d /\ h2.s = h.s
        /\ domains' = [domains EXCEPT ![h.d][CmdOf(h)] = h.s] /\ UNCHANGED <<index, sets>>
    BY <1>2 DEF AddsSet, GoesOn
  <2>2. HasDomain(h) /\ HasSet(h) /\ HasSet(h2) /\ HasDomain(h2)
    BY <2>1 DEF HasDomain, HasSet, SetPlaces
  <2>3. /\ h.d \in 1..Len(domains) /\ h.s \in 1..Len(sets)
        /\ \A x \in 1..Len(domains) : \A c \in Cmds : domains[x][c] # h.s
    BY <2>1, <2>2 DEF PointAt, FreshAt
  <2>4. /\ domains' \in Seq([Cmds -> 0..Len(sets')]) /\ Len(domains') = Len(domains)
        /\ \A x \in 1..Len(domains) : \A c \in Cmds :
             domains'[x][c] = IF x = h.d /\ c = CmdOf(h) THEN h.s ELSE domains[x][c]
        /\ \A x, y \in 1..Len(domains') : \A c, b \in Cmds :
             domains'[x][c] = domains'[y][b] /\ domains'[x][c] # 0 => x = y /\ c = b
    <3>1. h.s \in 0..Len(sets)
      BY <2>3
    <3> QED BY <1>0, <2>1, <2>3, <3>1, WriteDomain DEF Writes
  <2>5. ObjInv'
    <3>1. UNCHANGED <<index, sets>>
      BY <2>1
    <3> QED BY <3>1, <2>4 DEF ObjInv
  <2>6. PointAt(h2)' /\ FreshAt(h2)'
    BY <1>0, <2>1, <2>2, <2>3, <2>4 DEF PointAt, FreshAt
  <2>7. ASSUME NEW g, PointAt(g), FreshAt(g), Apart(g, h), Apart(h, g)
        PROVE  PointAt(g)' /\ FreshAt(g)' /\ Apart(g, h2) /\ Apart(h2, g)
    <3>1. (HasSet(g) => g.s # h.s) /\ (g.pc = "addDomain" => g.d # h.d)
      BY <2>1, <2>2, <2>7 DEF Apart
    <3>2. PointAt(g)'
      BY <3>1, <2>1, <2>4, <2>7 DEF PointAt
    <3>3. FreshAt(g)'
      <4>1. g.pc = "addDomain" => g.d \in 1..Len(domains)
        BY <2>7 DEF PointAt, HasDomain
      <4> QED BY <4>1, <3>1, <2>1, <2>4, <2>7, PlaceFacts DEF FreshAt
    <3> QED BY <3>1, <3>2, <3>3, <2>1, <2>2, <2>7 DEF Apart
  <2> QED BY <2>5, <2>6, <2>7 DEF HoldsOn
<1> QED BY <1>1, <1>2

\* The handler removes the node set it holds from its domain.
LEMMA DelHolds ==
  ASSUME ObjInv, NEW h, NEW h2, HandlerOK(h), h.todo # <<>>, PointAt(h), FreshAt(h),
         DelsSet(h, h2)
  PROVE  HoldsOn(h, h2)
<1>1. /\ h.pc = "delSet" /\ h2.pc \in {"domain", "cmd"}
      /\ h2.pc = "cmd" => h2.d = h.d /\ Dom(h2) = Dom(h)
      /\ domains' = [domains EXCEPT ![h.d][CmdOf(h)] = 0] /\ UNCHANGED <<index, sets>>
  BY DEF DelsSet, Drops
<1>2. HasDomain(h) /\ HasSet(h) /\ ~HasSet(h2) /\ (HasDomain(h2) => h2.pc = "cmd")
  BY <1>1 DEF HasDomain, HasSet, SetPlaces
<1>3. h.d \in 1..Len(domains) /\ 0 \in 0..Len(sets) /\ CmdOf(h) \in Cmds
  BY <1>1, <1>2, HeadFacts DEF PointAt, ObjInv
<1>4. /\ domains' \in Seq([Cmds -> 0..Len(sets')]) /\ Len(domains') = Len(domains)
      /\ \A x \in 1..Len(domains) : \A c \in Cmds :
           domains'[x][c] = IF x = h.d /\ c = CmdOf(h) THEN 0 ELSE domains[x][c]
      /\ \A x, y \in 1..Len(domains') : \A c, b \in Cmds :
           domains'[x][c] = domains'[y][b] /\ domains'[x][c] # 0 => x = y /\ c = b
  BY <1>1, <1>3, WriteDomain DEF Writes
<1>5. ObjInv'
  <2>1. UNCHANGED <<index, sets>>
    BY <1>1
  <2> QED BY <2>1, <1>4 DEF ObjInv
<1>6. PointAt(h2)' /\ FreshAt(h2)'
  BY <1>1, <1>2, <1>4 DEF PointAt, FreshAt
<1>7. ASSUME NEW g, PointAt(g), FreshAt(g), Apart(g, h), Apart(h, g)
      PROVE  PointAt(g)' /\ FreshAt(g)' /\ Apart(g, h2) /\ Apart(h2, g)
  <2>1. PointAt(g)'
    BY <1>1, <1>4, <1>7 DEF PointAt
  <2>2. FreshAt(g)'
    <3>1. g.pc = "addDomain" => g.d \in 1..Len(domains)
      BY <1>7 DEF PointAt, HasDomain
    <3>2. g.pc = "addSet" => g.s \in 1..Len(sets)
      BY <1>7, PlaceFacts DEF PointAt
    <3> QED BY <3>1, <3>2, <1>1, <1>4, <1>7 DEF FreshAt
  <2> QED BY <2>1, <2>2, <1>1, <1>2, <1>7 DEF Apart
<1> QED BY <1>5, <1>6, <1>7 DEF HoldsOn

\* A registered weight is a weight.
LEMMA NewWeight ==
  ASSUME NEW h, HandlerOK(h), h.todo # <<>>, Head(h.todo).op = "add"
  PROVE  /\ h.new # None /\ h.new.weight \in Weights /\ h.new.weight \in Nat \ {0}
         /\ CmdOf(h) \in h.new.cmds[Dom(h)]
<1>1. h.new \in Info /\ h.new # None
  BY HeadFacts, NoneAssumption DEF ItemOK, HandlerOK, Handler
<1>2. CmdOf(h) \in h.new.cmds[Dom(h)]
  BY HeadFacts DEF ItemOK, Dom
<1> QED BY <1>1, <1>2, WeightAssumption DEF Info

\* What a step does to the objects keeps them in order.
LEMMA StepHolds ==
  ASSUME ObjInv, NEW h, NEW h2, NEW n \in Nodes, Step(h, h2, n), PointAt(h), FreshAt(h)
  PROVE  HoldsOn(h, h2)
<1>0. HandlerOK(h) /\ h.todo # <<>> /\ Dom(h) \in Domains /\ CmdOf(h) \in Cmds
  BY HeadFacts DEF Step
<1>1. CASE FindsDomain(h, h2)
  <2>1. /\ h2.pc = "cmd" /\ h2.d = index[Dom(h)] /\ h2.d # 0 /\ Dom(h2) = Dom(h)
        /\ UNCHANGED shared
    BY <1>1, SameList DEF FindsDomain, GoesOn
  <2>2. h2.d \in 1..Len(domains) /\ \A d \in Domains : index[d] = h2.d => d = Dom(h2)
    BY <1>0, <2>1 DEF ObjInv
  <2>3. ~HasSet(h2)
    BY <2>1 DEF HasSet, SetPlaces
  <2>4. PointAt(h2)
    BY <2>2, <2>3 DEF PointAt
  <2>5. sets \in Seq([Nodes -> Weights \cup {0}])
    BY DEF ObjInv
  <2>6. \E d \in Domains : index[d] = h2.d
    BY <1>0, <2>1
  <2> QED BY <2>1, <2>3, <2>4, <2>5, <2>6, QuietHolds DEF shared
<1>2. ASSUME MissesDomain(h, h2) \/ MissesSet(h, h2) \/ TestsSize(h, h2) \/ AddsNode(h, h2, n)
             \/ DelsNode(h, h2, n)
      PROVE  HoldsOn(h, h2)
  <2>1. UNCHANGED <<index, domains>>
    BY <1>2 DEF MissesDomain, MissesSet, TestsSize, AddsNode, DelsNode, shared
  <2>2. /\ sets' \in Seq([Nodes -> Weights \cup {0}]) /\ Len(sets') = Len(sets)
        /\ \A x \in 1..Len(sets) : sets'[x] # sets[x] => HasSet(h) /\ x = h.s
    <3>1. CASE UNCHANGED sets
      BY <3>1 DEF ObjInv
    <3>2. CASE AddsNode(h, h2, n)
      <4>1. HasSet(h) /\ h.s \in 1..Len(sets)
        BY <3>2, PlaceFacts DEF AddsNode, PointAt
      <4>2. h.new.weight \in Weights \cup {0}
        BY <1>0, <3>2, NewWeight DEF AddsNode, HandlerOK
      <4> QED BY <3>2, <4>1, <4>2, WriteSet DEF AddsNode, WritesSet
    <3>3. CASE DelsNode(h, h2, n)
      <4>1. HasSet(h) /\ h.s \in 1..Len(sets)
        BY <3>3, PlaceFacts DEF DelsNode, PointAt
      <4> QED BY <3>3, <4>1, WriteSet DEF DelsNode, WritesSet
    <3> QED BY <1>2, <3>1, <3>2, <3>3 DEF MissesDomain, MissesSet, TestsSize, shared
  <2>3. /\ HasDomain(h2) => HasDomain(h) /\ h2.d = h.d /\ Dom(h2) = Dom(h)
        /\ HasSet(h2) => HasSet(h) /\ h2.s = h.s /\ CmdOf(h2) = CmdOf(h)
        /\ h2.pc \notin {"addDomain", "addSet"}
    BY <1>2, SameList
       DEF MissesDomain, MissesSet, TestsSize, AddsNode, DelsNode, Drops, GoesOn,
           HasDomain, HasSet, SetPlaces
  <2>4. PointAt(h2)
    BY <2>3, PlaceFacts DEF PointAt
  <2> QED BY <2>1, <2>2, <2>3, <2>4, QuietHolds
<1>3. CASE FindsSet(h, h2)
  <2>1. /\ h.pc = "cmd" /\ h2.pc \in {"delNode", "addNode"} /\ h2.d = h.d
        /\ h2.s = domains[h.d][CmdOf(h)] /\ h2.s # 0
        /\ Dom(h2) = Dom(h) /\ CmdOf(h2) = CmdOf(h) /\ UNCHANGED shared
    BY <1>3, SameList DEF FindsSet, GoesOn
  <2>2. HasDomain(h) /\ HasDomain(h2) /\ HasSet(h2)
    BY <2>1 DEF HasDomain, HasSet, SetPlaces
  <2>3. /\ h.d \in 1..Len(domains) /\ h2.s \in 1..Len(sets)
        /\ \A x \in 1..Len(domains) : \A c \in Cmds :
             domains[x][c] = h2.s => x = h.d /\ c = CmdOf(h)
    <3>1. h.d \in 1..Len(domains)
      BY <2>2 DEF PointAt
    <3> QED BY <1>0, <2>1, <3>1 DEF ObjInv
  <2>4. PointAt(h2)
    BY <2>1, <2>2, <2>3 DEF PointAt
  <2>5. sets \in Seq([Nodes -> Weights \cup {0}])
    BY DEF ObjInv
  <2>6. \E x \in 1..Len(domains) : \E c \in Cmds : domains[x][c] = h2.s
    BY <1>0, <2>1, <2>3
  <2> QED BY <2>1, <2>2, <2>4, <2>5, <2>6, QuietHolds DEF shared
<1>4. CASE MakesDomain(h, h2) \/ AddsDomain(h, h2)
  BY <1>0, <1>4, DomainHolds
<1>5. CASE MakesSet(h, h2) \/ AddsSet(h, h2)
  BY <1>0, <1>5, SetHolds
<1>6. CASE DelsSet(h, h2)
  BY <1>0, <1>6, DelHolds
<1> QED BY <1>1, <1>2, <1>3, <1>4, <1>5, <1>6 DEF Step

\* Handlers after one of them has moved.
LEMMA HandlersMove ==
  ASSUME HandInv, NEW s \in Sessions, NEW k \in Calls, NEW h2,
         handlers' = [handlers EXCEPT ![s][k] = h2]
  PROVE  /\ \A u \in Sessions : \A j \in Calls :
              handlers'[u][j] = IF u = s /\ j = k THEN h2 ELSE handlers[u][j]
         /\ HandlerOK(h2) \/ h2 = Idle => HandInv'
<1>1. \A u \in Sessions : \A j \in Calls :
        handlers'[u][j] = IF u = s /\ j = k THEN h2 ELSE handlers[u][j]
  BY DEF HandInv
<1>2. ASSUME HandlerOK(h2) \/ h2 = Idle
      PROVE  HandInv'
  <2>1. h2 \in Handler \cup {Idle}
    BY <1>2 DEF HandlerOK
  <2>2. handlers' \in [Sessions -> [Calls -> Handler \cup {Idle}]]
    BY <2>1 DEF HandInv
  <2>3. h2 = Idle => h2.pc = "idle"
    BY DEF Idle
  <2> QED BY <1>1, <1>2, <2>2, <2>3 DEF HandInv, Busy
<1> QED BY <1>1, <1>2

\* A step of one handler that is apart from the others keeps HoldInv.
LEMMA HoldMove ==
  ASSUME HandInv, HoldInv, NEW s \in Sessions, NEW k \in Calls, NEW h2,
         handlers' = [handlers EXCEPT ![s][k] = h2], HoldsOn(handlers[s][k], h2)
  PROVE  ObjInv' /\ HoldInv'
<1> DEFINE h == handlers[s][k]
<1>1. \A u \in Sessions : \A j \in Calls :
        handlers'[u][j] = IF u = s /\ j = k THEN h2 ELSE handlers[u][j]
  BY DEF HandInv
<1>2. ASSUME NEW u \in Sessions, NEW j \in Calls, NEW g, g = handlers'[u][j]
      PROVE  /\ PointAt(g)' /\ FreshAt(g)'
             /\ \A v \in Sessions : \A i \in Calls : \A f :
                  <<v, i>> # <<u, j>> /\ f = handlers'[v][i] => Apart(g, f)
  <2>1. CASE u = s /\ j = k
    <3>1. g = h2
      BY <1>1, <1>2, <2>1
    <3>2. PointAt(h2)' /\ FreshAt(h2)'
      BY DEF HoldsOn
    <3>3. ASSUME NEW v \in Sessions, NEW i \in Calls, NEW f, <<v, i>> # <<u, j>>, f = handlers'[v][i]
          PROVE  Apart(h2, f)
      <4>1. f = handlers[v][i]
        BY <1>1, <2>1, <3>3
      <4>2. PointAt(f) /\ FreshAt(f) /\ Apart(f, h) /\ Apart(h, f)
        BY <4>1, <2>1, <3>3 DEF HoldInv
      <4> QED BY <4>2 DEF HoldsOn
    <3> QED BY <3>1, <3>2, <3>3
  <2>2. CASE ~(u = s /\ j = k)
    <3>1. g = handlers[u][j]
      BY <1>1, <1>2, <2>2
    <3>2. PointAt(g) /\ FreshAt(g) /\ Apart(g, h) /\ Apart(h, g)
      BY <3>1, <2>2 DEF HoldInv
    <3>3. PointAt(g)' /\ FreshAt(g)' /\ Apart(g, h2)
      BY <3>2 DEF HoldsOn
    <3>4. ASSUME NEW v \in Sessions, NEW i \in Calls, NEW f, <<v, i>> # <<u, j>>, f = handlers'[v][i]
          PROVE  Apart(g, f)
      <4>1. CASE v = s /\ i = k
        BY <4>1, <1>1, <3>3, <3>4
      <4>2. CASE ~(v = s /\ i = k)
        BY <4>2, <1>1, <3>1, <3>4 DEF HoldInv
      <4> QED BY <4>1, <4>2
    <3> QED BY <3>3, <3>4
  <2> QED BY <2>1, <2>2
<1>3. HoldInv'
  <2>1. ASSUME NEW u \in Sessions, NEW j \in Calls
        PROVE  (PointAt(handlers[u][j]) /\ FreshAt(handlers[u][j]))'
    <3>1. PICK g : g = handlers'[u][j]
      OBVIOUS
    <3>2. PointAt(g)' /\ FreshAt(g)'
      BY <1>2, <3>1
    <3> QED BY <3>1, <3>2 DEF PointAt, FreshAt
  <2>2. ASSUME NEW u \in Sessions, NEW j \in Calls, NEW v \in Sessions, NEW i \in Calls,
               <<v, i>> # <<u, j>>
        PROVE  Apart(handlers[u][j], handlers[v][i])'
    <3>1. Apart(handlers'[u][j], handlers'[v][i])
      BY <1>2, <2>2
    <3> QED BY <3>1 DEF Apart
  <2> QED BY <2>1, <2>2 DEF HoldInv
<1> QED BY <1>3 DEF HoldsOn

---------------------------------------------------------------------------
(* The actions of a handler are steps *)

\* A step of set() for session s in call k.
SetStep(s, k) ==
  \/ GetDomain(s, k) \/ AddDomain(s, k) \/ GetSet(s, k) \/ AddSet(s, k)
  \/ AddNode(s, k) \/ DelNode(s, k) \/ TestSize(s, k) \/ DelSet(s, k)

\* A move of the handler to place p, on the same list.
LEMMA GoesOnOK ==
  ASSUME NEW h, HandlerOK(h), h.todo # <<>>, NEW p \in Places \ {"domain"}, NEW x \in Nat, NEW y \in Nat,
         p \notin SetPlaces => y = 0,
         p \in {"addDomain", "addSet", "addNode"} => Head(h.todo).op = "add",
         p \in {"delNode", "size", "delSet"} => Head(h.todo).op = "del",
         NEW h2, h2 \in Handler, GoesOn(h, h2, p, x, y)
  PROVE  HandlerOK(h2)
BY DEF GoesOn, HandlerOK, HasSet

\* Every action of set() is a step of one of the twelve kinds.
LEMMA ActionSteps ==
  ASSUME RegistryInv, NEW s \in Sessions, NEW k \in Calls, SetStep(s, k)
  PROVE  \E h2 : Goes(s, k, h2) /\ Step(handlers[s][k], h2, NodeOf[s]) /\ Keeps
<1> DEFINE h == handlers[s][k]
<1>1. h.pc # "idle" /\ HandlerOK(h) /\ h \in Handler
  <2>1. h.pc # "idle"
    BY DEF SetStep, GetDomain, AddDomain, GetSet, AddSet, AddNode, DelNode, TestSize, DelSet
  <2> QED BY <2>1 DEF RegistryInv, HandInv, Busy, HandlerOK
<1>2. h.todo # <<>>
  BY <1>1 DEF SetStep, GetDomain, AddDomain, GetSet, AddSet, AddNode, DelNode, TestSize, DelSet, HandlerOK
<1>3. PointAt(h) /\ FreshAt(h) /\ ObjInv
  BY DEF RegistryInv, HoldInv
<1>4. /\ Dom(h) \in Domains /\ Head(h.todo).op \in {"del", "add"} /\ CmdOf(h) \in Cmds
      /\ Head(h.todo).domain = Dom(h)
  BY <1>1, <1>2, HeadFacts DEF Dom
<1>5. Keeps
  BY DEF SetStep, GetDomain, AddDomain, GetSet, AddSet, AddNode, DelNode, TestSize, DelSet
<1>6. Len(domains) \in Nat /\ Len(sets) \in Nat /\ h.d \in Nat /\ h.s \in Nat
  BY <1>1, <1>3 DEF ObjInv, Handler
<1> HIDE DEF h
<1>7. CASE GetDomain(s, k)
  <2>1. CASE index[Dom(h)] # 0
    <3> DEFINE h2 == [h EXCEPT !.pc = "cmd", !.d = index[Dom(h)]]
    <3>1. h.pc = "domain" /\ h.s = 0
      BY <1>1, <1>7 DEF GetDomain, HandlerOK, HasSet, SetPlaces, h
    <3>2. index[Dom(h)] \in Nat
      BY <1>3, <1>4, <1>6 DEF ObjInv
    <3>3. h2 \in Handler /\ GoesOn(h, h2, "cmd", index[Dom(h)], 0)
      BY <1>1, <3>1, <3>2 DEF Handler, Places, GoesOn
    <3>4. Goes(s, k, h2) /\ UNCHANGED shared
      BY <1>7, <2>1, <1>4 DEF GetDomain, shared, h
    <3>5. HandlerOK(h2)
      BY <1>1, <1>2, <3>2, <3>3, GoesOnOK DEF Places, SetPlaces
    <3> QED BY <1>1, <1>2, <1>5, <2>1, <3>1, <3>3, <3>4, <3>5 DEF Step, FindsDomain, h
  <2>2. CASE index[Dom(h)] = 0 /\ Head(h.todo).op = "del"
    <3>1. Drops(h, NextItem(h), Head(h.todo).cmds) /\ NextItem(h).pc = "domain"
      BY <1>1, <1>2, NextItemDrops
    <3>2. h.pc = "domain" /\ Goes(s, k, NextItem(h)) /\ UNCHANGED shared
      BY <1>7, <2>2, <1>4 DEF GetDomain, shared, h
    <3>3. HandlerOK(NextItem(h))
      BY <3>1 DEF Drops
    <3> QED BY <1>1, <1>2, <1>5, <2>2, <3>1, <3>2, <3>3 DEF Step, MissesDomain, h
  <2>3. CASE index[Dom(h)] = 0 /\ Head(h.todo).op = "add"
    <3> DEFINE x == Len(domains) + 1
               h2 == [h EXCEPT !.pc = "addDomain", !.d = x]
    <3>0. x \in Nat
      BY <1>6
    <3>1. h.pc = "domain" /\ h.s = 0
      BY <1>1, <1>7 DEF GetDomain, HandlerOK, HasSet, SetPlaces, h
    <3>2. h2 \in Handler /\ GoesOn(h, h2, "addDomain", x, 0)
      <4> HIDE DEF x
      <4> QED BY <1>1, <3>0, <3>1 DEF Handler, Places, GoesOn
    <3>3. /\ Goes(s, k, h2) /\ domains' = Append(domains, [c \in Cmds |-> 0])
          /\ UNCHANGED <<index, sets>>
      BY <1>7, <2>3, <1>4 DEF GetDomain, h
    <3>4. HandlerOK(h2)
      BY <1>1, <1>2, <1>6, <2>3, <3>2, GoesOnOK DEF Places, SetPlaces
    <3> QED BY <1>1, <1>2, <1>5, <2>3, <3>1, <3>2, <3>3, <3>4 DEF Step, MakesDomain, h
  <2> QED BY <2>1, <2>2, <2>3, <1>4
<1>8. CASE AddDomain(s, k)
  <2> DEFINE h2 == [h EXCEPT !.pc = "cmd"]
  <2>1. h.pc = "addDomain" /\ h.s = 0
    BY <1>1, <1>8 DEF AddDomain, HandlerOK, HasSet, SetPlaces, h
  <2>2. h2 \in Handler /\ GoesOn(h, h2, "cmd", h.d, 0)
    BY <1>1, <2>1 DEF Handler, Places, GoesOn
  <2>3. /\ Goes(s, k, h2) /\ index' = [index EXCEPT ![Dom(h)] = h.d] /\ UNCHANGED <<domains, sets>>
    BY <1>8, <1>4 DEF AddDomain, h
  <2>4. HandlerOK(h2)
    BY <1>1, <1>2, <1>6, <2>2, GoesOnOK DEF Places, SetPlaces
  <2> QED BY <1>1, <1>2, <1>5, <2>1, <2>2, <2>3, <2>4 DEF Step, AddsDomain, h
<1>9. CASE GetSet(s, k)
  <2>0. h.pc = "cmd" /\ h.s = 0
    BY <1>1, <1>9 DEF GetSet, HandlerOK, HasSet, SetPlaces, h
  <2>1. CASE domains[h.d][CmdOf(h)] # 0
    <3> DEFINE p == IF Head(h.todo).op = "del" THEN "delNode" ELSE "addNode"
               y == domains[h.d][CmdOf(h)]
               h2 == [h EXCEPT !.pc = p, !.s = y]
    <3>1. h.d \in 1..Len(domains)
      BY <1>3, <2>0 DEF PointAt, HasDomain
    <3>2. y \in Nat
      BY <1>3, <1>4, <3>1 DEF ObjInv
    <3>3. h2 \in Handler /\ GoesOn(h, h2, p, h.d, y)
      BY <1>1, <3>2 DEF Handler, Places, SetPlaces, GoesOn
    <3>4. Goes(s, k, h2) /\ UNCHANGED shared
      BY <1>9, <2>1 DEF GetSet, shared, h
    <3>5. HandlerOK(h2)
      BY <1>1, <1>2, <1>4, <1>6, <3>2, <3>3, GoesOnOK DEF Places, SetPlaces
    <3> QED BY <1>1, <1>2, <1>5, <2>0, <2>1, <3>3, <3>4, <3>5 DEF Step, FindsSet, h
  <2>2. CASE domains[h.d][CmdOf(h)] = 0 /\ Head(h.todo).op = "del"
    <3>1. Drops(h, NextCmd(h, CmdOf(h)), {CmdOf(h)})
      BY <1>1, <1>2, <2>0, NextCmdDrops DEF HasDomain
    <3>2. Goes(s, k, NextCmd(h, CmdOf(h))) /\ UNCHANGED shared
      BY <1>9, <2>2 DEF GetSet, shared, h
    <3>3. HandlerOK(NextCmd(h, CmdOf(h)))
      BY <3>1 DEF Drops
    <3> QED BY <1>1, <1>2, <1>5, <2>0, <2>2, <3>1, <3>2, <3>3 DEF Step, MissesSet, h
  <2>3. CASE domains[h.d][CmdOf(h)] = 0 /\ Head(h.todo).op = "add"
    <3> DEFINE y == Len(sets) + 1
               h2 == [h EXCEPT !.pc = "addSet", !.s = y]
    <3>0. y \in Nat
      BY <1>6
    <3>1. h2 \in Handler /\ GoesOn(h, h2, "addSet", h.d, y)
      <4> HIDE DEF y
      <4> QED BY <1>1, <3>0 DEF Handler, Places, SetPlaces, GoesOn
    <3>2. /\ Goes(s, k, h2) /\ sets' = Append(sets, [n \in Nodes |-> 0])
          /\ UNCHANGED <<index, domains>>
      BY <1>9, <2>3 DEF GetSet, h
    <3>3. HandlerOK(h2)
      BY <1>1, <1>2, <1>6, <2>3, <3>1, GoesOnOK DEF Places, SetPlaces
    <3> QED BY <1>1, <1>2, <1>5, <2>0, <2>3, <3>1, <3>2, <3>3 DEF Step, MakesSet, h
  <2> QED BY <2>1, <2>2, <2>3, <1>4
<1>10. CASE AddSet(s, k)
  <2> DEFINE h2 == [h EXCEPT !.pc = "addNode"]
  <2>1. h.pc = "addSet" /\ Head(h.todo).op = "add"
    BY <1>1, <1>10 DEF AddSet, HandlerOK, h
  <2>2. h2 \in Handler /\ GoesOn(h, h2, "addNode", h.d, h.s)
    BY <1>1 DEF Handler, Places, SetPlaces, GoesOn
  <2>3. /\ Goes(s, k, h2) /\ domains' = [domains EXCEPT ![h.d][CmdOf(h)] = h.s]
        /\ UNCHANGED <<index, sets>>
    BY <1>10 DEF AddSet, h
  <2>4. HandlerOK(h2)
    BY <1>1, <1>2, <1>6, <2>1, <2>2, GoesOnOK DEF Places, SetPlaces
  <2> QED BY <1>1, <1>2, <1>5, <2>1, <2>2, <2>3, <2>4 DEF Step, AddsSet, h
<1>11. CASE AddNode(s, k)
  <2>1. h.pc = "addNode" /\ Goes(s, k, NextCmd(h, CmdOf(h)))
        /\ sets' = [sets EXCEPT ![h.s][NodeOf[s]] = h.new.weight] /\ UNCHANGED <<index, domains>>
    BY <1>11 DEF AddNode, h
  <2>2. Drops(h, NextCmd(h, CmdOf(h)), {CmdOf(h)})
    BY <1>1, <1>2, <2>1, NextCmdDrops DEF HasDomain
  <2>3. HandlerOK(NextCmd(h, CmdOf(h)))
    BY <2>2 DEF Drops
  <2> QED BY <1>1, <1>2, <1>5, <2>1, <2>2, <2>3 DEF Step, AddsNode, h
<1>12. CASE DelNode(s, k)
  <2> DEFINE h2 == [h EXCEPT !.pc = "size"]
  <2>1. h.pc = "delNode" /\ Head(h.todo).op = "del"
    BY <1>1, <1>12 DEF DelNode, HandlerOK, h
  <2>2. h2 \in Handler /\ GoesOn(h, h2, "size", h.d, h.s)
    BY <1>1 DEF Handler, Places, SetPlaces, GoesOn
  <2>3. /\ Goes(s, k, h2) /\ sets' = [sets EXCEPT ![h.s][NodeOf[s]] = 0]
        /\ UNCHANGED <<index, domains>>
    BY <1>12 DEF DelNode, h
  <2>4. HandlerOK(h2)
    BY <1>1, <1>2, <1>6, <2>1, <2>2, GoesOnOK DEF Places, SetPlaces
  <2> QED BY <1>1, <1>2, <1>5, <2>1, <2>2, <2>3, <2>4 DEF Step, DelsNode, h
<1>13. CASE TestSize(s, k)
  <2>1. h.pc = "size" /\ Head(h.todo).op = "del" /\ UNCHANGED shared
    BY <1>1, <1>13 DEF TestSize, HandlerOK, h
  <2>2. CASE \A n \in Nodes : sets[h.s][n] = 0
    <3> DEFINE h2 == [h EXCEPT !.pc = "delSet"]
    <3>1. h2 \in Handler /\ GoesOn(h, h2, "delSet", h.d, h.s)
      BY <1>1 DEF Handler, Places, SetPlaces, GoesOn
    <3>2. Goes(s, k, h2)
      BY <1>13, <2>2 DEF TestSize, h
    <3>3. HandlerOK(h2)
      BY <1>1, <1>2, <1>6, <2>1, <3>1, GoesOnOK DEF Places, SetPlaces
    <3> QED BY <1>1, <1>2, <1>5, <2>1, <2>2, <3>1, <3>2, <3>3 DEF Step, TestsSize, h
  <2>3. CASE ~ \A n \in Nodes : sets[h.s][n] = 0
    <3>1. Drops(h, NextCmd(h, CmdOf(h)), {CmdOf(h)})
      BY <1>1, <1>2, <2>1, NextCmdDrops DEF HasDomain
    <3>2. Goes(s, k, NextCmd(h, CmdOf(h)))
      BY <1>13, <2>3 DEF TestSize, h
    <3>3. HandlerOK(NextCmd(h, CmdOf(h)))
      BY <3>1 DEF Drops
    <3> QED BY <1>1, <1>2, <1>5, <2>1, <3>1, <3>2, <3>3 DEF Step, TestsSize, h
  <2> QED BY <2>2, <2>3
<1>14. CASE DelSet(s, k)
  <2>1. h.pc = "delSet" /\ Goes(s, k, NextCmd(h, CmdOf(h)))
        /\ domains' = [domains EXCEPT ![h.d][CmdOf(h)] = 0] /\ UNCHANGED <<index, sets>>
    BY <1>14 DEF DelSet, h
  <2>2. Drops(h, NextCmd(h, CmdOf(h)), {CmdOf(h)})
    BY <1>1, <1>2, <2>1, NextCmdDrops DEF HasDomain
  <2>3. HandlerOK(NextCmd(h, CmdOf(h)))
    BY <2>2 DEF Drops
  <2> QED BY <1>1, <1>2, <1>5, <2>1, <2>2, <2>3 DEF Step, DelsSet, h
<1> QED BY <1>7, <1>8, <1>9, <1>10, <1>11, <1>12, <1>13, <1>14 DEF SetStep

---------------------------------------------------------------------------
(* The beginning and the end of set() *)

\* A finite set in a sequence: all of it is listed.
LEMMA Listing ==
  ASSUME NEW S, IsFiniteSet(S)
  PROVE  /\ SetToSeq(S) \in Seq(S)
         /\ \A x \in S : \E i \in 1..Len(SetToSeq(S)) : SetToSeq(S)[i] = x
<1> DEFINE n == Cardinality(S)
           q == SetToSeq(S)
<1>1. n \in Nat /\ ExistsBijection(1..n, S)
  BY FS_CardinalityType
<1>2. \E f \in [1..n -> S] : IsInjective(f)
  BY <1>1 DEF ExistsBijection, Bijection, Injection
<1>3. q \in [1..n -> S] /\ IsInjective(q)
  BY <1>2 DEF SetToSeq
<1>4. IsFiniteSet(1..n) /\ Cardinality(1..n) = n
  <2>1. n \in Int /\ 1 \in Int /\ (1 > n => n = 0) /\ n - 1 + 1 = n
    BY <1>1
  <2> HIDE DEF n
  <2> QED BY <2>1, FS_Interval
<1>5. q \in Injection(1..n, S)
  BY <1>3 DEF Injection
<1>6. q \in Surjection(1..n, S)
  <2> HIDE DEF q
  <2> QED BY <1>4, <1>5, FS_Injection
<1>7. \A x \in S : \E i \in 1..n : q[i] = x
  BY <1>6 DEF Surjection
<1>8. q \in Seq(S) /\ Len(q) = n
  <2> HIDE DEF n, q
  <2> QED BY <1>1, <1>3
<1> QED BY <1>7, <1>8

\* The part of the list that is made from the commands f of each domain.
LEMMA ItemsListed ==
  ASSUME NEW op \in {"del", "add"}, NEW f \in [Domains -> SUBSET Cmds],
         NEW q, q = SetToSeq(Items(op, f))
  PROVE  /\ q \in Seq(Item)
         /\ \A i \in 1..Len(q) :
              q[i].op = op /\ q[i].domain \in Domains /\ q[i].cmds = f[q[i].domain] /\ q[i].cmds # {}
         /\ \A d \in Domains : f[d] # {} => \E i \in 1..Len(q) : q[i].domain = d /\ q[i].cmds = f[d]
<1> DEFINE S == Items(op, f)
           m == [x \in S |-> x.domain]
<1>1. \A x \in S : x \in Item /\ x.op = op /\ x.domain \in Domains /\ x.cmds = f[x.domain] /\ x.cmds # {}
  BY DEF Items, Item
<1>2. m \in Injection(S, Domains)
  <2>1. \A x, y \in S : x.domain = y.domain => x = y
    BY DEF Items
  <2> QED BY <1>1, <2>1 DEF Injection, IsInjective
<1>3. IsFiniteSet(S)
  <2> HIDE DEF S, m
  <2> QED BY <1>2, FS_Injection, FiniteAssumption
<1>4. q \in Seq(S) /\ \A x \in S : \E i \in 1..Len(q) : q[i] = x
  <2> HIDE DEF S
  <2>1. q = SetToSeq(S)
    BY DEF S
  <2> QED BY <1>3, <2>1, Listing
<1>5. \A d \in Domains : f[d] # {} => [op |-> op, domain |-> d, cmds |-> f[d]] \in S
  BY DEF Items
<1>6. /\ q \in Seq(Item)
      /\ \A i \in 1..Len(q) : q[i] \in S
  <2> HIDE DEF S
  <2>1. S \subseteq Item
    BY <1>1
  <2> QED BY <1>4, <2>1
<1>7. ASSUME NEW d \in Domains, f[d] # {}
      PROVE  \E i \in 1..Len(q) : q[i].domain = d /\ q[i].cmds = f[d]
  <2>1. PICK i \in 1..Len(q) : q[i] = [op |-> op, domain |-> d, cmds |-> f[d]]
    <3> HIDE DEF S
    <3> QED BY <1>4, <1>5, <1>7
  <2> QED BY <2>1
<1> QED BY <1>1, <1>6, <1>7

\* What has to be done to go from one registration to another: nothing is to be done for
\* a command whose weight stays.
LEMMA TodoOK ==
  ASSUME NEW old \in Info \cup {None}, NEW new \in Info \cup {None}, NEW t, t = Todo(old, new)
  PROVE  /\ t \in Seq(Item)
         /\ \A i \in 1..Len(t) : ItemOK(new, t[i])
         /\ \A d \in Domains : \A c \in Cmds :
              ~(\E i \in 1..Len(t) : t[i].domain = d /\ c \in t[i].cmds) => Weight(old, d, c) = Weight(new, d, c)
<1> DEFINE o == CmdsOf(old)
           n == CmdsOf(new)
           dels == [d \in Domains |-> o[d] \ n[d]]
           news == [d \in Domains |-> n[d] \ o[d]]
           both == [d \in Domains |-> IF old # None /\ new # None /\ old.weight # new.weight
                                      THEN o[d] \cap n[d] ELSE {}]
           q1 == SetToSeq(Items("del", dels))
           q2 == SetToSeq(Items("add", news))
           q3 == SetToSeq(Items("add", both))
<1>1. o \in [Domains -> SUBSET Cmds] /\ n \in [Domains -> SUBSET Cmds]
  BY NoneAssumption DEF CmdsOf, Info
<1>2. t = (q1 \o q2) \o q3
  BY DEF Todo
<1>3. /\ \A d \in Domains : /\ dels[d] = o[d] \ n[d] /\ news[d] = n[d] \ o[d]
                            /\ both[d] \subseteq o[d] \cap n[d]
                            /\ old # None /\ new # None /\ old.weight # new.weight => both[d] = o[d] \cap n[d]
      /\ dels \in [Domains -> SUBSET Cmds] /\ news \in [Domains -> SUBSET Cmds]
      /\ both \in [Domains -> SUBSET Cmds]
  BY <1>1
<1> HIDE DEF dels, news, both
<1>4. /\ q1 = SetToSeq(Items("del", dels)) /\ q2 = SetToSeq(Items("add", news))
       /\ q3 = SetToSeq(Items("add", both))
  OBVIOUS
<1> HIDE DEF q1, q2, q3
<1>5. /\ q1 \in Seq(Item)
      /\ \A i \in 1..Len(q1) : /\ q1[i].op = "del" /\ q1[i].domain \in Domains
                               /\ q1[i].cmds = dels[q1[i].domain] /\ q1[i].cmds # {}
      /\ \A d \in Domains : dels[d] # {} => \E i \in 1..Len(q1) : q1[i].domain = d /\ q1[i].cmds = dels[d]
  <2>1. dels \in [Domains -> SUBSET Cmds] /\ q1 = SetToSeq(Items("del", dels)) /\ "del" \in {"del", "add"}
    BY <1>3, <1>4
  <2> QED BY <2>1, ItemsListed
<1>6. /\ q2 \in Seq(Item)
      /\ \A i \in 1..Len(q2) : /\ q2[i].op = "add" /\ q2[i].domain \in Domains
                               /\ q2[i].cmds = news[q2[i].domain] /\ q2[i].cmds # {}
      /\ \A d \in Domains : news[d] # {} => \E i \in 1..Len(q2) : q2[i].domain = d /\ q2[i].cmds = news[d]
  <2>1. news \in [Domains -> SUBSET Cmds] /\ q2 = SetToSeq(Items("add", news)) /\ "add" \in {"del", "add"}
    BY <1>3, <1>4
  <2> QED BY <2>1, ItemsListed
<1>7. /\ q3 \in Seq(Item)
      /\ \A i \in 1..Len(q3) : /\ q3[i].op = "add" /\ q3[i].domain \in Domains
                               /\ q3[i].cmds = both[q3[i].domain] /\ q3[i].cmds # {}
      /\ \A d \in Domains : both[d] # {} => \E i \in 1..Len(q3) : q3[i].domain = d /\ q3[i].cmds = both[d]
  <2>1. both \in [Domains -> SUBSET Cmds] /\ q3 = SetToSeq(Items("add", both)) /\ "add" \in {"del", "add"}
    BY <1>3, <1>4
  <2> QED BY <2>1, ItemsListed
<1>8. /\ t \in Seq(Item)
      /\ \A i \in 1..Len(t) : \/ \E j \in 1..Len(q1) : t[i] = q1[j]
                              \/ \E j \in 1..Len(q2) : t[i] = q2[j]
                              \/ \E j \in 1..Len(q3) : t[i] = q3[j]
      /\ \A j \in 1..Len(q1) : \E i \in 1..Len(t) : t[i] = q1[j]
      /\ \A j \in 1..Len(q2) : \E i \in 1..Len(t) : t[i] = q2[j]
      /\ \A j \in 1..Len(q3) : \E i \in 1..Len(t) : t[i] = q3[j]
  <2> DEFINE r == q1 \o q2
  <2>1. /\ r \in Seq(Item) /\ Len(r) = Len(q1) + Len(q2)
        /\ \A i \in 1..Len(q1) + Len(q2) : r[i] = IF i <= Len(q1) THEN q1[i] ELSE q2[i - Len(q1)]
    BY <1>5, <1>6, ConcatProperties
  <2> HIDE DEF r
  <2>2. /\ t \in Seq(Item) /\ Len(t) = Len(r) + Len(q3)
        /\ \A i \in 1..Len(r) + Len(q3) : t[i] = IF i <= Len(r) THEN r[i] ELSE q3[i - Len(r)]
    <3>1. t = r \o q3
      BY <1>2 DEF r
    <3>2. /\ r \o q3 \in Seq(Item) /\ Len(r \o q3) = Len(r) + Len(q3)
          /\ \A i \in 1..Len(r) + Len(q3) : (r \o q3)[i] = IF i <= Len(r) THEN r[i] ELSE q3[i - Len(r)]
      <4>1. r \in Seq(Item) /\ q3 \in Seq(Item)
        BY <1>7, <2>1
      <4> QED BY <4>1, ConcatProperties
    <3> QED BY <3>1, <3>2, Zenon
  <2>3. Len(q1) \in Nat /\ Len(q2) \in Nat /\ Len(q3) \in Nat
    BY <1>5, <1>6, <1>7
  <2>4. ASSUME NEW i \in 1..Len(t)
        PROVE  \/ \E j \in 1..Len(q1) : t[i] = q1[j]
               \/ \E j \in 1..Len(q2) : t[i] = q2[j]
               \/ \E j \in 1..Len(q3) : t[i] = q3[j]
    <3>1. CASE i <= Len(q1)
      BY <3>1, <2>1, <2>2, <2>3
    <3>2. CASE i > Len(q1) /\ i <= Len(r)
      <4>1. i - Len(q1) \in 1..Len(q2) /\ t[i] = q2[i - Len(q1)]
        BY <3>2, <2>1, <2>2, <2>3
      <4> QED BY <4>1
    <3>3. CASE i > Len(r)
      <4>1. i - Len(r) \in 1..Len(q3) /\ t[i] = q3[i - Len(r)]
        BY <3>3, <2>1, <2>2, <2>3
      <4> QED BY <4>1
    <3> QED BY <3>1, <3>2, <3>3, <2>1, <2>2, <2>3
  <2>5. ASSUME NEW j \in 1..Len(q1)
        PROVE  \E i \in 1..Len(t) : t[i] = q1[j]
    <3>1. j \in 1..Len(t) /\ t[j] = q1[j]
      BY <2>1, <2>2, <2>3
    <3> QED BY <3>1
  <2>6. ASSUME NEW j \in 1..Len(q2)
        PROVE  \E i \in 1..Len(t) : t[i] = q2[j]
    <3>1. j + Len(q1) \in 1..Len(t) /\ t[j + Len(q1)] = q2[j]
      BY <2>1, <2>2, <2>3
    <3> QED BY <3>1
  <2>7. ASSUME NEW j \in 1..Len(q3)
        PROVE  \E i \in 1..Len(t) : t[i] = q3[j]
    <3>1. j + Len(r) \in 1..Len(t) /\ t[j + Len(r)] = q3[j]
      BY <2>1, <2>2, <2>3
    <3> QED BY <3>1
  <2> QED BY <2>2, <2>4, <2>5, <2>6, <2>7
<1>9. (\A d \in Domains : o[d] = IF old = None THEN {} ELSE old.cmds[d])
      /\ (\A d \in Domains : n[d] = IF new = None THEN {} ELSE new.cmds[d])
  BY DEF CmdsOf
<1>10. ASSUME NEW i \in 1..Len(t)
      PROVE  ItemOK(new, t[i])
  <2>1. CASE \E j \in 1..Len(q1) : t[i] = q1[j]
    <3>1. t[i].op = "del" /\ t[i].domain \in Domains /\ t[i].cmds = o[t[i].domain] \ n[t[i].domain] /\ t[i].cmds # {}
      BY <2>1, <1>3, <1>5
    <3> QED BY <3>1 DEF ItemOK
  <2>2. CASE \E j \in 1..Len(q2) : t[i] = q2[j]
    <3>1. /\ t[i].op = "add" /\ t[i].domain \in Domains /\ t[i].cmds \subseteq n[t[i].domain]
          /\ t[i].cmds # {}
      BY <2>2, <1>3, <1>6
    <3> QED BY <3>1, <1>9 DEF ItemOK
  <2>3. CASE \E j \in 1..Len(q3) : t[i] = q3[j]
    <3>1. /\ t[i].op = "add" /\ t[i].domain \in Domains /\ t[i].cmds \subseteq n[t[i].domain]
          /\ t[i].cmds # {}
      BY <2>3, <1>3, <1>7
    <3> QED BY <3>1, <1>9 DEF ItemOK
  <2> QED BY <2>1, <2>2, <2>3, <1>8
<1>11. ASSUME NEW d \in Domains, NEW c \in Cmds,
              ~(\E i \in 1..Len(t) : t[i].domain = d /\ c \in t[i].cmds)
       PROVE  Weight(old, d, c) = Weight(new, d, c)
  <2>1. c \notin dels[d]
    <3>1. ASSUME c \in dels[d] PROVE FALSE
      <4>1. PICK j \in 1..Len(q1) : q1[j].domain = d /\ q1[j].cmds = dels[d]
        BY <3>1, <1>5
      <4> QED BY <4>1, <3>1, <1>8, <1>11
    <3> QED BY <3>1
  <2>2. c \notin news[d]
    <3>1. ASSUME c \in news[d] PROVE FALSE
      <4>1. PICK j \in 1..Len(q2) : q2[j].domain = d /\ q2[j].cmds = news[d]
        BY <3>1, <1>6
      <4> QED BY <4>1, <3>1, <1>8, <1>11
    <3> QED BY <3>1
  <2>3. c \notin both[d]
    <3>1. ASSUME c \in both[d] PROVE FALSE
      <4>1. PICK j \in 1..Len(q3) : q3[j].domain = d /\ q3[j].cmds = both[d]
        BY <3>1, <1>7
      <4> QED BY <4>1, <3>1, <1>8, <1>11
    <3> QED BY <3>1
  <2>4. c \in o[d] <=> c \in n[d]
    BY <2>1, <2>2, <1>3
  <2>5. c \in o[d] /\ old # None /\ new # None => old.weight = new.weight
    BY <2>3, <2>4, <1>3
  <2> QED BY <2>4, <2>5, <1>9 DEF Weight
<1> QED BY <1>8, <1>10, <1>11

\* A call begins with what it has to do.
LEMMA CallOK ==
  ASSUME NEW old \in Info \cup {None}, NEW new \in Info \cup {None},
         NEW h, h = Call(new, Todo(old, new))
  PROVE  /\ HandlerOK(h) /\ h.pc = "domain" /\ h.new = new
         /\ \A d \in Domains : \A c \in Cmds :
              ~Pending(h, d, c) => Weight(old, d, c) = Weight(new, d, c)
<1> DEFINE t == Todo(old, new)
<1>1. /\ t \in Seq(Item) /\ \A i \in 1..Len(t) : ItemOK(new, t[i])
      /\ \A d \in Domains : \A c \in Cmds :
           ~(\E i \in 1..Len(t) : t[i].domain = d /\ c \in t[i].cmds) => Weight(old, d, c) = Weight(new, d, c)
  BY TodoOK
<1>2. h = [pc |-> "domain", new |-> new, todo |-> t, d |-> 0, s |-> 0]
  BY DEF Call
<1> HIDE DEF t
<1>3. h.pc = "domain" /\ h.new = new /\ h.todo = t /\ h.d = 0 /\ h.s = 0 /\ h \in Handler
  BY <1>1, <1>2 DEF Handler, Places
<1> QED BY <1>1, <1>3 DEF HandlerOK, HasSet, SetPlaces, Pending

\* A handler that begins or ends holds nothing.
LEMMA CallHolds ==
  ASSUME ObjInv, NEW h, NEW h2, h2.pc \in {"domain", "idle"}, UNCHANGED shared
  PROVE  HoldsOn(h, h2)
<1>1. ~HasDomain(h2) /\ ~HasSet(h2)
  BY DEF HasDomain, HasSet, SetPlaces
<1>2. PointAt(h2)
  BY <1>1 DEF PointAt
<1>3. sets \in Seq([Nodes -> Weights \cup {0}])
  BY DEF ObjInv
<1> QED BY <1>1, <1>2, <1>3, QuietHolds DEF shared

---------------------------------------------------------------------------
(* Types *)

\* At the start there are no objects and no handlers.
LEMMA InitRegistry == Init => RegistryInv
<1> SUFFICES ASSUME Init PROVE RegistryInv
  OBVIOUS
<1>1. HandInv
  <2>1. Idle \in Handler \cup {Idle} /\ Idle.pc = "idle"
    BY DEF Idle
  <2> QED BY <2>1 DEF Init, HandInv, Busy
<1>2. ObjInv
  <2>1. domains = <<>> /\ sets = <<>> /\ index = [d \in Domains |-> 0]
    BY DEF Init
  <2>2. Len(domains) = 0 /\ Len(sets) = 0
    BY <2>1
  <2> QED BY <2>1, <2>2 DEF ObjInv
<1>3. HoldInv
  <2>1. \A s \in Sessions : \A k \in Calls : handlers[s][k] = Idle /\ Idle.pc = "idle"
    BY DEF Init, Idle
  <2> QED BY <2>1 DEF HoldInv, PointAt, FreshAt, Apart, HasDomain, HasSet, SetPlaces
<1>4. RestOK
  BY BoundAssumption DEF Init, RestOK
<1> QED BY <1>1, <1>2, <1>3, <1>4 DEF RegistryInv

\* One handler moves from its place to h2, and what it does to the objects keeps them in order.
LEMMA RegistryMove ==
  ASSUME RegistryInv, NEW s \in Sessions, NEW k \in Calls, NEW h2, Goes(s, k, h2),
         HandlerOK(h2) \/ h2 = Idle, HoldsOn(handlers[s][k], h2), RestOK'
  PROVE  RegistryInv'
<1>1. handlers' = [handlers EXCEPT ![s][k] = h2]
  BY DEF Goes
<1>2. HandInv'
  BY <1>1, HandlersMove DEF RegistryInv
<1>3. ObjInv' /\ HoldInv'
  BY <1>1, HoldMove DEF RegistryInv
<1> QED BY <1>2, <1>3 DEF RegistryInv

\* Every step of set() keeps the types.
LEMMA SetStepRegistry ==
  ASSUME RegistryInv, NEW s \in Sessions, NEW k \in Calls, SetStep(s, k)
  PROVE  RegistryInv'
<1>1. PICK h2 : Goes(s, k, h2) /\ Step(handlers[s][k], h2, NodeOf[s]) /\ Keeps
  BY ActionSteps
<1>2. HandlerOK(h2)
  BY <1>1 DEF Step
<1>3. HoldsOn(handlers[s][k], h2)
  <2>1. NodeOf[s] \in Nodes
    BY NodeAssumption
  <2>2. ObjInv /\ PointAt(handlers[s][k]) /\ FreshAt(handlers[s][k])
    BY DEF RegistryInv, HoldInv
  <2> QED BY <1>1, <2>1, <2>2, StepHolds
<1>4. RestOK'
  BY <1>1 DEF Keeps, RegistryInv, RestOK
<1> QED BY <1>1, <1>2, <1>3, <1>4, RegistryMove

\* What a call that begins or ends does.
LEMMA CallRegistry ==
  ASSUME RegistryInv, NEW s \in Sessions, NEW k \in Calls, NEW h2, Goes(s, k, h2),
         HandlerOK(h2) \/ h2 = Idle, h2.pc \in {"domain", "idle"}, UNCHANGED shared, RestOK'
  PROVE  RegistryInv'
<1>1. HoldsOn(handlers[s][k], h2)
  BY CallHolds DEF RegistryInv
<1> QED BY <1>1, RegistryMove

\* The steps of a session, as moves of its handlers.
LEMMA RegisterMoves ==
  ASSUME RegistryInv, NEW s \in Sessions, NEW i \in Info, Register(s, i)
  PROVE  \E h2, new : /\ new = IF connected[s] THEN i ELSE None
                      /\ h2 = Call(new, Todo(info[s], new)) /\ Goes(s, "register", h2)
                      /\ HandlerOK(h2) /\ h2.pc = "domain" /\ h2.new = new /\ new \in Info \cup {None}
                      /\ \A d \in Domains : \A c \in Cmds :
                           ~Pending(h2, d, c) => Weight(info[s], d, c) = Weight(new, d, c)
<1> DEFINE new == IF connected[s] THEN i ELSE None
           h2 == Call(new, Todo(info[s], new))
<1>1. new \in Info \cup {None} /\ info[s] \in Info \cup {None}
  BY DEF RegistryInv, RestOK
<1>2. Goes(s, "register", h2)
  BY DEF Register, Goes
<1> HIDE DEF new
<1>3. /\ HandlerOK(h2) /\ h2.pc = "domain" /\ h2.new = new
      /\ \A d \in Domains : \A c \in Cmds :
           ~Pending(h2, d, c) => Weight(info[s], d, c) = Weight(new, d, c)
  BY <1>1, CallOK
<1>4. new = IF connected[s] THEN i ELSE None
  BY DEF new
<1> HIDE DEF h2
<1>5. h2 = Call(new, Todo(info[s], new))
  BY DEF h2
<1> QED BY <1>1, <1>2, <1>3, <1>4, <1>5

\* The call that PeerCloses begins: to register nothing.
LEMMA CloseMoves ==
  ASSUME RegistryInv, NEW s \in Sessions, PeerCloses(s)
  PROVE  \E h2 : /\ Goes(s, "close", h2)
                 /\ HandlerOK(h2) /\ h2.pc = "domain" /\ h2.new = None
                 /\ \A d \in Domains : \A c \in Cmds :
                      ~Pending(h2, d, c) => Weight(info[s], d, c) = Weight(None, d, c)
<1> DEFINE h2 == Call(None, Todo(info[s], None))
<1>1. info[s] \in Info \cup {None} /\ None \in Info \cup {None}
  BY DEF RegistryInv, RestOK
<1>2. Goes(s, "close", h2)
  BY DEF PeerCloses, Goes
<1>3. /\ HandlerOK(h2) /\ h2.pc = "domain" /\ h2.new = None
      /\ \A d \in Domains : \A c \in Cmds :
           ~Pending(h2, d, c) => Weight(info[s], d, c) = Weight(None, d, c)
  BY <1>1, CallOK
<1> HIDE DEF h2
<1> QED BY <1>2, <1>3

\* The types, and who holds what, are kept by every action.
LEMMA RegistryStep ==
  ASSUME RegistryInv, [Next]_vars
  PROVE  RegistryInv'
<1>0. "register" \in Calls /\ "close" \in Calls
  BY DEF Calls
<1>1. ASSUME NEW s \in Sessions, NEW i \in Info, Register(s, i)
      PROVE  RegistryInv'
  <2>1. PICK h2 : Goes(s, "register", h2) /\ HandlerOK(h2) /\ h2.pc = "domain"
    BY <1>1, RegisterMoves
  <2>2. RestOK' /\ UNCHANGED shared
    <3>1. registers + 1 \in 0..MaxRegisters[workers]
      BY <1>1, BoundAssumption DEF Register, RegistryInv, RestOK
    <3> QED BY <1>1, <3>1 DEF Register, RegistryInv, RestOK
  <2> QED BY <1>0, <2>1, <2>2, CallRegistry
<1>2. ASSUME NEW s \in Sessions, Refuse(s)
      PROVE  RegistryInv'
  <2>1. RestOK'
    BY <1>2 DEF Refuse, RegistryInv, RestOK
  <2>2. UNCHANGED <<index, domains, sets, handlers>>
    BY <1>2 DEF Refuse, shared
  <2> QED BY <2>1, <2>2
         DEF RegistryInv, HandInv, ObjInv, HoldInv, PointAt, FreshAt, Busy
<1>3. ASSUME NEW s \in Sessions, PeerCloses(s)
      PROVE  RegistryInv'
  <2>1. PICK h2 : Goes(s, "close", h2) /\ HandlerOK(h2) /\ h2.pc = "domain"
    BY <1>3, CloseMoves
  <2>2. RestOK' /\ UNCHANGED shared
    BY <1>3 DEF PeerCloses, RegistryInv, RestOK
  <2> QED BY <1>0, <2>1, <2>2, CallRegistry
<1>4. ASSUME NEW s \in Sessions, NEW k \in Calls, Finish(s, k)
      PROVE  RegistryInv'
  <2>1. Goes(s, k, Idle) /\ UNCHANGED shared /\ Idle.pc = "idle"
    BY <1>4 DEF Finish, Idle
  <2>2. handlers[s][k].new \in Info \cup {None}
    BY <1>4 DEF Finish, RegistryInv, HandInv, Busy, HandlerOK, Handler
  <2>3. RestOK'
    BY <1>4, <2>2 DEF Finish, RegistryInv, RestOK
  <2> QED BY <2>1, <2>3, CallRegistry
<1>5. CASE UNCHANGED vars
  BY <1>5 DEF vars, shared, RegistryInv, HandInv, ObjInv, HoldInv, PointAt, FreshAt, Busy, RestOK
<1> QED BY <1>1, <1>2, <1>3, <1>4, <1>5, SetStepRegistry DEF Next, SetStep

\* Every pointer of the registry and of the handlers leads to an object, and a listed
\* weight is one that was registered.
THEOREM Types == Spec => []TypeOK
<1>1. RegistryInv => TypeOK
  <2> SUFFICES ASSUME RegistryInv PROVE TypeOK
    OBVIOUS
  <2>1. ASSUME NEW s \in Sessions, NEW k \in Calls, Busy(s, k)
        PROVE  LET h == handlers[s][k]
               IN  /\ h.new \in Info \cup {None} /\ h.todo \in Seq(Item)
                   /\ h.d \in 0..Len(domains) /\ h.s \in 0..Len(sets)
    <3> DEFINE h == handlers[s][k]
    <3>1. HandlerOK(h) /\ h \in Handler /\ h.pc # "idle"
      BY <2>1 DEF RegistryInv, HandInv, HandlerOK, Busy
    <3>2. PointAt(h) /\ Len(domains) \in Nat /\ Len(sets) \in Nat
      BY DEF RegistryInv, HoldInv, ObjInv
    <3>3. h.d \in 0..Len(domains)
      BY <3>1, <3>2 DEF PointAt, HandlerOK, HasDomain
    <3>4. h.s \in 0..Len(sets)
      BY <3>1, <3>2 DEF PointAt, HandlerOK
    <3> QED BY <3>1, <3>3, <3>4 DEF Handler
  <2> QED BY <2>1 DEF RegistryInv, ObjInv, RestOK, TypeOK
<1> QED BY <1>1, InitRegistry, RegistryStep, PTL DEF Spec

---------------------------------------------------------------------------
(* What is listed, before and after a step *)

\* For node n the step changes nothing, or removes something: where it has replaced an
\* object, nothing is listed any more.
Fades(n) ==
  /\ \A d \in Domains : \A c \in Cmds : Listed(d, c, n)' \in {Listed(d, c, n), 0}
  /\ \A d \in Domains : index'[d] # index[d] => \A c \in Cmds : Listed(d, c, n)' = 0
  /\ \A d \in Domains : \A c \in Cmds :
       index'[d] = index[d] /\ index[d] # 0 /\ domains'[index[d]][c] # domains[index[d]][c] =>
         Listed(d, c, n)' = 0

\* The way from a command to its node set.
LEMMA LookUp ==
  ASSUME ObjInv, NEW d \in Domains, NEW c \in Cmds
  PROVE  /\ index[d] \in 0..Len(domains)
         /\ index[d] # 0 => index[d] \in 1..Len(domains) /\ domains[index[d]][c] \in 0..Len(sets)
         /\ index[d] # 0 /\ domains[index[d]][c] # 0 => domains[index[d]][c] \in 1..Len(sets)
BY DEF ObjInv

\* A handler writes weight v for node n to the set it holds: only the place it has looked
\* up can change, and only if the set is still there.
LEMMA WriteLists ==
  ASSUME ObjInv, NEW h, PointAt(h), HasSet(h), Dom(h) \in Domains, CmdOf(h) \in Cmds,
         NEW m \in Nodes, NEW v \in Weights \cup {0}, WritesSet(h.s, m, v),
         UNCHANGED <<index, domains>>, NEW n \in Nodes, NEW d \in Domains, NEW c \in Cmds
  PROVE  Listed(d, c, n)' = IF /\ n = m /\ d = Dom(h) /\ c = CmdOf(h)
                               /\ index[d] = h.d /\ domains[h.d][c] = h.s
                            THEN v ELSE Listed(d, c, n)
<1>1. /\ h.s \in 1..Len(sets) /\ h.d \in 1..Len(domains)
      /\ \A e \in Domains : index[e] = h.d => e = Dom(h)
      /\ \A x \in 1..Len(domains) : \A b \in Cmds : domains[x][b] = h.s => x = h.d /\ b = CmdOf(h)
  BY PlaceFacts DEF PointAt
<1>2. \A y \in 1..Len(sets) : sets'[y][n] = IF y = h.s /\ n = m THEN v ELSE sets[y][n]
  BY <1>1, WriteSet
<1>3. /\ index[d] # 0 => index[d] \in 1..Len(domains)
      /\ index[d] # 0 /\ domains[index[d]][c] # 0 => domains[index[d]][c] \in 1..Len(sets)
  BY LookUp
<1>4. CASE index[d] = 0 \/ domains[index[d]][c] = 0
  <2>1. Listed(d, c, n)' = 0 /\ Listed(d, c, n) = 0
    BY <1>4 DEF Listed
  <2>2. ~(index[d] = h.d /\ domains[h.d][c] = h.s)
    BY <1>1, <1>4
  <2> QED BY <2>1, <2>2
<1>5. CASE index[d] # 0 /\ domains[index[d]][c] # 0
  <2> DEFINE y == domains[index[d]][c]
  <2>1. Listed(d, c, n)' = sets'[y][n] /\ Listed(d, c, n) = sets[y][n]
    BY <1>5 DEF Listed
  <2>2. sets'[y][n] = IF y = h.s /\ n = m THEN v ELSE sets[y][n]
    BY <1>2, <1>3, <1>5
  <2>3. y = h.s <=> d = Dom(h) /\ c = CmdOf(h) /\ index[d] = h.d /\ domains[h.d][c] = h.s
    BY <1>1, <1>3, <1>5
  <2> QED BY <2>1, <2>2, <2>3
<1> QED BY <1>4, <1>5

\* The same for the handler's own node, where D and B are the domain and the command it is at.
LEMMA WriteOwn ==
  ASSUME ObjInv, NEW h, PointAt(h), HasSet(h), NEW D \in Domains, NEW B \in Cmds,
         D = Dom(h), B = CmdOf(h), NEW n \in Nodes, NEW v \in Weights \cup {0},
         WritesSet(h.s, n, v), UNCHANGED <<index, domains>>
  PROVE  \A d \in Domains : \A c \in Cmds :
           Listed(d, c, n)' = IF d = D /\ c = B /\ index[d] = h.d /\ domains[h.d][c] = h.s
                              THEN v ELSE Listed(d, c, n)
<1> SUFFICES ASSUME NEW d \in Domains, NEW c \in Cmds
             PROVE  Listed(d, c, n)' = IF d = D /\ c = B /\ index[d] = h.d /\ domains[h.d][c] = h.s
                                       THEN v ELSE Listed(d, c, n)
  OBVIOUS
<1>1. Listed(d, c, n)' = IF /\ n = n /\ d = Dom(h) /\ c = CmdOf(h)
                            /\ index[d] = h.d /\ domains[h.d][c] = h.s
                         THEN v ELSE Listed(d, c, n)
  BY WriteLists
<1> QED BY <1>1

\* The objects a step makes and those it installs list nothing.
LEMMA StepFades ==
  ASSUME ObjInv, NEW h, NEW h2, NEW m \in Nodes, Step(h, h2, m), PointAt(h), FreshAt(h),
         NEW n \in Nodes, n # m \/ h.pc # "addNode"
  PROVE  Fades(n)
<1>0. HandlerOK(h) /\ h.todo # <<>> /\ Dom(h) \in Domains /\ CmdOf(h) \in Cmds
  BY HeadFacts DEF Step
<1>1. CASE UNCHANGED shared
  BY <1>1 DEF Fades, Listed, shared
<1>2. CASE MakesDomain(h, h2)
  <2>1. UNCHANGED <<index, sets>> /\ \A x \in 1..Len(domains) : domains'[x] = domains[x]
    <3> DEFINE e == [c \in Cmds |-> 0]
    <3>1. e \in [Cmds -> 0..Len(sets)] /\ domains \in Seq([Cmds -> 0..Len(sets)])
      BY DEF ObjInv
    <3>2. domains' = Append(domains, e) /\ UNCHANGED <<index, sets>>
      BY <1>2 DEF MakesDomain
    <3> HIDE DEF e
    <3> QED BY <3>1, <3>2, AppendProperties
  <2>2. ASSUME NEW d \in Domains, NEW c \in Cmds
        PROVE  /\ Listed(d, c, n)' = Listed(d, c, n)
               /\ index[d] # 0 => domains'[index[d]][c] = domains[index[d]][c]
    <3>1. index[d] # 0 => index[d] \in 1..Len(domains)
      BY LookUp
    <3> QED BY <2>1, <3>1 DEF Listed
  <2> QED BY <2>1, <2>2 DEF Fades
<1>3. CASE AddsDomain(h, h2)
  <2>1. h.pc = "addDomain" /\ index' = [index EXCEPT ![Dom(h)] = h.d] /\ UNCHANGED <<domains, sets>>
    BY <1>3 DEF AddsDomain
  <2>2. \A c \in Cmds : domains[h.d][c] = 0
    BY <2>1 DEF FreshAt
  <2>3. \A d \in Domains : index'[d] = IF d = Dom(h) THEN h.d ELSE index[d]
    BY <2>1 DEF ObjInv
  <2>4. ASSUME NEW d \in Domains, NEW c \in Cmds
        PROVE  Listed(d, c, n)' = IF d = Dom(h) THEN 0 ELSE Listed(d, c, n)
    BY <2>1, <2>2, <2>3 DEF Listed
  <2> QED BY <2>1, <2>3, <2>4 DEF Fades
<1>4. CASE MakesSet(h, h2)
  <2>1. UNCHANGED <<index, domains>> /\ \A x \in 1..Len(sets) : sets'[x] = sets[x]
    <3> DEFINE e == [k \in Nodes |-> 0]
    <3>1. e \in [Nodes -> Weights \cup {0}] /\ sets \in Seq([Nodes -> Weights \cup {0}])
      BY DEF ObjInv
    <3>2. sets' = Append(sets, e) /\ UNCHANGED <<index, domains>>
      BY <1>4 DEF MakesSet
    <3> HIDE DEF e
    <3> QED BY <3>1, <3>2, AppendProperties
  <2>2. ASSUME NEW d \in Domains, NEW c \in Cmds
        PROVE  Listed(d, c, n)' = Listed(d, c, n)
    <3>1. index[d] # 0 /\ domains[index[d]][c] # 0 => domains[index[d]][c] \in 1..Len(sets)
      BY LookUp
    <3> QED BY <2>1, <3>1 DEF Listed
  <2> QED BY <2>1, <2>2 DEF Fades
<1>5. CASE AddsSet(h, h2) \/ DelsSet(h, h2)
  <2> DEFINE v == IF h.pc = "addSet" THEN h.s ELSE 0
  <2>1. /\ h.pc \in {"addSet", "delSet"} /\ UNCHANGED <<index, sets>>
        /\ domains' = [domains EXCEPT ![h.d][CmdOf(h)] = v]
    BY <1>5 DEF AddsSet, DelsSet
  <2>2. /\ h.d \in 1..Len(domains) /\ \A d \in Domains : index[d] = h.d => d = Dom(h)
    BY <2>1, PlaceFacts DEF PointAt
  <2>3. \A x \in 1..Len(domains) : \A c \in Cmds :
          domains'[x][c] = IF x = h.d /\ c = CmdOf(h) THEN v ELSE domains[x][c]
    <3>1. v \in 0..Len(sets) /\ (v = 0 \/ \A y \in 1..Len(domains) : \A c \in Cmds : domains[y][c] # v)
      BY <2>1, PlaceFacts DEF PointAt, FreshAt, ObjInv
    <3>2. Writes(h.d, CmdOf(h), v)
      BY <2>1 DEF Writes
    <3> HIDE DEF v
    <3> QED BY <1>0, <2>1, <2>2, <3>1, <3>2, WriteDomain
  <2>4. v # 0 => sets[v][n] = 0
    BY <2>1 DEF FreshAt
  <2> HIDE DEF v
  <2>5. ASSUME NEW d \in Domains, NEW c \in Cmds
        PROVE  /\ Listed(d, c, n)' \in {Listed(d, c, n), 0}
               /\ index[d] # 0 /\ domains'[index[d]][c] # domains[index[d]][c] => Listed(d, c, n)' = 0
    <3>1. index[d] # 0 => index[d] \in 1..Len(domains)
      BY LookUp
    <3>2. CASE index[d] = h.d /\ c = CmdOf(h)
      <4>1. index'[d] # 0 /\ domains'[index[d]][c] = v
        BY <2>1, <2>2, <2>3, <3>2
      <4> QED BY <2>1, <2>4, <4>1 DEF Listed
    <3>3. CASE ~(index[d] = h.d /\ c = CmdOf(h))
      <4>1. index[d] # 0 => domains'[index[d]][c] = domains[index[d]][c]
        BY <2>3, <3>1, <3>3
      <4> QED BY <2>1, <4>1 DEF Listed
    <3> QED BY <3>2, <3>3
  <2> QED BY <2>1, <2>5 DEF Fades
<1>6. CASE AddsNode(h, h2, m) \/ DelsNode(h, h2, m)
  <2> DEFINE v == IF h.pc = "addNode" THEN h.new.weight ELSE 0
  <2>1. /\ HasSet(h) /\ UNCHANGED <<index, domains>> /\ WritesSet(h.s, m, v)
        /\ n = m => v = 0
    BY <1>6, PlaceFacts DEF AddsNode, DelsNode, WritesSet
  <2>2. v \in Weights \cup {0}
    BY <1>0, NewWeight DEF HandlerOK
  <2> HIDE DEF v
  <2>3. ASSUME NEW d \in Domains, NEW c \in Cmds
        PROVE  Listed(d, c, n)' \in {Listed(d, c, n), 0}
    BY <1>0, <2>1, <2>2, WriteLists
  <2> QED BY <2>1, <2>3 DEF Fades
<1>7. CASE UNCHANGED shared \/ MakesDomain(h, h2) \/ AddsDomain(h, h2) \/ MakesSet(h, h2)
           \/ AddsSet(h, h2) \/ DelsSet(h, h2) \/ AddsNode(h, h2, m) \/ DelsNode(h, h2, m)
  BY <1>1, <1>2, <1>3, <1>4, <1>5, <1>6, <1>7
<1> QED BY <1>7 DEF Step, FindsDomain, MissesDomain, FindsSet, MissesSet, TestsSize

---------------------------------------------------------------------------
(* Nothing is left behind *)

\* A handler g that does not move, of a session for whose node the step fades.
LEMMA FadesOwn ==
  ASSUME NEW n, Fades(n), NEW g, NEW i, OwnAt(g, i, n),
         HasDomain(g) => Dom(g) \in Domains /\ CmdOf(g) \in Cmds /\ (g.pc # "addDomain" => g.d # 0)
  PROVE  OwnAt(g, i, n)'
<1>1. ASSUME NEW d \in Domains, NEW c \in Cmds
      PROVE  /\ Listed(d, c, n)' \in {0, Weight(i, d, c), Weight(g.new, d, c)}
             /\ ~Pending(g, d, c) => Listed(d, c, n)' \in {0, Weight(g.new, d, c)}
  <2>1. Listed(d, c, n)' \in {Listed(d, c, n), 0}
    BY DEF Fades
  <2> QED BY <2>1 DEF OwnAt
<1>2. ASSUME HasDomain(g), g.pc # "addDomain", index'[Dom(g)] # g.d, NEW c \in Cmds
      PROVE  Listed(Dom(g), c, n)' = 0
  <2>1. PICK d \in Domains : d = Dom(g)
    BY <1>2
  <2>2. Listed(d, c, n)' = 0
    <3>1. CASE index[d] = g.d
      BY <1>2, <2>1, <3>1 DEF Fades
    <3>2. CASE index[d] # g.d
      <4>1. Listed(d, c, n) = 0
        BY <1>2, <2>1, <3>2 DEF OwnAt
      <4> QED BY <4>1 DEF Fades
    <3> QED BY <3>1, <3>2
  <2> QED BY <2>1, <2>2
<1>3. ASSUME HasSet(g), g.pc # "addSet", domains'[g.d][CmdOf(g)] # g.s
      PROVE  Listed(Dom(g), CmdOf(g), n)' = 0
  <2>0. HasDomain(g) /\ g.pc # "addDomain"
    BY <1>3, PlaceFacts
  <2>1. PICK d \in Domains, c \in Cmds : d = Dom(g) /\ c = CmdOf(g)
    BY <2>0
  <2>2. Listed(d, c, n)' = 0
    <3>1. CASE index'[d] # g.d
      BY <1>2, <2>0, <2>1, <3>1
    <3>2. CASE index'[d] = g.d /\ index[d] # g.d
      BY <2>1, <3>2 DEF Fades
    <3>3. CASE index'[d] = g.d /\ index[d] = g.d
      <4>1. CASE domains[g.d][c] = g.s
        BY <1>3, <2>0, <2>1, <3>3, <4>1 DEF Fades
      <4>2. CASE domains[g.d][c] # g.s
        <5>1. Listed(d, c, n) = 0
          BY <1>3, <2>1, <4>2 DEF OwnAt
        <5> QED BY <5>1 DEF Fades
      <4> QED BY <4>1, <4>2
    <3> QED BY <3>1, <3>2, <3>3
  <2> QED BY <2>1, <2>2
<1>4. ASSUME g.pc \in {"size", "delSet"}
      PROVE  Listed(Dom(g), CmdOf(g), n)' = 0
  <2>0. HasDomain(g)
    BY <1>4 DEF HasDomain
  <2>1. PICK d \in Domains, c \in Cmds : d = Dom(g) /\ c = CmdOf(g)
    BY <2>0
  <2>2. Listed(d, c, n) = 0
    BY <1>4, <2>1 DEF OwnAt
  <2>3. Listed(d, c, n)' = 0
    BY <2>2 DEF Fades
  <2> QED BY <2>1, <2>3
<1> QED BY <1>1, <1>2, <1>3, <1>4 DEF OwnAt

\* After a step of h that has done with commands C, nothing but 0 and the new weight is
\* listed for them, and nothing where the domain object it holds has been replaced.
OnlyNew(h, C, i, n) ==
  \A d \in Domains : \A c \in Cmds :
    /\ Listed(d, c, n)' \in {0, Weight(i, d, c), Weight(h.new, d, c)}
    /\ ~Pending(h, d, c) \/ (d = Dom(h) /\ c \in C) => Listed(d, c, n)' \in {0, Weight(h.new, d, c)}
    /\ d = Dom(h) /\ HasDomain(h) /\ index'[d] # h.d => Listed(d, c, n)' = 0

\* A handler that has done with commands C.
LEMMA DropsOwn ==
  ASSUME NEW h, NEW h2, NEW C, Drops(h, h2, C), NEW n, NEW i, Dom(h) \in Domains,
         OnlyNew(h, C, i, n)
  PROVE  OwnAt(h2, i, n)'
<1>1. h2.new = h.new /\ h2.pc \notin SetPlaces /\ ~HasSet(h2)
  BY DEF Drops, SetPlaces, HasSet
<1>2. ASSUME NEW d \in Domains, NEW c \in Cmds
      PROVE  /\ Listed(d, c, n)' \in {0, Weight(i, d, c), Weight(h2.new, d, c)}
             /\ ~Pending(h2, d, c) => Listed(d, c, n)' \in {0, Weight(h2.new, d, c)}
  <2>1. Pending(h, d, c) => Pending(h2, d, c) \/ (d = Dom(h) /\ c \in C)
    BY DEF Drops
  <2> QED BY <1>1, <2>1 DEF OnlyNew
<1>3. ASSUME HasDomain(h2), index'[Dom(h2)] # h2.d, NEW c \in Cmds
      PROVE  Listed(Dom(h2), c, n)' = 0
  <2>1. HasDomain(h) /\ h2.d = h.d /\ Dom(h2) = Dom(h)
    BY <1>3 DEF Drops, HasDomain
  <2>2. PICK d \in Domains : d = Dom(h)
    OBVIOUS
  <2>3. Listed(d, c, n)' = 0
    BY <1>3, <2>1, <2>2 DEF OnlyNew
  <2> QED BY <2>1, <2>2, <2>3
<1> QED BY <1>1, <1>2, <1>3 DEF OwnAt, SetPlaces

\* The handler goes on: it has looked up where its node may be listed.
LEMMA GoesOwn ==
  ASSUME NEW h, NEW h2, NEW p, NEW x, NEW y, GoesOn(h, h2, p, x, y), NEW n, NEW i,
         Dom(h) \in Domains, CmdOf(h) \in Cmds,
         \A d \in Domains : \A c \in Cmds :
           /\ Listed(d, c, n)' \in {0, Weight(i, d, c), Weight(h.new, d, c)}
           /\ ~Pending(h, d, c) => Listed(d, c, n)' \in {0, Weight(h.new, d, c)}
           /\ d = Dom(h) /\ p \notin {"domain", "addDomain"} /\ index'[d] # x => Listed(d, c, n)' = 0
           /\ d = Dom(h) /\ c = CmdOf(h) /\ p \in SetPlaces \ {"addSet"} /\ domains'[x][c] # y =>
                Listed(d, c, n)' = 0
           /\ d = Dom(h) /\ c = CmdOf(h) /\ p \in {"size", "delSet"} => Listed(d, c, n)' = 0
  PROVE  OwnAt(h2, i, n)'
<1>1. /\ h2.new = h.new /\ h2.pc = p /\ h2.d = x /\ h2.s = y /\ Dom(h2) = Dom(h) /\ CmdOf(h2) = CmdOf(h)
      /\ \A d, c : Pending(h2, d, c) <=> Pending(h, d, c)
  BY SameList DEF GoesOn
<1>2. PICK d \in Domains, c \in Cmds : d = Dom(h) /\ c = CmdOf(h)
  OBVIOUS
<1>3. ASSUME NEW e \in Domains, NEW b \in Cmds
      PROVE  /\ Listed(e, b, n)' \in {0, Weight(i, e, b), Weight(h2.new, e, b)}
             /\ ~Pending(h2, e, b) => Listed(e, b, n)' \in {0, Weight(h2.new, e, b)}
  BY <1>1
<1>4. ASSUME HasDomain(h2), h2.pc # "addDomain", index'[Dom(h2)] # h2.d, NEW b \in Cmds
      PROVE  Listed(Dom(h2), b, n)' = 0
  <2>1. Listed(d, b, n)' = 0
    BY <1>1, <1>2, <1>4 DEF HasDomain
  <2> QED BY <1>1, <1>2, <2>1
<1>5. ASSUME HasSet(h2), h2.pc # "addSet", domains'[h2.d][CmdOf(h2)] # h2.s
      PROVE  Listed(Dom(h2), CmdOf(h2), n)' = 0
  <2>1. Listed(d, c, n)' = 0
    BY <1>1, <1>2, <1>5 DEF HasSet
  <2> QED BY <1>1, <1>2, <2>1
<1>6. ASSUME h2.pc \in {"size", "delSet"}
      PROVE  Listed(Dom(h2), CmdOf(h2), n)' = 0
  <2>1. Listed(d, c, n)' = 0
    BY <1>1, <1>2, <1>6
  <2> QED BY <1>1, <1>2, <2>1
<1> QED BY <1>3, <1>4, <1>5, <1>6 DEF OwnAt

\* A step of a session's own handler.
LEMMA StepOwn ==
  ASSUME ObjInv, NEW h, NEW h2, NEW n \in Nodes, Step(h, h2, n), PointAt(h), FreshAt(h),
         NEW i, OwnAt(h, i, n)
  PROVE  OwnAt(h2, i, n)'
<1>0. HandlerOK(h) /\ h.todo # <<>> /\ Dom(h) \in Domains /\ CmdOf(h) \in Cmds
  BY HeadFacts DEF Step
<1>1. HasDomain(h) => h.d \in 1..Len(domains) /\ h.d # 0
  BY DEF PointAt
<1>2. PICK D \in Domains, B \in Cmds : D = Dom(h) /\ B = CmdOf(h)
  BY <1>0
<1>3. CASE AddsNode(h, h2, n)
  <2>1. /\ HasSet(h) /\ HasDomain(h) /\ UNCHANGED <<index, domains>> /\ WritesSet(h.s, n, h.new.weight)
        /\ Drops(h, h2, {CmdOf(h)}) /\ h.pc = "addNode"
    BY <1>3, PlaceFacts DEF AddsNode, WritesSet
  <2>2. h.new.weight \in Weights \cup {0} /\ Weight(h.new, D, B) = h.new.weight
    BY <1>0, <1>2, <2>1, NewWeight DEF HandlerOK, Weight
  <2>3. \A d \in Domains : \A c \in Cmds :
          Listed(d, c, n)' = IF d = D /\ c = B /\ index[d] = h.d /\ domains[h.d][c] = h.s
                             THEN h.new.weight ELSE Listed(d, c, n)
    BY <1>2, <2>1, <2>2, WriteOwn
  <2>4. ASSUME NEW d \in Domains, NEW c \in Cmds
        PROVE  /\ Listed(d, c, n)' \in {0, Weight(i, d, c), Weight(h.new, d, c)}
               /\ ~Pending(h, d, c) => Listed(d, c, n)' \in {0, Weight(h.new, d, c)}
    BY <2>2, <2>3 DEF OwnAt
  <2>5. ASSUME NEW c \in Cmds, index'[D] # h.d
        PROVE  Listed(D, c, n)' = 0
    <3>1. Listed(D, c, n) = 0
      BY <1>2, <2>1, <2>5 DEF OwnAt
    <3> QED BY <2>1, <2>3, <2>5, <3>1
  <2>6. Listed(D, B, n)' \in {0, Weight(h.new, D, B)}
    <3>1. CASE index[D] = h.d /\ domains[h.d][B] = h.s
      BY <2>2, <2>3, <3>1
    <3>2. CASE ~(index[D] = h.d /\ domains[h.d][B] = h.s)
      BY <1>2, <2>1, <2>3, <3>2 DEF OwnAt
    <3> QED BY <3>1, <3>2
  <2>7. OnlyNew(h, {CmdOf(h)}, i, n)
    BY <1>2, <2>4, <2>5, <2>6 DEF OnlyNew
  <2> QED BY <1>0, <2>1, <2>7, DropsOwn
<1>4. CASE h.pc # "addNode"
  <2>1. Fades(n)
    BY <1>4, StepFades
  <2>2. OwnAt(h, i, n)'
    BY <1>0, <1>1, <2>1, FadesOwn
  <2>3. \A d \in Domains : \A c \in Cmds :
           /\ Listed(d, c, n)' \in {0, Weight(i, d, c), Weight(h.new, d, c)}
           /\ ~Pending(h, d, c) => Listed(d, c, n)' \in {0, Weight(h.new, d, c)}
    BY <2>2 DEF OwnAt
  <2>4. ASSUME HasDomain(h), h.pc # "addDomain", index'[D] # h.d, NEW c \in Cmds
        PROVE  Listed(D, c, n)' = 0
    BY <1>2, <2>2, <2>4 DEF OwnAt
  <2>5. ASSUME HasSet(h), h.pc # "addSet", domains'[h.d][B] # h.s
        PROVE  Listed(D, B, n)' = 0
    BY <1>2, <2>2, <2>5 DEF OwnAt
  <2>6. ASSUME h.pc \in {"size", "delSet"}
        PROVE  Listed(D, B, n)' = 0
    BY <1>2, <2>2, <2>6 DEF OwnAt
  <2>7. CASE FindsDomain(h, h2)
    <3>1. GoesOn(h, h2, "cmd", index[Dom(h)], 0) /\ index' = index
      BY <2>7 DEF FindsDomain, shared
    <3> QED BY <1>0, <2>3, <3>1, GoesOwn DEF SetPlaces
  <2>8. CASE MissesDomain(h, h2)
    <3>1. /\ Drops(h, h2, Head(h.todo).cmds) /\ ~HasDomain(h) /\ index[D] = 0 /\ index' = index
      BY <1>2, <2>8 DEF MissesDomain, HasDomain, shared
    <3>2. \A c \in Cmds : Listed(D, c, n)' = 0
      BY <3>1 DEF Listed
    <3>3. OnlyNew(h, Head(h.todo).cmds, i, n)
      BY <1>2, <2>3, <3>1, <3>2 DEF OnlyNew
    <3> QED BY <1>0, <3>1, <3>3, DropsOwn
  <2>9. CASE MakesDomain(h, h2)
    <3>1. GoesOn(h, h2, "addDomain", Len(domains) + 1, 0)
      BY <2>9 DEF MakesDomain
    <3> QED BY <1>0, <2>3, <3>1, GoesOwn DEF SetPlaces
  <2>10. CASE AddsDomain(h, h2)
    <3>1. GoesOn(h, h2, "cmd", h.d, 0) /\ index' = [index EXCEPT ![Dom(h)] = h.d]
      BY <2>10 DEF AddsDomain
    <3>2. index'[D] = h.d
      BY <1>2, <3>1 DEF ObjInv
    <3> QED BY <1>0, <1>2, <2>3, <3>1, <3>2, GoesOwn DEF SetPlaces
  <2>11. CASE FindsSet(h, h2)
    <3> DEFINE p == IF Head(h.todo).op = "del" THEN "delNode" ELSE "addNode"
    <3>1. /\ GoesOn(h, h2, p, h.d, domains[h.d][CmdOf(h)]) /\ domains' = domains
          /\ HasDomain(h) /\ h.pc # "addDomain" /\ p \in {"delNode", "addNode"}
      BY <2>11 DEF FindsSet, shared, HasDomain
    <3> HIDE DEF p
    <3>2. \A c \in Cmds : index'[D] # h.d => Listed(D, c, n)' = 0
      BY <2>4, <3>1
    <3> QED BY <1>0, <1>2, <2>3, <3>1, <3>2, GoesOwn
  <2>12. CASE MissesSet(h, h2)
    <3>1. /\ Drops(h, h2, {CmdOf(h)}) /\ HasDomain(h) /\ h.pc # "addDomain"
          /\ domains[h.d][B] = 0 /\ UNCHANGED <<index, domains>>
      BY <1>2, <2>12 DEF MissesSet, HasDomain, shared
    <3>2. Listed(D, B, n)' = 0
      <4>1. CASE index'[D] = h.d
        BY <3>1, <4>1 DEF Listed
      <4> QED BY <2>4, <3>1, <4>1
    <3>3. \A c \in Cmds : index'[D] # h.d => Listed(D, c, n)' = 0
      BY <2>4, <3>1
    <3>4. OnlyNew(h, {CmdOf(h)}, i, n)
      BY <1>2, <2>3, <3>1, <3>2, <3>3 DEF OnlyNew
    <3> QED BY <1>0, <3>1, <3>4, DropsOwn
  <2>13. CASE MakesSet(h, h2)
    <3>1. GoesOn(h, h2, "addSet", h.d, Len(sets) + 1) /\ HasDomain(h) /\ h.pc # "addDomain"
      BY <2>13 DEF MakesSet, HasDomain
    <3>2. \A c \in Cmds : index'[D] # h.d => Listed(D, c, n)' = 0
      BY <2>4, <3>1
    <3> QED BY <1>0, <1>2, <2>3, <3>1, <3>2, GoesOwn DEF SetPlaces
  <2>14. CASE AddsSet(h, h2)
    <3>1. /\ GoesOn(h, h2, "addNode", h.d, h.s) /\ HasDomain(h) /\ h.pc # "addDomain"
          /\ domains' = [domains EXCEPT ![h.d][CmdOf(h)] = h.s]
      BY <2>14 DEF AddsSet, HasDomain
    <3>2. domains'[h.d][B] = h.s
      BY <1>1, <1>2, <3>1 DEF ObjInv
    <3>3. \A c \in Cmds : index'[D] # h.d => Listed(D, c, n)' = 0
      BY <2>4, <3>1
    <3> QED BY <1>0, <1>2, <2>3, <3>1, <3>2, <3>3, GoesOwn DEF SetPlaces
  <2>15. CASE DelsNode(h, h2, n)
    <3>1. /\ GoesOn(h, h2, "size", h.d, h.s) /\ HasDomain(h) /\ HasSet(h) /\ h.pc = "delNode"
          /\ UNCHANGED <<index, domains>> /\ WritesSet(h.s, n, 0)
      BY <2>15, PlaceFacts DEF DelsNode, WritesSet
    <3>2. Listed(D, B, n)' = IF index[D] = h.d /\ domains[h.d][B] = h.s THEN 0 ELSE Listed(D, B, n)
      BY <1>2, <3>1, WriteOwn
    <3>3. Listed(D, B, n)' = 0
      BY <1>2, <2>4, <2>5, <3>1, <3>2
    <3>4. \A c \in Cmds : index'[D] # h.d => Listed(D, c, n)' = 0
      BY <2>4, <3>1
    <3>5. domains'[h.d][B] # h.s => Listed(D, B, n)' = 0
      BY <3>3
    <3> QED BY <1>0, <1>2, <2>3, <3>1, <3>3, <3>4, <3>5, GoesOwn
  <2>16. CASE TestsSize(h, h2)
    <3>1. HasDomain(h) /\ HasSet(h) /\ h.pc = "size"
      BY <2>16, PlaceFacts DEF TestsSize
    <3>2. Listed(D, B, n)' = 0
      BY <2>6, <3>1
    <3>3. \A c \in Cmds : index'[D] # h.d => Listed(D, c, n)' = 0
      BY <2>4, <3>1
    <3>4. CASE GoesOn(h, h2, "delSet", h.d, h.s)
      BY <1>0, <1>2, <2>3, <3>2, <3>3, <3>4, GoesOwn
    <3>5. CASE Drops(h, h2, {CmdOf(h)})
      <4>1. OnlyNew(h, {CmdOf(h)}, i, n)
        BY <1>2, <2>3, <3>2, <3>3 DEF OnlyNew
      <4> QED BY <1>0, <3>5, <4>1, DropsOwn
    <3> QED BY <2>16, <3>4, <3>5 DEF TestsSize
  <2>17. CASE DelsSet(h, h2)
    <3>1. HasDomain(h) /\ h.pc = "delSet" /\ Drops(h, h2, {CmdOf(h)})
      BY <2>17 DEF DelsSet, HasDomain
    <3>2. Listed(D, B, n)' = 0
      BY <2>6, <3>1
    <3>3. \A c \in Cmds : index'[D] # h.d => Listed(D, c, n)' = 0
      BY <2>4, <3>1
    <3>4. OnlyNew(h, {CmdOf(h)}, i, n)
      BY <1>2, <2>3, <3>2, <3>3 DEF OnlyNew
    <3> QED BY <1>0, <3>1, <3>4, DropsOwn
  <2> QED BY <1>4, <2>7, <2>8, <2>9, <2>10, <2>11, <2>12, <2>13, <2>14, <2>15, <2>16, <2>17
          DEF Step, AddsNode
<1> QED BY <1>3, <1>4 DEF Step, FindsDomain, MissesDomain, MakesDomain, AddsDomain, FindsSet,
            MissesSet, MakesSet, AddsSet, DelsNode, TestsSize, DelsSet

\* Every session has a node of its own.
OwnNodes == \A s, u \in Sessions : NodeOf[s] = NodeOf[u] => s = u

\* Nothing of the registry moves.
LEMMA StillFades ==
  ASSUME UNCHANGED shared, NEW n
  PROVE  Fades(n)
BY DEF Fades, Listed, shared

\* A handler that does not move.
LEMMA StaysOwn ==
  ASSUME RegistryInv, NEW u \in Sessions, NEW k \in Calls, Busy(u, k), Fades(NodeOf[u]),
         NEW g, g = handlers[u][k], NEW i, OwnAt(g, i, NodeOf[u])
  PROVE  OwnAt(g, i, NodeOf[u])'
<1>1. HandlerOK(g) /\ PointAt(g)
  BY DEF RegistryInv, HandInv, HoldInv
<1>2. HasDomain(g) => Dom(g) \in Domains /\ CmdOf(g) \in Cmds /\ g.d # 0
  <2>1. HasDomain(g) => g.todo # <<>>
    BY <1>1 DEF HandlerOK, HasDomain
  <2>2. HasDomain(g) => g.d # 0
    BY <1>1 DEF PointAt
  <2> QED BY <1>1, <2>1, <2>2, HeadFacts
<1>3. PICK n : n = NodeOf[u]
  OBVIOUS
<1>4. OwnAt(g, i, n)'
  BY <1>2, <1>3, FadesOwn
<1> QED BY <1>3, <1>4

\* A session of which nothing moves.
LEMMA GhostStays ==
  ASSUME RegistryInv, NEW u \in Sessions, GhostAt(u), Fades(NodeOf[u]),
         handlers'[u] = handlers[u], info'[u] = info[u],
         ~connected'[u] /\ u \notin expelled' => ~connected[u] /\ u \notin expelled
  PROVE  GhostAt(u)'
<1> PICK n : n = NodeOf[u]
  OBVIOUS
<1> PICK i : i = info[u]
  OBVIOUS
<1>1. ASSUME \A k \in Calls : ~Busy(u, k)
      PROVE  RestsAt(info[u], NodeOf[u])'
  <2>1. RestsAt(i, n)
    BY <1>1 DEF GhostAt
  <2>2. RestsAt(i, n)'
    BY <2>1 DEF RestsAt, Fades
  <2> QED BY <2>2 DEF RestsAt
<1>2. ASSUME NEW k \in Calls, Busy(u, k)
      PROVE  OwnAt(handlers[u][k], info[u], NodeOf[u])'
  <2> PICK g : g = handlers[u][k]
    OBVIOUS
  <2>1. OwnAt(g, i, NodeOf[u])
    BY <1>2 DEF GhostAt
  <2>2. OwnAt(g, i, NodeOf[u])'
    BY <1>2, <2>1, StaysOwn
  <2> QED BY <2>2 DEF OwnAt
<1>3. \A k \in Calls : Busy(u, k)' <=> Busy(u, k)
  BY DEF Busy
<1> QED BY <1>1, <1>2, <1>3 DEF GhostAt

\* The sessions that do not take the step.
LEMMA GhostOthers ==
  ASSUME OwnNodes, RegistryInv, GhostInv, NEW s \in Sessions, NEW k \in Calls, NEW h2,
         Goes(s, k, h2), overlapped \subseteq overlapped', expelled' = expelled,
         \A u \in Sessions \ {s} : info'[u] = info[u] /\ connected'[u] = connected[u],
         \A n \in Nodes : n # NodeOf[s] => Fades(n),
         s \notin overlapped' => GhostAt(s)'
  PROVE  GhostInv'
<1> SUFFICES ASSUME NEW u \in Sessions, u \notin overlapped', u # s
             PROVE  GhostAt(u)'
  BY DEF GhostInv
<1>1. GhostAt(u)
  BY DEF GhostInv
<1>2. handlers'[u] = handlers[u]
  BY DEF Goes, RegistryInv, HandInv
<1>3. Fades(NodeOf[u])
  BY NodeAssumption DEF OwnNodes
<1> QED BY <1>1, <1>2, <1>3, GhostStays

\* A step of set(): its own session by StepOwn, the others by StepFades.
LEMMA SetStepGhost ==
  ASSUME OwnNodes, RegistryInv, GhostInv, NEW s \in Sessions, NEW k \in Calls, SetStep(s, k)
  PROVE  GhostInv'
<1>1. PICK h2 : Goes(s, k, h2) /\ Step(handlers[s][k], h2, NodeOf[s]) /\ Keeps
  BY ActionSteps
<1> PICK h : h = handlers[s][k]
  OBVIOUS
<1> PICK n : n = NodeOf[s]
  OBVIOUS
<1> PICK i : i = info[s]
  OBVIOUS
<1>2. /\ n \in Nodes /\ ObjInv /\ PointAt(h) /\ FreshAt(h) /\ Step(h, h2, n)
      /\ UNCHANGED <<info, connected, expelled, overlapped>>
  BY <1>1, NodeAssumption DEF RegistryInv, HoldInv, Keeps
<1>3. \A m \in Nodes : m # n => Fades(m)
  BY <1>2, StepFades
<1>4. /\ \A j \in Calls : handlers'[s][j] = IF j = k THEN h2 ELSE handlers[s][j]
      /\ h.pc # "idle" /\ h2.pc # "idle" /\ h2.new = h.new
  <2>1. HandlerOK(h) /\ HandlerOK(h2) /\ h \in Handler /\ h2 \in Handler /\ h2.new = h.new
    BY <1>2 DEF Step, HandlerOK, FindsDomain, MissesDomain, MakesDomain, AddsDomain, FindsSet,
       MissesSet, MakesSet, AddsSet, AddsNode, DelsNode, TestsSize, DelsSet, GoesOn, Drops
  <2>2. h.pc # "idle" /\ h2.pc # "idle"
    BY <2>1 DEF Handler, Places, SetPlaces
  <2> QED BY <1>1, <2>1, <2>2 DEF Goes, RegistryInv, HandInv
<1>5. ASSUME s \notin overlapped
      PROVE  GhostAt(s)'
  <2>1. /\ \A j \in Calls : Busy(s, j) => j = k
        /\ OwnAt(h, i, n) /\ (k = "close" => h.new = None)
        /\ ~connected[s] /\ s \notin expelled => info[s] = None /\ h.new = None
    BY <1>4, <1>5 DEF GhostInv, GhostAt, Busy
  <2>2. OwnAt(h2, i, n)'
    BY <1>2, <2>1, StepOwn
  <2>3. \A j \in Calls : Busy(s, j)' <=> j = k
    BY <1>4, <2>1 DEF Busy
  <2>4. OwnAt(handlers[s][k], info[s], NodeOf[s])'
    <3>1. handlers'[s][k] = h2 /\ info'[s] = i
      BY <1>2, <1>4
    <3> QED BY <2>2, <3>1 DEF OwnAt
  <2>5. handlers'[s][k].new = h.new /\ UNCHANGED <<info, connected, expelled>>
    BY <1>2, <1>4
  <2> QED BY <2>1, <2>3, <2>4, <2>5 DEF GhostAt
<1> QED BY <1>1, <1>2, <1>3, <1>5, GhostOthers

\* A call begins: as before if nothing was changed, and nothing is changed yet.
LEMMA BeginsOwn ==
  ASSUME UNCHANGED shared, NEW h2, h2.pc = "domain", NEW i, NEW n, RestsAt(i, n),
         \A d \in Domains : \A c \in Cmds : ~Pending(h2, d, c) => Weight(i, d, c) = Weight(h2.new, d, c)
  PROVE  OwnAt(h2, i, n)'
<1>1. \A d \in Domains : \A c \in Cmds : Listed(d, c, n)' = Listed(d, c, n)
  BY DEF Listed, shared
<1>2. ~HasDomain(h2) /\ ~HasSet(h2)
  BY DEF HasDomain, HasSet, SetPlaces
<1> QED BY <1>1, <1>2 DEF OwnAt, RestsAt

\* A call begins in a session that has no other.
LEMMA BeginsGhost ==
  ASSUME RegistryInv, NEW s \in Sessions, NEW k \in Calls, NEW h2, Goes(s, k, h2),
         h2.pc = "domain", UNCHANGED <<shared, info, connected, expelled>>,
         \A j \in Calls : ~Busy(s, j), GhostAt(s),
         \A d \in Domains : \A c \in Cmds : ~Pending(h2, d, c) => Weight(info[s], d, c) = Weight(h2.new, d, c),
         k = "close" => h2.new = None, ~connected[s] => h2.new = None
  PROVE  GhostAt(s)'
<1> PICK n : n = NodeOf[s]
  OBVIOUS
<1> PICK i : i = info[s]
  OBVIOUS
<1>1. OwnAt(h2, i, n)'
  <2>1. RestsAt(i, n)
    BY DEF GhostAt
  <2> QED BY <2>1, BeginsOwn
<1>2. \A j \in Calls : handlers'[s][j] = IF j = k THEN h2 ELSE handlers[s][j]
  BY DEF Goes, RegistryInv, HandInv
<1>3. \A j \in Calls : Busy(s, j)' <=> j = k
  BY <1>2 DEF Busy
<1>4. OwnAt(handlers[s][k], info[s], NodeOf[s])'
  <2>1. handlers'[s][k] = h2 /\ info'[s] = i
    BY <1>2
  <2> QED BY <1>1, <2>1 DEF OwnAt
<1> QED BY <1>2, <1>3, <1>4 DEF GhostAt

\* A call ends: nothing is pending, so what is listed is what it has registered, or 0.
LEMMA FinishGhost ==
  ASSUME RegistryInv, NEW s \in Sessions, NEW k \in Calls, Finish(s, k), GhostAt(s)
  PROVE  GhostAt(s)'
<1> PICK h : h = handlers[s][k]
  OBVIOUS
<1> PICK n : n = NodeOf[s]
  OBVIOUS
<1> PICK i : i = info[s]
  OBVIOUS
<1>1. /\ h.pc = "domain" /\ h.todo = <<>> /\ Busy(s, k) /\ Idle.pc = "idle"
      /\ \A j \in Calls : handlers'[s][j] = IF j = k THEN Idle ELSE handlers[s][j]
      /\ info'[s] = h.new /\ UNCHANGED <<shared, expelled>>
      /\ connected'[s] = IF k = "close" THEN FALSE ELSE connected[s]
  BY DEF Finish, Busy, Goes, RegistryInv, HandInv, RestOK, Idle
<1>2. /\ \A j \in Calls : Busy(s, j) => j = k
      /\ OwnAt(h, i, n) /\ (k = "close" => h.new = None)
      /\ ~connected[s] /\ s \notin expelled => h.new = None
  BY <1>1 DEF GhostAt
<1>3. \A d \in Domains : \A c \in Cmds : Listed(d, c, n)' \in {0, Weight(h.new, d, c)}
  <2>1. \A d \in Domains : \A c \in Cmds : ~Pending(h, d, c)
    BY <1>1 DEF Pending
  <2>2. \A d \in Domains : \A c \in Cmds : Listed(d, c, n)' = Listed(d, c, n)
    BY <1>1 DEF Listed, shared
  <2> QED BY <1>2, <2>1, <2>2 DEF OwnAt
<1>4. \A j \in Calls : ~Busy(s, j)'
  BY <1>1, <1>2 DEF Busy
<1>5. RestsAt(info[s], NodeOf[s])'
  BY <1>1, <1>3 DEF RestsAt
<1>6. ~connected'[s] /\ s \notin expelled' => info'[s] = None
  BY <1>1, <1>2
<1> QED BY <1>4, <1>5, <1>6 DEF GhostAt

\* No action leaves an entry behind.
LEMMA GhostStep ==
  ASSUME OwnNodes, RegistryInv, GhostInv, [Next]_vars
  PROVE  GhostInv'
<1>0. "register" \in Calls /\ "close" \in Calls /\ \A k \in Calls : k = "register" \/ k = "close"
  BY DEF Calls
<1>1. ASSUME NEW s \in Sessions, NEW i \in Info, Register(s, i)
      PROVE  GhostInv'
  <2>1. PICK h2, new : /\ new = IF connected[s] THEN i ELSE None
                       /\ Goes(s, "register", h2) /\ h2.pc = "domain" /\ h2.new = new
                       /\ \A d \in Domains : \A c \in Cmds :
                            ~Pending(h2, d, c) => Weight(info[s], d, c) = Weight(new, d, c)
    BY <1>1, RegisterMoves
  <2>2. /\ UNCHANGED <<shared, info, connected, expelled>>
        /\ ~Busy(s, "register") /\ overlapped \subseteq overlapped'
        /\ Busy(s, "close") => s \in overlapped'
    BY <1>1 DEF Register
  <2>3. ASSUME s \notin overlapped'
        PROVE  GhostAt(s)'
    <3>1. GhostAt(s) /\ \A j \in Calls : ~Busy(s, j)
      BY <1>0, <2>2, <2>3 DEF GhostInv
    <3> QED BY <1>0, <2>1, <2>2, <3>1, BeginsGhost
  <2> QED BY <1>0, <2>1, <2>2, <2>3, GhostOthers, StillFades
<1>2. ASSUME NEW s \in Sessions, Refuse(s)
      PROVE  GhostInv'
  <2>1. /\ UNCHANGED <<shared, info, handlers, overlapped>> /\ expelled' = expelled \cup {s}
        /\ connected' = [connected EXCEPT ![s] = FALSE] /\ RestOK
    BY <1>2 DEF Refuse, RegistryInv
  <2> SUFFICES ASSUME NEW u \in Sessions \ overlapped
               PROVE  GhostAt(u)'
    BY <2>1 DEF GhostInv
  <2>2. GhostAt(u) /\ Fades(NodeOf[u])
    BY <2>1, StillFades DEF GhostInv
  <2>3. ~connected'[u] /\ u \notin expelled' => ~connected[u] /\ u \notin expelled
    BY <2>1 DEF RestOK
  <2> QED BY <2>1, <2>2, <2>3, GhostStays
<1>3. ASSUME NEW s \in Sessions, PeerCloses(s)
      PROVE  GhostInv'
  <2>1. PICK h2 : /\ Goes(s, "close", h2) /\ h2.pc = "domain" /\ h2.new = None
                  /\ \A d \in Domains : \A c \in Cmds :
                       ~Pending(h2, d, c) => Weight(info[s], d, c) = Weight(None, d, c)
    BY <1>3, CloseMoves
  <2>2. /\ UNCHANGED <<shared, info, connected, expelled>>
        /\ ~Busy(s, "close") /\ overlapped \subseteq overlapped'
        /\ Busy(s, "register") => s \in overlapped'
    BY <1>3 DEF PeerCloses
  <2>3. ASSUME s \notin overlapped'
        PROVE  GhostAt(s)'
    <3>1. GhostAt(s) /\ \A j \in Calls : ~Busy(s, j)
      BY <1>0, <2>2, <2>3 DEF GhostInv
    <3> QED BY <1>0, <2>1, <2>2, <3>1, BeginsGhost
  <2> QED BY <1>0, <2>1, <2>2, <2>3, GhostOthers, StillFades
<1>4. ASSUME NEW s \in Sessions, NEW k \in Calls, Finish(s, k)
      PROVE  GhostInv'
  <2>1. /\ Goes(s, k, Idle) /\ UNCHANGED <<shared, expelled, overlapped>>
        /\ \A u \in Sessions \ {s} : info'[u] = info[u] /\ connected'[u] = connected[u]
    BY <1>4 DEF Finish, RegistryInv, RestOK
  <2>2. s \notin overlapped' => GhostAt(s)'
    BY <1>4, <2>1, FinishGhost DEF GhostInv
  <2> QED BY <2>1, <2>2, GhostOthers, StillFades
<1>5. CASE UNCHANGED vars
  <2> SUFFICES ASSUME NEW u \in Sessions \ overlapped
               PROVE  GhostAt(u)'
    BY <1>5 DEF GhostInv, vars
  <2>1. UNCHANGED <<shared, info, handlers, connected, expelled>>
    BY <1>5 DEF vars
  <2>2. GhostAt(u) /\ Fades(NodeOf[u])
    BY <2>1, StillFades DEF GhostInv
  <2> QED BY <2>1, <2>2, GhostStays
<1> QED BY <1>1, <1>2, <1>3, <1>4, <1>5, SetStepGhost DEF Next, SetStep

\* At the start nothing is listed.
LEMMA InitGhost == Init => GhostInv
<1> SUFFICES ASSUME Init, NEW s \in Sessions PROVE GhostAt(s)
  BY DEF GhostInv
<1>1. \A k \in Calls : ~Busy(s, k)
  BY DEF Init, Busy, Idle
<1>2. RestsAt(info[s], NodeOf[s])
  BY DEF Init, RestsAt, Listed
<1> QED BY <1>1, <1>2 DEF Init, GhostAt

\* A session with a node of its own is, once its calls have ended, listed for nothing but
\* what it has registered, with any number of workers: set() may lose an entry in a race
\* with the set() of another session, never leave one.
THEOREM NothingLeft == ASSUME OwnNodes PROVE Spec => []NoGhost
<1>1. RegistryInv /\ GhostInv => NoGhost
  BY DEF NoGhost, GhostInv, GhostAt, RestsAt, Weight, Registered
<1>2. Init => RegistryInv /\ GhostInv
  BY InitRegistry, InitGhost
<1>3. RegistryInv /\ GhostInv /\ [Next]_vars => RegistryInv' /\ GhostInv'
  BY RegistryStep, GhostStep
<1> QED BY <1>1, <1>2, <1>3, PTL DEF Spec

---------------------------------------------------------------------------
(* One worker *)

\* Nothing changes for node n.
Same(n) == \A d \in Domains : \A c \in Cmds : Listed(d, c, n)' = Listed(d, c, n)

\* Only the handler's own node set changes, and only for its own node: on one worker the
\* objects it replaces were not there, or listed nothing.
LEMMA StepSame ==
  ASSUME ObjInv, NEW h, NEW h2, NEW m \in Nodes, Step(h, h2, m), PointAt(h), FreshAt(h),
         SoleAt(h, m), NEW n \in Nodes, n # m \/ h.pc \notin {"addNode", "delNode"}
  PROVE  Same(n)
<1>0. /\ HandlerOK(h) /\ h.todo # <<>> /\ Dom(h) \in Domains /\ CmdOf(h) \in Cmds
      /\ Fades(n)
  BY HeadFacts, StepFades DEF Step
<1> SUFFICES ASSUME NEW d \in Domains, NEW c \in Cmds
             PROVE  Listed(d, c, n)' = Listed(d, c, n)
  BY DEF Same
<1>1. Listed(d, c, n)' \in {Listed(d, c, n), 0}
  BY <1>0 DEF Fades
<1>2. /\ index[d] # 0 => index[d] \in 1..Len(domains)
      /\ index[d] # 0 /\ domains[index[d]][c] # 0 => domains[index[d]][c] \in 1..Len(sets)
  BY LookUp
<1>3. CASE UNCHANGED shared
  BY <1>3 DEF Listed, shared
<1>4. CASE MakesDomain(h, h2)
  <2>1. UNCHANGED <<index, sets>> /\ \A x \in 1..Len(domains) : domains'[x] = domains[x]
    <3> DEFINE e == [k \in Cmds |-> 0]
    <3>1. e \in [Cmds -> 0..Len(sets)] /\ domains \in Seq([Cmds -> 0..Len(sets)])
      BY DEF ObjInv
    <3>2. domains' = Append(domains, e) /\ UNCHANGED <<index, sets>>
      BY <1>4 DEF MakesDomain
    <3> HIDE DEF e
    <3> QED BY <3>1, <3>2, AppendProperties
  <2> QED BY <1>2, <2>1 DEF Listed
<1>5. CASE AddsDomain(h, h2)
  <2>1. /\ h.pc = "addDomain" /\ index' = [index EXCEPT ![Dom(h)] = h.d] /\ UNCHANGED <<domains, sets>>
        /\ HasDomain(h)
    BY <1>5 DEF AddsDomain, HasDomain
  <2>2. index[Dom(h)] = 0
    BY <2>1 DEF SoleAt
  <2>3. CASE d = Dom(h)
    BY <1>1, <2>2, <2>3 DEF Listed
  <2>4. CASE d # Dom(h)
    <3>1. index'[d] = index[d]
      BY <2>1, <2>4 DEF ObjInv
    <3> QED BY <2>1, <3>1 DEF Listed
  <2> QED BY <2>3, <2>4
<1>6. CASE MakesSet(h, h2)
  <2>1. UNCHANGED <<index, domains>> /\ \A x \in 1..Len(sets) : sets'[x] = sets[x]
    <3> DEFINE e == [k \in Nodes |-> 0]
    <3>1. e \in [Nodes -> Weights \cup {0}] /\ sets \in Seq([Nodes -> Weights \cup {0}])
      BY DEF ObjInv
    <3>2. sets' = Append(sets, e) /\ UNCHANGED <<index, domains>>
      BY <1>6 DEF MakesSet
    <3> HIDE DEF e
    <3> QED BY <3>1, <3>2, AppendProperties
  <2> QED BY <1>2, <2>1 DEF Listed
<1>7. CASE AddsSet(h, h2) \/ DelsSet(h, h2)
  <2>1. /\ h.pc \in {"addSet", "delSet"} /\ HasSet(h) /\ HasDomain(h) /\ UNCHANGED <<index, sets>>
        /\ \A x \in 1..Len(domains) : \A b \in Cmds :
             ~(x = h.d /\ b = CmdOf(h)) => domains'[x][b] = domains[x][b]
    <3>1. PICK v \in {h.s, 0} : domains' = [domains EXCEPT ![h.d][CmdOf(h)] = v]
      BY <1>7 DEF AddsSet, DelsSet
    <3>2. /\ h.pc \in {"addSet", "delSet"} /\ HasSet(h) /\ HasDomain(h) /\ UNCHANGED <<index, sets>>
      BY <1>7, PlaceFacts DEF AddsSet, DelsSet
    <3>3. PICK e, C : e = h.d /\ C = CmdOf(h)
      OBVIOUS
    <3>4. domains \in Seq([Cmds -> 0..Len(sets)]) /\ domains' = [domains EXCEPT ![e][C] = v]
      BY <3>1, <3>3 DEF ObjInv
    <3>5. \A x \in 1..Len(domains) : \A b \in Cmds : ~(x = e /\ b = C) => domains'[x][b] = domains[x][b]
      BY <3>4
    <3> QED BY <3>2, <3>3, <3>5
  <2>2. CASE index[d] = h.d /\ c = CmdOf(h)
    <3>1. CASE h.pc = "addSet"
      <4>1. domains[h.d][CmdOf(h)] = 0
        BY <2>1, <3>1 DEF SoleAt
      <4> QED BY <1>1, <2>2, <4>1 DEF Listed
    <3>2. CASE h.pc = "delSet"
      <4>1. domains[h.d][CmdOf(h)] = h.s /\ sets[h.s][n] = 0
        BY <2>1, <3>2 DEF SoleAt
      <4> QED BY <1>1, <2>2, <4>1 DEF Listed
    <3> QED BY <2>1, <3>1, <3>2
  <2>3. CASE ~(index[d] = h.d /\ c = CmdOf(h))
    <3>1. index[d] # 0 => domains'[index[d]][c] = domains[index[d]][c]
      BY <1>2, <2>1, <2>3
    <3> QED BY <2>1, <3>1 DEF Listed
  <2> QED BY <2>2, <2>3
<1>8. CASE AddsNode(h, h2, m) \/ DelsNode(h, h2, m)
  <2> DEFINE v == IF h.pc = "addNode" THEN h.new.weight ELSE 0
  <2>1. /\ HasSet(h) /\ UNCHANGED <<index, domains>> /\ WritesSet(h.s, m, v)
        /\ n # m
    BY <1>8, PlaceFacts DEF AddsNode, DelsNode, WritesSet
  <2>2. v \in Weights \cup {0}
    BY <1>0, NewWeight DEF HandlerOK
  <2> HIDE DEF v
  <2> QED BY <1>0, <2>1, <2>2, WriteLists
<1>9. CASE UNCHANGED shared \/ MakesDomain(h, h2) \/ AddsDomain(h, h2) \/ MakesSet(h, h2)
           \/ AddsSet(h, h2) \/ DelsSet(h, h2) \/ AddsNode(h, h2, m) \/ DelsNode(h, h2, m)
  BY <1>3, <1>4, <1>5, <1>6, <1>7, <1>8, <1>9
<1> QED BY <1>9 DEF Step, FindsDomain, MissesDomain, FindsSet, MissesSet, TestsSize

\* The handler has done with commands C: they are listed as registered now.
LEMMA DropsSole ==
  ASSUME NEW h, NEW h2, NEW C, Drops(h, h2, C), NEW n,
         \A d \in Domains : \A c \in Cmds :
           ~Pending(h, d, c) \/ (d = Dom(h) /\ c \in C) => Listed(d, c, n)' = Weight(h.new, d, c),
         HasDomain(h) => index'[Dom(h)] = h.d
  PROVE  SoleAt(h2, n)'
<1>1. h2.new = h.new /\ h2.pc \notin SetPlaces /\ h2.pc # "addDomain" /\ ~HasSet(h2)
  BY DEF Drops, SetPlaces, HasSet
<1>2. ASSUME NEW d \in Domains, NEW c \in Cmds, ~Pending(h2, d, c)
      PROVE  Listed(d, c, n)' = Weight(h2.new, d, c)
  BY <1>1, <1>2 DEF Drops
<1>3. HasDomain(h2) => index'[Dom(h2)] = h2.d
  BY DEF Drops, HasDomain
<1> QED BY <1>1, <1>2, <1>3 DEF SoleAt, SetPlaces

\* A step of the only handler.
LEMMA StepSole ==
  ASSUME ObjInv, NEW h, NEW h2, NEW n \in Nodes, Step(h, h2, n), PointAt(h), FreshAt(h),
         SoleAt(h, n)
  PROVE  SoleAt(h2, n)'
<1>0. HandlerOK(h) /\ h.todo # <<>> /\ Dom(h) \in Domains /\ CmdOf(h) \in Cmds
  BY HeadFacts DEF Step
<1>1. HasDomain(h) => h.d \in 1..Len(domains) /\ h.d # 0
  BY DEF PointAt
<1>2. PICK D \in Domains, B \in Cmds : D = Dom(h) /\ B = CmdOf(h)
  BY <1>0
<1>3. Head(h.todo).op = "del" => \A c \in Head(h.todo).cmds : Weight(h.new, D, c) = 0
  <2>1. Head(h.todo).op = "del" => Head(h.todo).cmds \cap CmdsOf(h.new)[D] = {}
    BY <1>0, <1>2, HeadFacts DEF ItemOK, Dom
  <2>2. h.new # None => CmdsOf(h.new)[D] = h.new.cmds[D]
    BY DEF CmdsOf
  <2> QED BY <2>1, <2>2 DEF Weight
<1>4. B \in Head(h.todo).cmds
  BY <1>0, <1>2, HeadFacts
<1>5. ASSUME NEW p, NEW x, NEW y, GoesOn(h, h2, p, x, y),
             \A d \in Domains : \A c \in Cmds : ~Pending(h, d, c) => Listed(d, c, n)' = Weight(h.new, d, c),
             p # "domain" => index'[D] = (IF p = "addDomain" THEN 0 ELSE x),
             p \in SetPlaces => domains'[x][B] = (IF p = "addSet" THEN 0 ELSE y),
             p \in {"size", "delSet"} => sets'[y][n] = 0,
             p = "delSet" => \A k \in Nodes : sets'[y][k] = 0
      PROVE  SoleAt(h2, n)'
  <2>1. /\ h2.new = h.new /\ h2.pc = p /\ h2.d = x /\ h2.s = y /\ Dom(h2) = D /\ CmdOf(h2) = B
        /\ \A d, c : Pending(h2, d, c) <=> Pending(h, d, c)
    BY <1>2, <1>5, SameList DEF GoesOn
  <2> QED BY <1>5, <2>1 DEF SoleAt, HasDomain, HasSet
<1>6. CASE h.pc \in {"addNode", "delNode"}
  <2> DEFINE v == IF h.pc = "addNode" THEN h.new.weight ELSE 0
  <2>1. /\ AddsNode(h, h2, n) \/ DelsNode(h, h2, n)
        /\ HasSet(h) /\ HasDomain(h) /\ UNCHANGED <<index, domains>> /\ WritesSet(h.s, n, v)
    BY <1>6, PlaceFacts DEF Step, FindsDomain, MissesDomain, MakesDomain, AddsDomain, FindsSet, MissesSet,
       MakesSet, AddsSet, AddsNode, DelsNode, TestsSize, DelsSet, WritesSet
  <2>2. /\ v \in Weights \cup {0} /\ v = Weight(h.new, D, B)
    <3>1. CASE h.pc = "addNode"
      BY <1>0, <1>2, <3>1, NewWeight DEF HandlerOK, Weight
    <3>2. CASE h.pc = "delNode"
      BY <1>0, <1>3, <1>4, <3>2 DEF HandlerOK
    <3> QED BY <1>6, <3>1, <3>2
  <2>3. index[D] = h.d /\ domains[h.d][B] = h.s
    BY <1>2, <1>6, <2>1 DEF SoleAt
  <2>4. \A d \in Domains : \A c \in Cmds :
          Listed(d, c, n)' = IF d = D /\ c = B THEN v ELSE Listed(d, c, n)
    <3> HIDE DEF v
    <3>1. \A d \in Domains : \A c \in Cmds :
            Listed(d, c, n)' = IF d = D /\ c = B /\ index[d] = h.d /\ domains[h.d][c] = h.s
                               THEN v ELSE Listed(d, c, n)
      BY <1>2, <2>1, <2>2, WriteOwn
    <3> QED BY <2>3, <3>1
  <2>5. \A d \in Domains : \A c \in Cmds :
          ~Pending(h, d, c) \/ (d = D /\ c = B) => Listed(d, c, n)' = Weight(h.new, d, c)
    <3> HIDE DEF v
    <3> QED BY <2>2, <2>4 DEF SoleAt
  <2>6. CASE AddsNode(h, h2, n)
    <3>1. Drops(h, h2, {CmdOf(h)})
      BY <2>6 DEF AddsNode
    <3>2. index'[Dom(h)] = h.d
      BY <1>2, <2>1, <2>3
    <3> QED BY <1>2, <2>5, <3>1, <3>2, DropsSole
  <2>7. CASE DelsNode(h, h2, n)
    <3>1. GoesOn(h, h2, "size", h.d, h.s) /\ h.pc = "delNode"
      BY <2>7 DEF DelsNode
    <3>2. sets'[h.s][n] = 0
      <4>1. h.s \in 1..Len(sets) /\ WritesSet(h.s, n, 0) /\ 0 \in Weights \cup {0}
        BY <2>1, <3>1 DEF PointAt
      <4> QED BY <4>1, WriteSet
    <3> QED BY <1>5, <2>1, <2>3, <2>5, <3>1, <3>2
  <2> QED BY <2>1, <2>6, <2>7
<1>7. CASE h.pc \notin {"addNode", "delNode"}
  <2>1. Same(n)
    BY <1>7, StepSame
  <2>2. \A d \in Domains : \A c \in Cmds : ~Pending(h, d, c) => Listed(d, c, n)' = Weight(h.new, d, c)
    BY <2>1 DEF Same, SoleAt
  <2>3. /\ HasDomain(h) /\ h.pc # "addDomain" => index[D] = h.d
        /\ HasSet(h) /\ h.pc # "addSet" => domains[h.d][B] = h.s
        /\ h.pc \in {"size", "delSet"} => sets[h.s][n] = 0
        /\ h.pc = "delSet" => \A k \in Nodes : sets[h.s][k] = 0
    BY <1>2 DEF SoleAt
  <2>4. CASE FindsDomain(h, h2)
    <3>1. GoesOn(h, h2, "cmd", index[D], 0) /\ index' = index
      BY <1>2, <2>4 DEF FindsDomain, shared
    <3> QED BY <1>5, <2>2, <3>1 DEF SetPlaces
  <2>5. CASE MissesDomain(h, h2)
    <3>1. /\ Drops(h, h2, Head(h.todo).cmds) /\ ~HasDomain(h) /\ index[D] = 0 /\ Head(h.todo).op = "del"
      BY <1>2, <2>5 DEF MissesDomain, HasDomain
    <3>2. \A c \in Cmds : Listed(D, c, n)' = 0
      BY <2>1, <3>1 DEF Listed, Same
    <3>3. \A d \in Domains : \A c \in Cmds :
            ~Pending(h, d, c) \/ (d = Dom(h) /\ c \in Head(h.todo).cmds) =>
              Listed(d, c, n)' = Weight(h.new, d, c)
      BY <1>2, <1>3, <2>2, <3>1, <3>2
    <3> QED BY <3>1, <3>3, DropsSole
  <2>6. CASE MakesDomain(h, h2)
    <3>1. GoesOn(h, h2, "addDomain", Len(domains) + 1, 0) /\ index[D] = 0 /\ index' = index
      BY <1>2, <2>6 DEF MakesDomain
    <3> QED BY <1>5, <2>2, <3>1 DEF SetPlaces
  <2>7. CASE AddsDomain(h, h2)
    <3>1. GoesOn(h, h2, "cmd", h.d, 0) /\ index' = [index EXCEPT ![D] = h.d]
      BY <1>2, <2>7 DEF AddsDomain
    <3>2. index'[D] = h.d
      BY <3>1 DEF ObjInv
    <3> QED BY <1>5, <2>2, <3>1, <3>2 DEF SetPlaces
  <2>8. CASE FindsSet(h, h2)
    <3> DEFINE p == IF Head(h.todo).op = "del" THEN "delNode" ELSE "addNode"
    <3>1. /\ GoesOn(h, h2, p, h.d, domains[h.d][B]) /\ UNCHANGED shared
          /\ HasDomain(h) /\ h.pc # "addDomain" /\ p \in {"delNode", "addNode"}
      BY <1>2, <2>8 DEF FindsSet, HasDomain
    <3> HIDE DEF p
    <3>2. index'[D] = h.d /\ domains' = domains
      BY <2>3, <3>1 DEF shared
    <3> QED BY <1>5, <2>2, <3>1, <3>2
  <2>9. CASE MissesSet(h, h2)
    <3>1. /\ Drops(h, h2, {CmdOf(h)}) /\ HasDomain(h) /\ h.pc # "addDomain"
          /\ domains[h.d][B] = 0 /\ UNCHANGED shared /\ Head(h.todo).op = "del"
      BY <1>2, <2>9 DEF MissesSet, HasDomain
    <3>2. index[D] = h.d /\ index' = index
      BY <2>3, <3>1 DEF shared
    <3>3. Listed(D, B, n)' = 0 /\ Weight(h.new, D, B) = 0
      BY <1>3, <1>4, <2>1, <3>1, <3>2 DEF Listed, Same
    <3>4. \A d \in Domains : \A c \in Cmds :
            ~Pending(h, d, c) \/ (d = Dom(h) /\ c \in {CmdOf(h)}) => Listed(d, c, n)' = Weight(h.new, d, c)
      BY <1>2, <2>2, <3>3
    <3> QED BY <1>2, <3>1, <3>2, <3>4, DropsSole
  <2>10. CASE MakesSet(h, h2)
    <3>1. /\ GoesOn(h, h2, "addSet", h.d, Len(sets) + 1) /\ HasDomain(h) /\ h.pc # "addDomain"
          /\ domains[h.d][B] = 0 /\ UNCHANGED <<index, domains>>
      BY <1>2, <2>10 DEF MakesSet, HasDomain
    <3>2. index'[D] = h.d
      BY <2>3, <3>1
    <3> QED BY <1>5, <2>2, <3>1, <3>2
  <2>11. CASE AddsSet(h, h2)
    <3>1. /\ GoesOn(h, h2, "addNode", h.d, h.s) /\ HasDomain(h) /\ h.pc # "addDomain"
          /\ domains' = [domains EXCEPT ![h.d][B] = h.s] /\ index' = index
      BY <1>2, <2>11 DEF AddsSet, HasDomain
    <3>2. domains'[h.d][B] = h.s /\ index'[D] = h.d
      BY <1>1, <2>3, <3>1 DEF ObjInv
    <3> QED BY <1>5, <2>2, <3>1, <3>2
  <2>12. CASE TestsSize(h, h2)
    <3>1. HasDomain(h) /\ HasSet(h) /\ h.pc = "size" /\ UNCHANGED shared /\ Head(h.todo).op = "del"
      BY <1>0, <2>12, PlaceFacts DEF TestsSize, HandlerOK
    <3>2. index[D] = h.d /\ domains[h.d][B] = h.s /\ sets[h.s][n] = 0
          /\ UNCHANGED <<index, domains, sets>>
      BY <2>3, <3>1 DEF shared
    <3>3. CASE GoesOn(h, h2, "delSet", h.d, h.s) /\ \A k \in Nodes : sets[h.s][k] = 0
      BY <1>5, <2>2, <3>2, <3>3
    <3>4. CASE Drops(h, h2, {CmdOf(h)})
      <4>1. Listed(D, B, n)' = 0 /\ Weight(h.new, D, B) = 0
        BY <1>3, <1>4, <2>1, <3>1, <3>2 DEF Listed, Same
      <4>2. \A d \in Domains : \A c \in Cmds :
              ~Pending(h, d, c) \/ (d = Dom(h) /\ c \in {CmdOf(h)}) => Listed(d, c, n)' = Weight(h.new, d, c)
        BY <1>2, <2>2, <4>1
      <4> QED BY <1>2, <3>2, <3>4, <4>2, DropsSole
    <3> QED BY <2>12, <3>3, <3>4 DEF TestsSize
  <2>13. CASE DelsSet(h, h2)
    <3>1. /\ HasDomain(h) /\ HasSet(h) /\ h.pc = "delSet" /\ Drops(h, h2, {CmdOf(h)})
          /\ Head(h.todo).op = "del" /\ index' = index
      BY <1>0, <2>13, PlaceFacts DEF DelsSet, HandlerOK
    <3>2. index[D] = h.d /\ domains[h.d][B] = h.s /\ sets[h.s][n] = 0
      BY <2>3, <3>1
    <3>3. Listed(D, B, n)' = 0 /\ Weight(h.new, D, B) = 0
      BY <1>3, <1>4, <2>1, <3>1, <3>2 DEF Listed, Same
    <3>4. \A d \in Domains : \A c \in Cmds :
            ~Pending(h, d, c) \/ (d = Dom(h) /\ c \in {CmdOf(h)}) => Listed(d, c, n)' = Weight(h.new, d, c)
      BY <1>2, <2>2, <3>3
    <3> QED BY <1>2, <3>1, <3>2, <3>4, DropsSole
  <2> QED BY <1>7, <2>4, <2>5, <2>6, <2>7, <2>8, <2>9, <2>10, <2>11, <2>12, <2>13
          DEF Step, AddsNode, DelsNode
<1> QED BY <1>6, <1>7

\* A session that is idle: nothing of its node changes, nor of its registration.
LEMMA ListsStay ==
  ASSUME NEW u \in Sessions, Same(NodeOf[u]), info'[u] = info[u], ListsAt(info[u], NodeOf[u])
  PROVE  ListsAt(info[u], NodeOf[u])'
<1> PICK n : n = NodeOf[u]
  OBVIOUS
<1> PICK i : i = info[u]
  OBVIOUS
<1>1. ListsAt(i, n)'
  BY DEF ListsAt, Same
<1>2. info'[u] = i
  OBVIOUS
<1> QED BY <1>1, <1>2 DEF ListsAt

\* The one worker takes a step of the one handler.
LEMMA SetStepExact ==
  ASSUME OwnNodes, RegistryInv, ExactInv, NEW s \in Sessions, NEW k \in Calls, SetStep(s, k)
  PROVE  ExactInv'
<1>1. PICK h2 : Goes(s, k, h2) /\ Step(handlers[s][k], h2, NodeOf[s]) /\ Keeps
  BY ActionSteps
<1> PICK h : h = handlers[s][k]
  OBVIOUS
<1> PICK n : n = NodeOf[s]
  OBVIOUS
<1>2. /\ n \in Nodes /\ ObjInv /\ PointAt(h) /\ FreshAt(h) /\ Step(h, h2, n)
      /\ info' = info
  BY <1>1, NodeAssumption DEF RegistryInv, HoldInv, Keeps
<1>3. \A u \in Sessions : \A j \in Calls :
        handlers'[u][j] = IF u = s /\ j = k THEN h2 ELSE handlers[u][j]
  BY <1>1 DEF Goes, RegistryInv, HandInv
<1>4. h.pc # "idle" /\ h2.pc # "idle"
  <2>1. h \in Handler /\ h2 \in Handler
    BY <1>2 DEF Step, HandlerOK
  <2> QED BY <2>1 DEF Handler, Places, SetPlaces
<1>5. /\ Busy(s, k) /\ SoleAt(h, n)
      /\ \A u \in Sessions : \A j \in Calls : Busy(u, j) => u = s /\ j = k
  <2>1. Busy(s, k)
    BY <1>4 DEF Busy
  <2> QED BY <2>1 DEF ExactInv
<1>6. \A u \in Sessions : \A j \in Calls : Busy(u, j)' <=> u = s /\ j = k
  BY <1>3, <1>4, <1>5 DEF Busy
<1>7. SoleAt(handlers[s][k], NodeOf[s])'
  <2>1. SoleAt(h2, n)'
    BY <1>2, <1>5, StepSole
  <2>2. handlers'[s][k] = h2
    BY <1>3
  <2> QED BY <2>1, <2>2 DEF SoleAt
<1>8. ASSUME NEW u \in Sessions, u # s
      PROVE  ListsAt(info[u], NodeOf[u])'
  <2>1. NodeOf[u] \in Nodes /\ NodeOf[u] # n
    BY <1>8, NodeAssumption DEF OwnNodes
  <2>2. Same(NodeOf[u])
    BY <1>2, <1>5, <2>1, StepSame
  <2>3. ListsAt(info[u], NodeOf[u])
    BY <1>5, <1>8 DEF ExactInv
  <2> QED BY <1>2, <2>2, <2>3, ListsStay
<1> QED BY <1>6, <1>7, <1>8 DEF ExactInv

\* Nothing of the registry moves.
LEMMA StillSame ==
  ASSUME UNCHANGED shared, NEW n
  PROVE  Same(n)
BY DEF Same, Listed, shared

\* A call begins when the one worker is free.
LEMMA BeginsExact ==
  ASSUME RegistryInv, ExactInv, NEW s \in Sessions, NEW k \in Calls, NEW h2, Goes(s, k, h2),
         h2.pc = "domain", UNCHANGED <<shared, info>>,
         \A u \in Sessions : \A j \in Calls : ~Busy(u, j),
         \A d \in Domains : \A c \in Cmds : ~Pending(h2, d, c) => Weight(info[s], d, c) = Weight(h2.new, d, c)
  PROVE  ExactInv'
<1>1. \A u \in Sessions : \A j \in Calls :
        handlers'[u][j] = IF u = s /\ j = k THEN h2 ELSE handlers[u][j]
  BY DEF Goes, RegistryInv, HandInv
<1>2. \A u \in Sessions : \A j \in Calls : Busy(u, j)' <=> u = s /\ j = k
  BY <1>1 DEF Busy
<1>3. ASSUME NEW u \in Sessions
      PROVE  ListsAt(info[u], NodeOf[u])'
  <2>1. ListsAt(info[u], NodeOf[u])
    BY DEF ExactInv
  <2> QED BY <2>1, StillSame, ListsStay
<1>4. SoleAt(handlers[s][k], NodeOf[s])'
  <2> PICK n : n = NodeOf[s]
    OBVIOUS
  <2> PICK i : i = info[s]
    OBVIOUS
  <2>1. \A d \in Domains : \A c \in Cmds : Listed(d, c, n)' = Weight(i, d, c)
    <3>1. info'[s] = i
      OBVIOUS
    <3> QED BY <1>3, <3>1 DEF ListsAt
  <2>2. ~HasDomain(h2) /\ ~HasSet(h2) /\ h2.pc \notin {"size", "delSet"}
    BY DEF HasDomain, HasSet, SetPlaces
  <2>3. SoleAt(h2, n)'
    BY <2>1, <2>2 DEF SoleAt
  <2>4. handlers'[s][k] = h2
    BY <1>1
  <2> QED BY <2>3, <2>4 DEF SoleAt
<1> QED BY <1>2, <1>3, <1>4 DEF ExactInv

\* A call ends: nothing is pending.
LEMMA FinishExact ==
  ASSUME RegistryInv, ExactInv, NEW s \in Sessions, NEW k \in Calls, Finish(s, k)
  PROVE  ExactInv'
<1> PICK h : h = handlers[s][k]
  OBVIOUS
<1> PICK n : n = NodeOf[s]
  OBVIOUS
<1>1. /\ h.pc = "domain" /\ h.todo = <<>> /\ Idle.pc = "idle" /\ UNCHANGED shared
      /\ \A u \in Sessions : \A j \in Calls :
           handlers'[u][j] = IF u = s /\ j = k THEN Idle ELSE handlers[u][j]
      /\ \A u \in Sessions : info'[u] = IF u = s THEN h.new ELSE info[u]
  BY DEF Finish, Goes, RegistryInv, HandInv, RestOK, Idle
<1>2. /\ Busy(s, k) /\ SoleAt(h, n)
      /\ \A u \in Sessions : \A j \in Calls : Busy(u, j) => u = s /\ j = k
  <2>1. Busy(s, k)
    BY <1>1 DEF Busy
  <2> QED BY <2>1 DEF ExactInv
<1>3. \A u \in Sessions : \A j \in Calls : ~Busy(u, j)'
  BY <1>1, <1>2 DEF Busy
<1>4. ListsAt(info[s], NodeOf[s])'
  <2>1. \A d \in Domains : \A c \in Cmds : ~Pending(h, d, c)
    BY <1>1 DEF Pending
  <2>2. \A d \in Domains : \A c \in Cmds : Listed(d, c, n)' = Weight(h.new, d, c)
    <3>1. Same(n)
      BY <1>1, StillSame
    <3> QED BY <1>2, <2>1, <3>1 DEF SoleAt, Same
  <2>3. info'[s] = h.new
    BY <1>1
  <2> QED BY <2>2, <2>3 DEF ListsAt
<1>5. ASSUME NEW u \in Sessions, u # s
      PROVE  ListsAt(info[u], NodeOf[u])'
  <2>1. ListsAt(info[u], NodeOf[u]) /\ info'[u] = info[u]
    BY <1>1, <1>2, <1>5 DEF ExactInv
  <2> QED BY <1>1, <2>1, StillSame, ListsStay
<1> QED BY <1>3, <1>4, <1>5 DEF ExactInv

\* When the one worker is free, nobody is at work.
LEMMA OneFree ==
  ASSUME workers = 1, FreeWorker
  PROVE  \A s \in Sessions : \A k \in Calls : ~Busy(s, k)
<1> DEFINE X == {x \in Sessions \X Calls : Busy(x[1], x[2])}
<1>1. IsFiniteSet(Calls)
  <2>1. IsFiniteSet({} \cup {"register"}) /\ {} \cup {"register"} = {"register"}
    BY FS_EmptySet, FS_AddElement
  <2>2. IsFiniteSet({"register"} \cup {"close"}) /\ {"register"} \cup {"close"} = Calls
    BY <2>1, FS_AddElement DEF Calls
  <2> QED BY <2>2
<1>2. IsFiniteSet(Sessions \X Calls)
  BY <1>1, FiniteAssumption, FS_Product
<1>3. IsFiniteSet(X) /\ Cardinality(X) \in Nat
  BY <1>2, FS_Subset, FS_CardinalityType
<1>4. Cardinality(X) = 0
  BY <1>3 DEF FreeWorker
<1>5. X = {}
  BY <1>3, <1>4, FS_EmptySet
<1>6. \A s \in Sessions : \A k \in Calls : Busy(s, k) => <<s, k>> \in X
  OBVIOUS
<1> QED BY <1>5, <1>6

\* At the start nothing is listed and nothing is registered.
LEMMA InitExact == Init => ExactInv
<1> SUFFICES ASSUME Init PROVE ExactInv
  OBVIOUS
<1>1. \A s \in Sessions : \A k \in Calls : ~Busy(s, k)
  BY DEF Init, Busy, Idle
<1>2. \A s \in Sessions : ListsAt(info[s], NodeOf[s])
  BY DEF Init, ListsAt, Listed, Weight
<1> QED BY <1>1, <1>2 DEF ExactInv

\* On one worker.
LEMMA ExactStep ==
  ASSUME OwnNodes, RegistryInv, workers = 1, ExactInv, [Next]_vars
  PROVE  ExactInv'
<1>0. "register" \in Calls /\ "close" \in Calls
  BY DEF Calls
<1>1. ASSUME NEW s \in Sessions, NEW i \in Info, Register(s, i)
      PROVE  ExactInv'
  <2>1. PICK h2, new : /\ Goes(s, "register", h2) /\ h2.pc = "domain" /\ h2.new = new
                       /\ \A d \in Domains : \A c \in Cmds :
                            ~Pending(h2, d, c) => Weight(info[s], d, c) = Weight(new, d, c)
    BY <1>1, RegisterMoves
  <2>2. UNCHANGED <<shared, info>> /\ \A u \in Sessions : \A j \in Calls : ~Busy(u, j)
    BY <1>1, OneFree DEF Register
  <2> QED BY <1>0, <2>1, <2>2, BeginsExact
<1>2. ASSUME NEW s \in Sessions, PeerCloses(s)
      PROVE  ExactInv'
  <2>1. PICK h2 : /\ Goes(s, "close", h2) /\ h2.pc = "domain" /\ h2.new = None
                  /\ \A d \in Domains : \A c \in Cmds :
                       ~Pending(h2, d, c) => Weight(info[s], d, c) = Weight(None, d, c)
    BY <1>2, CloseMoves
  <2>2. UNCHANGED <<shared, info>> /\ \A u \in Sessions : \A j \in Calls : ~Busy(u, j)
    BY <1>2, OneFree DEF PeerCloses
  <2> QED BY <1>0, <2>1, <2>2, BeginsExact
<1>3. CASE UNCHANGED <<shared, info, handlers>>
  BY <1>3 DEF ExactInv, Busy, ListsAt, SoleAt, Listed, shared
<1>4. ASSUME NEW s \in Sessions, Refuse(s)
      PROVE  ExactInv'
  BY <1>3, <1>4 DEF Refuse
<1>5. CASE UNCHANGED vars
  BY <1>3, <1>5 DEF vars
<1>6. ASSUME NEW s \in Sessions, NEW k \in Calls, Finish(s, k)
      PROVE  ExactInv'
  BY <1>6, FinishExact
<1> QED BY <1>1, <1>2, <1>4, <1>5, <1>6, SetStepExact DEF Next, SetStep

\* On one worker, with a node of its own for every session, what queries find when
\* nothing is in progress is what the sessions have registered last, with its weight.
THEOREM ListedIsRegistered == ASSUME OwnNodes PROVE Spec => []ListedExact
<1>1. RegistryInv /\ (workers = 1 => ExactInv) => ListedExact
  BY DEF ListedExact, Quiet, ExactInv, ListsAt, Weight, Registered
<1>2. Init => RegistryInv /\ (workers = 1 => ExactInv)
  BY InitRegistry, InitExact
<1>3. ASSUME RegistryInv, workers = 1 => ExactInv, [Next]_vars
      PROVE  RegistryInv' /\ (workers = 1 => ExactInv)'
  <2>1. RegistryInv'
    BY <1>3, RegistryStep
  <2>2. workers' = workers
    <3>1. ASSUME NEW s \in Sessions, NEW k \in Calls, SetStep(s, k)
          PROVE  workers' = workers
      BY <3>1 DEF SetStep, GetDomain, AddDomain, GetSet, AddSet, AddNode, DelNode, TestSize, DelSet, Keeps
    <3>2. ASSUME NEW s \in Sessions
          PROVE  /\ Refuse(s) \/ PeerCloses(s) => workers' = workers
                 /\ \A i \in Info : Register(s, i) => workers' = workers
                 /\ \A k \in Calls : Finish(s, k) => workers' = workers
      BY DEF Refuse, PeerCloses, Register, Finish
    <3> QED BY <1>3, <3>1, <3>2 DEF Next, SetStep, vars
  <2>3. workers = 1 => ExactInv'
    BY <1>3, ExactStep
  <2> QED BY <2>1, <2>2, <2>3
<1> QED BY <1>1, <1>2, <1>3, PTL DEF Spec
=============================================================================
