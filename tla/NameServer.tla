------------------------------ MODULE NameServer ------------------------------
(***************************************************************************)
(* The name server (src/ancfl/ns/name_server_module.cc) and its registry   *)
(* of domains, commands and nodes (src/ancfl/ns/ns_protocol.cc).           *)
(*                                                                         *)
(* A session registers the commands its node serves; when its peer closes, *)
(* onDisconnect removes them.  Both go through set(), which looks up and   *)
(* changes the registry in one lock scope after another: every scope is an *)
(* action.  The registry is two levels of shared objects, a domain and its *)
(* node sets, which a handler may hold after they have been replaced; they *)
(* live in domains and sets, 0 is the null pointer.                        *)
(*                                                                         *)
(* A session has one registration in progress at a time.  Queries only     *)
(* read.  The server sends no notification (the code is commented out).    *)
(***************************************************************************)
EXTENDS Naturals, Sequences, FiniteSets, SequencesExt

CONSTANTS
  Sessions,
  Domains,
  Cmds,
  Nodes,        \* ids of nodes: address and port
  NodeOf,       \* the node a session registers
  Weights,
  Workers,      \* numbers of workers to consider
  MaxRegisters, \* bound on registrations, by the number of workers
  None

ASSUME NodeAssumption   == NodeOf \in [Sessions -> Nodes]
ASSUME FiniteAssumption == IsFiniteSet(Sessions) /\ IsFiniteSet(Domains)
ASSUME WeightAssumption == Weights \subseteq Nat \ {0} /\ Workers \subseteq Nat \ {0}
ASSUME BoundAssumption  == MaxRegisters \in [Workers -> Nat]

VARIABLES
  workers,    \* workers of the IOManager that runs the handlers
  index,      \* NSDomainSet::m_datas: domain -> its object
  domains,    \* NSDomain objects: command -> its node set
  sets,       \* NSNodeSet objects: node -> weight, 0 when it is not there
  info,       \* m_sessions
  connected,  \* isConnected() of the streams
  handlers,   \* the calls of set() in progress, per session
  registers,  \* registrations so far
  expelled,   \* sessions the server has closed after a request it refused
  overlapped  \* sessions whose registration met their onDisconnect

shared == <<index, domains, sets>>
vars   == <<workers, shared, info, connected, handlers, registers, expelled, overlapped>>

Calls == {"register", "close"}
Info  == [weight : Weights, cmds : [Domains -> SUBSET Cmds]]
Item  == [op : {"del", "add"}, domain : Domains, cmds : SUBSET Cmds]

ASSUME NoneAssumption == None \notin Info

Idle == [pc |-> "idle"]
Call(new, todo) == [pc |-> "domain", new |-> new, todo |-> todo, d |-> 0, s |-> 0]

Init ==
  /\ workers \in Workers
  /\ index = [d \in Domains |-> 0]
  /\ domains = <<>> /\ sets = <<>>
  /\ info = [s \in Sessions |-> None]
  /\ connected = [s \in Sessions |-> TRUE]
  /\ handlers = [s \in Sessions |-> [k \in Calls |-> Idle]]
  /\ registers = 0 /\ expelled = {} /\ overlapped = {}

Busy(s, k) == handlers[s][k].pc # "idle"
FreeWorker == Cardinality({x \in Sessions \X Calls : Busy(x[1], x[2])}) < workers

---------------------------------------------------------------------------
(* set(): what it has to do *)

CmdsOf(i) == IF i = None THEN [d \in Domains |-> {}] ELSE i.cmds

Items(op, f) == {[op |-> op, domain |-> d, cmds |-> f[d]] : d \in {x \in Domains : f[x] # {}}}

\* Variant: diff() finds the domains that are gone, not the commands of those
\* that are kept.
TodoWholeDomains(old, new) ==
  LET o == CmdsOf(old)
      n == CmdsOf(new)
      dels == [d \in Domains |-> IF n[d] = {} THEN o[d] ELSE {}]
      news == [d \in Domains |-> n[d] \ o[d]]
      both == [d \in Domains |-> IF old # None /\ new # None /\ old.weight # new.weight
                                 THEN o[d] \cap n[d] ELSE {}]
  IN  SetToSeq(Items("del", dels)) \o SetToSeq(Items("add", news)) \o SetToSeq(Items("add", both))

\* Variant: a new weight is not passed on.
TodoKeepsWeight(old, new) ==
  LET o == CmdsOf(old)
      n == CmdsOf(new)
  IN  SetToSeq(Items("del", [d \in Domains |-> o[d] \ n[d]]))
        \o SetToSeq(Items("add", [d \in Domains |-> n[d] \ o[d]]))

\* diff(): commands that are gone, then new ones, then, when the weight has
\* changed, those that stay.
Todo(old, new) ==
  LET o == CmdsOf(old)
      n == CmdsOf(new)
      dels == [d \in Domains |-> o[d] \ n[d]]
      news == [d \in Domains |-> n[d] \ o[d]]
      both == [d \in Domains |-> IF old # None /\ new # None /\ old.weight # new.weight
                                 THEN o[d] \cap n[d] ELSE {}]
  IN  SetToSeq(Items("del", dels)) \o SetToSeq(Items("add", news)) \o SetToSeq(Items("add", both))

\* A registration of a session that is not connected any more counts as none.
Register(s, i) ==
  /\ registers < MaxRegisters[workers] /\ s \notin expelled
  /\ FreeWorker /\ ~Busy(s, "register")
  /\ registers' = registers + 1
  /\ LET new == IF connected[s] THEN i ELSE None
     IN  handlers' = [handlers EXCEPT ![s]["register"] = Call(new, Todo(info[s], new))]
  /\ overlapped' = IF Busy(s, "close") THEN overlapped \cup {s} ELSE overlapped
  /\ UNCHANGED <<workers, shared, info, connected, expelled>>

\* A request with another node than before is refused, and handleRequest
\* closes the stream; onDisconnect is not called for a stream closed already.
Refuse(s) ==
  /\ FreeWorker /\ ~Busy(s, "register")
  /\ connected[s] /\ info[s] # None
  /\ connected' = [connected EXCEPT ![s] = FALSE]
  /\ expelled' = expelled \cup {s}
  /\ UNCHANGED <<workers, shared, info, handlers, registers, overlapped>>

\* innerClose() calls onDisconnect while the stream still counts as connected.
PeerCloses(s) ==
  /\ FreeWorker /\ ~Busy(s, "close")
  /\ connected[s]
  /\ handlers' = [handlers EXCEPT ![s]["close"] = Call(None, Todo(info[s], None))]
  /\ overlapped' = IF Busy(s, "register") THEN overlapped \cup {s} ELSE overlapped
  /\ UNCHANGED <<workers, shared, info, connected, registers, expelled>>

---------------------------------------------------------------------------
(* set(): one action per lock scope *)

Goes(s, k, h) == handlers' = [handlers EXCEPT ![s][k] = h]
Keeps == UNCHANGED <<workers, info, connected, registers, expelled, overlapped>>

\* The handler has done with the head of its list, or with one command of it.
NextItem(h)   == [h EXCEPT !.pc = "domain", !.todo = Tail(@), !.d = 0, !.s = 0]
NextCmd(h, c) == IF Head(h.todo).cmds = {c} THEN NextItem(h)
                 ELSE [h EXCEPT !.pc = "cmd", !.todo[1].cmds = @ \ {c}, !.s = 0]
CmdOf(h)      == CHOOSE c \in Head(h.todo).cmds : TRUE

\* NSDomainSet::get; a missing domain is made, to be added in another scope.
GetDomain(s, k) ==
  LET h == handlers[s][k]
      i == Head(h.todo)
  IN  /\ h.pc = "domain" /\ h.todo # <<>>
      /\ IF index[i.domain] # 0
         THEN Goes(s, k, [h EXCEPT !.pc = "cmd", !.d = index[i.domain]]) /\ UNCHANGED domains
         ELSE IF i.op = "del"
         THEN Goes(s, k, NextItem(h)) /\ UNCHANGED domains
         ELSE /\ domains' = Append(domains, [c \in Cmds |-> 0])
              /\ Goes(s, k, [h EXCEPT !.pc = "addDomain", !.d = Len(domains) + 1])
      /\ Keeps /\ UNCHANGED <<index, sets>>

AddDomain(s, k) ==
  LET h == handlers[s][k]
  IN  /\ h.pc = "addDomain"
      /\ index' = [index EXCEPT ![Head(h.todo).domain] = h.d]
      /\ Goes(s, k, [h EXCEPT !.pc = "cmd"])
      /\ Keeps /\ UNCHANGED <<domains, sets>>

\* NSDomain::get; add() makes a missing node set, del() has nothing to do.
GetSet(s, k) ==
  LET h == handlers[s][k]
      c == CmdOf(h)
      found == domains[h.d][c]
  IN  /\ h.pc = "cmd"
      /\ IF found # 0
         THEN /\ Goes(s, k, [h EXCEPT !.pc = IF Head(h.todo).op = "del" THEN "delNode" ELSE "addNode", !.s = found])
              /\ UNCHANGED sets
         ELSE IF Head(h.todo).op = "del"
         THEN Goes(s, k, NextCmd(h, c)) /\ UNCHANGED sets
         ELSE /\ sets' = Append(sets, [n \in Nodes |-> 0])
              /\ Goes(s, k, [h EXCEPT !.pc = "addSet", !.s = Len(sets) + 1])
      /\ Keeps /\ UNCHANGED <<index, domains>>

AddSet(s, k) ==
  LET h == handlers[s][k]
  IN  /\ h.pc = "addSet"
      /\ domains' = [domains EXCEPT ![h.d][CmdOf(h)] = h.s]
      /\ Goes(s, k, [h EXCEPT !.pc = "addNode"])
      /\ Keeps /\ UNCHANGED <<index, sets>>

\* Variant: a node that is listed already gets the sum of its weights.
AddNodeSums(s, k) ==
  LET h == handlers[s][k]
  IN  /\ h.pc = "addNode"
      /\ sets' = [sets EXCEPT ![h.s][NodeOf[s]] = @ + h.new.weight]
      /\ Goes(s, k, NextCmd(h, CmdOf(h)))
      /\ Keeps /\ UNCHANGED <<index, domains>>

AddNode(s, k) ==
  LET h == handlers[s][k]
  IN  /\ h.pc = "addNode"
      /\ sets' = [sets EXCEPT ![h.s][NodeOf[s]] = h.new.weight]
      /\ Goes(s, k, NextCmd(h, CmdOf(h)))
      /\ Keeps /\ UNCHANGED <<index, domains>>

DelNode(s, k) ==
  LET h == handlers[s][k]
  IN  /\ h.pc = "delNode"
      /\ sets' = [sets EXCEPT ![h.s][NodeOf[s]] = 0]
      /\ Goes(s, k, [h EXCEPT !.pc = "size"])
      /\ Keeps /\ UNCHANGED <<index, domains>>

\* NSDomain::del: an empty node set is removed, after its size was read.
TestSize(s, k) ==
  LET h == handlers[s][k]
  IN  /\ h.pc = "size"
      /\ Goes(s, k, IF \A n \in Nodes : sets[h.s][n] = 0
                    THEN [h EXCEPT !.pc = "delSet"]
                    ELSE NextCmd(h, CmdOf(h)))
      /\ Keeps /\ UNCHANGED shared

DelSet(s, k) ==
  LET h == handlers[s][k]
  IN  /\ h.pc = "delSet"
      /\ domains' = [domains EXCEPT ![h.d][CmdOf(h)] = 0]
      /\ Goes(s, k, NextCmd(h, CmdOf(h)))
      /\ Keeps /\ UNCHANGED <<index, sets>>

\* Variant: only registrations are written to m_sessions.
FinishKeeps(s, k) ==
  LET h == handlers[s][k]
  IN  /\ h.pc = "domain" /\ h.todo = <<>>
      /\ info' = IF h.new = None THEN info ELSE [info EXCEPT ![s] = h.new]
      /\ connected' = IF k = "close" THEN [connected EXCEPT ![s] = FALSE] ELSE connected
      /\ Goes(s, k, Idle)
      /\ UNCHANGED <<workers, shared, registers, expelled, overlapped>>

\* The end of set(); after onDisconnect the stream is closed.
Finish(s, k) ==
  LET h == handlers[s][k]
  IN  /\ h.pc = "domain" /\ h.todo = <<>>
      /\ info' = [info EXCEPT ![s] = h.new]
      /\ connected' = IF k = "close" THEN [connected EXCEPT ![s] = FALSE] ELSE connected
      /\ Goes(s, k, Idle)
      /\ UNCHANGED <<workers, shared, registers, expelled, overlapped>>

Next ==
  \E s \in Sessions :
    \/ \E i \in Info : (\E d \in Domains : i.cmds[d] # {}) /\ Register(s, i)
    \/ Refuse(s) \/ PeerCloses(s)
    \/ \E k \in Calls :
         \/ GetDomain(s, k) \/ AddDomain(s, k) \/ GetSet(s, k) \/ AddSet(s, k)
         \/ AddNode(s, k) \/ DelNode(s, k) \/ TestSize(s, k) \/ DelSet(s, k) \/ Finish(s, k)

Spec == Init /\ [][Next]_vars

---------------------------------------------------------------------------
(* Properties *)

\* Every pointer of the registry and of the handlers leads to an object, and a
\* listed weight is one that was registered.
TypeOK ==
  /\ workers \in Workers
  /\ index \in [Domains -> 0..Len(domains)]
  /\ domains \in Seq([Cmds -> 0..Len(sets)])
  /\ sets \in Seq([Nodes -> Weights \cup {0}])
  /\ info \in [Sessions -> Info \cup {None}]
  /\ connected \in [Sessions -> BOOLEAN]
  /\ \A s \in Sessions : \A k \in Calls : Busy(s, k) =>
       LET h == handlers[s][k]
       IN  /\ h.new \in Info \cup {None} /\ h.todo \in Seq(Item)
           /\ h.d \in 0..Len(domains) /\ h.s \in 0..Len(sets)
  /\ registers \in 0..MaxRegisters[workers]
  /\ expelled \subseteq Sessions /\ overlapped \subseteq Sessions

\* What a query finds: the weight of a node, 0 when it is not listed.
Listed(d, c, n) ==
  IF index[d] = 0 \/ domains[index[d]][c] = 0 THEN 0 ELSE sets[domains[index[d]][c]][n]

Registered(s, d, c) == IF info[s] # None /\ c \in info[s].cmds[d] THEN info[s].weight ELSE 0

Quiet == \A s \in Sessions : \A k \in Calls : ~Busy(s, k)

\* With one worker, whatever was registered, changed and closed, a query finds
\* the registered commands with their latest weights (name_server_module.cc:195).
ListedExact ==
  (workers = 1 /\ Quiet) =>
    \A s \in Sessions : \A d \in Domains : \A c \in Cmds :
      Listed(d, c, NodeOf[s]) = Registered(s, d, c)

\* With any number of workers, once the calls of a session have ended, a node
\* is only listed for commands its session has registered, with the weight it
\* registered, and for none when the peer has closed: a race with other sessions
\* may lose an entry, never leave one (name_server_module.cc:57, :195).
NoGhost ==
  \A s \in Sessions \ overlapped : (\A k \in Calls : ~Busy(s, k)) =>
    /\ \A d \in Domains : \A c \in Cmds : Listed(d, c, NodeOf[s]) \in {0, Registered(s, d, c)}
    /\ ~connected[s] /\ s \notin expelled => info[s] = None
===============================================================================
