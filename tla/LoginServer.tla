----------------------------- MODULE LoginServer -----------------------------
(***************************************************************************)
(* The login server (src/game_server/login_server/login_service.cc) in     *)
(* front of the account server: handlers of its clients forward requests   *)
(* over one connection, and a reader fiber passes each answer on to the    *)
(* client that client_map_ holds for that connection.                      *)
(*                                                                         *)
(* The reader polls and never gives its worker up, so the handlers share   *)
(* the other worker of the IOManager: one of them at a time is between its *)
(* store into client_map_ and its send, and the reader may run in between. *)
(* A client sends without waiting for answers.  A request that finds no    *)
(* connection and can make none is dropped: no step.  Restart is           *)
(* stop_all.sh and start_all.sh: the tables of MySQL alone survive.        *)
(***************************************************************************)
EXTENDS AccountServer, Functions

CONSTANTS
  MaxAsks,     \* bound on the requests of all clients together
  MaxRestarts  \* bound on restarts

ASSUME AskAssumption     == MaxAsks \in Nat /\ MaxRestarts \in Nat
ASSUME ClientsAssumption == None \notin Clients

VARIABLES
  clientMap, \* the entry of client_map_ for the connection, None without one
  sending,   \* the request a handler has yet to send
  online,    \* clients that are connected
  asks,      \* requests of each client
  got,       \* answers each client was sent
  restarts

login == <<clientMap, sending, online, asks, got, restarts>>
vars  == <<account, login>>

Init ==
  /\ AccountInit
  /\ clientMap = None /\ sending = None
  /\ online = [c \in Clients |-> TRUE]
  /\ asks = [c \in Clients |-> 0]
  /\ got = [c \in Clients |-> 0]
  /\ restarts = 0

MayAsk(c) == online[c] /\ sending = None /\ FoldFunction(+, 0, asks) < MaxAsks

---------------------------------------------------------------------------
(* Handlers of the clients: HandleLoginRequest, HandleRegisterRequest *)

\* The handler stores its client under the connection, whoever is there, ...
AskMaps(req) ==
  LET c == req.client
  IN  /\ MayAsk(c)
      /\ asks' = [asks EXCEPT ![c] = @ + 1]
      /\ clientMap' = c
      /\ sending' = req
      /\ UNCHANGED <<account, online, got, restarts>>

AskSends ==
  /\ sending # None
  /\ inbox' = Append(inbox, sending)
  /\ sending' = None
  /\ UNCHANGED <<outbox, handler, dbIn, dbOut, late, cache, table, clientMap, online, asks, got, restarts>>

\* Variant: a request that could not be sent leaves its client in the map.
AskFailsKeeps ==
  /\ sending # None
  /\ sending' = None
  /\ UNCHANGED <<account, clientMap, online, asks, got, restarts>>

\* The send fails: the entry is erased, also when it is another client's.
AskFails ==
  /\ sending # None
  /\ sending' = None
  /\ clientMap' = None
  /\ UNCHANGED <<account, online, asks, got, restarts>>

Leave(c) ==
  /\ online[c]
  /\ sending # None => sending.client # c
  /\ online' = [online EXCEPT ![c] = FALSE]
  /\ UNCHANGED <<account, clientMap, sending, asks, got, restarts>>

---------------------------------------------------------------------------
(* The reader of the answers *)

TakesAnswer ==
  /\ outbox # <<>>
  /\ outbox' = Tail(outbox)
  /\ UNCHANGED <<inbox, handler, dbIn, dbOut, late, cache, table, sending, online, asks, restarts>>

Delivered(c) == clientMap = c /\ online[c]

\* Variant: the entry stays for the next answer.
ForwardKeeps ==
  /\ TakesAnswer
  /\ got' = [c \in Clients |-> IF Delivered(c) THEN got[c] + 1 ELSE got[c]]
  /\ UNCHANGED clientMap

\* Whoever is in the map gets the answer; without an entry it is dropped.
Forward ==
  /\ TakesAnswer
  /\ got' = [c \in Clients |-> IF Delivered(c) THEN got[c] + 1 ELSE got[c]]
  /\ clientMap' = None

Restart ==
  /\ restarts < MaxRestarts
  /\ restarts' = restarts + 1
  /\ inbox' = <<>> /\ outbox' = <<>>
  /\ hpc' = "idle" /\ hreq' = None /\ asked' = None
  /\ dbIn' = <<>> /\ dbOut' = <<>> /\ late' = 0
  /\ nameToId' = [n \in Names |-> None] /\ byId' = [i \in Ids |-> None]
  /\ clientMap' = None /\ sending' = None
  /\ online' = [c \in Clients |-> TRUE]
  /\ UNCHANGED <<table, asks, got>>

Next ==
  \/ \E req \in Request : AskMaps(req)
  \/ \E c \in Clients : Leave(c)
  \/ AskSends \/ AskFails \/ Forward \/ Restart
  \/ AccountNext /\ UNCHANGED login

Spec == Init /\ [][Next]_vars

---------------------------------------------------------------------------
(* Properties *)

\* Every variable keeps to what the servers store and send (the caches hold
\* hashes, never passwords; the handler waits exactly when it asked).
TypeOK ==
  /\ inbox \in Seq(Request) /\ outbox \in Seq(Answer)
  /\ hpc \in {"idle", "get", "create", "verify", "log"}
  /\ hreq \in Request \cup {None}
  /\ asked \in DBRequest \cup {None}
  /\ (hpc = "idle") = (asked = None) /\ (hpc = "idle") = (hreq = None)
  /\ dbIn \in Seq(DBRequest) /\ dbOut \in Seq(DBResponse)
  /\ late \in 0..MaxLate
  /\ nameToId \in [Names -> Ids \cup {None}]
  /\ byId \in [Ids -> Info \cup {None}]
  /\ table \in [Names -> Stored \cup {None}]
  /\ clientMap \in Clients \cup {None}
  /\ sending \in Request \cup {None}
  /\ online \in [Clients -> BOOLEAN]
  /\ asks \in [Clients -> Nat]
  /\ got \in [Clients -> Nat]
  /\ restarts \in 0..MaxRestarts

\* A client is never sent more answers than it asked for, counting the one its
\* entry of client_map_ stands for (login_service.cc:416-430 erases the entry).
AnswersBounded ==
  \A c \in Clients : got[c] + (IF clientMap = c THEN 1 ELSE 0) <= asks[c]

\* SendDBRequest numbers nothing: requests and responses on the connection to
\* the database are those given up plus the one being waited for.
LagExact ==
  Len(dbIn) + Len(dbOut) = late + (IF hpc = "idle" THEN 0 ELSE 1)

\* As long as no request was given up, a response of the database is to the
\* request that waits for it (account_service.cc:310-338); an account in the cache
\* has its own id, and a login succeeds only with the password the account was
\* made with: a registration that fails leaves no trace in the cache.
AnswersTrue ==
  late = 0 =>
    /\ \A i \in DOMAIN dbOut : dbOut[i].to = asked
    /\ \A n \in Names : Cached(n) =>
         nameToId[n] = n /\ byId[n].pw \in {Blank} \cup {h \in Hashes : table[n] = Sha1(h)}
    /\ \A i \in DOMAIN outbox : outbox[i].ret = 0 =>
         outbox[i].id = outbox[i].req.name /\ table[outbox[i].req.name] = Sha1(Md5(outbox[i].req.pw))

\* Requests forwarded and not yet answered, oldest last in the path.
Underway ==
  {inbox[i] : i \in DOMAIN inbox} \cup {outbox[i].req : i \in DOMAIN outbox}
    \cup (IF hreq = None THEN {} ELSE {hreq}) \cup (IF sending = None THEN {} ELSE {sending})

\* While the requests underway are one client's, answers go to no other: a send
\* that fails leaves no entry of client_map_ that another's answer meets.
SoloAnswerIsOwn ==
  [][\A c, d \in Clients :
       (got'[d] # got[d] /\ \A req \in Underway : req.client = c) => d = c]_vars

\* The comment at login_service.cc:415: the answer is passed on to the client
\* it belongs to.
AnswerIsOwn ==
  [][\A c \in Clients : got'[c] # got[c] => Head(outbox).req.client = c]_vars
=============================================================================
