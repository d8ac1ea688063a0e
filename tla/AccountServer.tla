---------------------------- MODULE AccountServer ----------------------------
(***************************************************************************)
(* The account server (src/game_server/account_server/account_service.cc)  *)
(* and the account operations of the database server                       *)
(* (src/game_server/db_server/db_service.cc), joined by their one          *)
(* connection.  The account server serves the connection of the login      *)
(* server with one fiber: it takes one message at a time, asks the         *)
(* database with blocking requests (SendDBRequest) and answers.            *)
(*                                                                         *)
(* A connection is a sequence of messages.  A message is sent and received *)
(* in one step; header and body are not told apart.  Hash functions are    *)
(* free constructors.  MySQL assigns each name an id: the name stands for  *)
(* it, Zero for the invalid id 0.                                          *)
(***************************************************************************)
EXTENDS Naturals, Sequences

CONSTANTS
  Names,      \* account names, and the ids of their rows
  Seeds,      \* accounts inserted by insert_player_data.sql
  Passwords,
  SeedPassword, \* the password of the accounts in Seeds
  Clients,    \* clients of the login server, for whom requests are made
  MaxLate,    \* bound on receive timeouts per connection
  Zero,       \* account id 0
  None

ASSUME SeedsAssumption == Seeds \subseteq Names /\ SeedPassword \in Passwords
ASSUME ZeroAssumption  == Zero \notin Names \cup {None} /\ None \notin Names
ASSUME LateAssumption  == MaxLate \in Nat

VARIABLES
  inbox,    \* requests on the connection from the login server
  outbox,   \* answers on it
  hpc,      \* where handleClient is: idle, or the request it has sent to the database
  hreq,     \* the request it handles
  asked,    \* the database request whose response it waits for
  dbIn,     \* requests on the connection to the database server
  dbOut,    \* responses on it
  late,     \* requests given up since the connection was made
  nameToId, \* name_to_id_
  byId,     \* account_cache_
  table     \* MySQL: name -> stored password, None without a row

lines   == <<inbox, outbox>>
handler == <<hpc, hreq, asked>>
cache   == <<nameToId, byId>>
account == <<lines, handler, dbIn, dbOut, late, cache, table>>

Md5(x)  == <<"md5", x>>
Sha1(x) == <<"sha1", x>>
Blank   == <<"", "">>
Invalid == <<"", "invalid_password">>

Hashes == {Blank, Invalid} \cup {Md5(p) : p \in Passwords}
Stored == {Sha1(Md5(p)) : p \in Passwords} \cup {Md5(p) : p \in Passwords}
Ids    == Names \cup {Zero}

Request == [client : Clients, kind : {"login", "register"}, name : Names, pw : Passwords]
Answer  == [req : Request, ret : {0, 1, 3}, id : Ids]
DBRequest  == [op : {"verify"}, name : Names, pw : {Invalid} \cup {Md5(p) : p \in Passwords}]
  \cup [op : {"create"}, name : Names, pw : {Md5(p) : p \in Passwords}]
  \cup [op : {"log"}, name : {None}, pw : {Blank}]
\* to is the request the database server answers (not part of the message)
DBResponse == [ret : {0, 1}, id : Ids, name : Names \cup {None}, to : DBRequest]
ASSUME NoneAssumption == None \notin Request \cup DBRequest
ASSUME HashAssumption ==
  /\ \A x \in Passwords \cup Hashes : None \notin {Md5(x), Sha1(x)}
  /\ Passwords \cap {Md5(p) : p \in Passwords} = {}

Info    == [name : Names \cup {None}, pw : Hashes]

Volatile ==
  /\ inbox = <<>> /\ outbox = <<>>
  /\ hpc = "idle" /\ hreq = None /\ asked = None
  /\ dbIn = <<>> /\ dbOut = <<>> /\ late = 0
  /\ nameToId = [n \in Names |-> None] /\ byId = [i \in Ids |-> None]

AccountInit ==
  /\ Volatile
  /\ table = [n \in Names |-> IF n \in Seeds THEN Md5(SeedPassword) ELSE None]

---------------------------------------------------------------------------
(* The database server: HandleRecv and the account operations *)

Refused(q)   == [ret |-> 1, id |-> Zero, name |-> None, to |-> q]
Accepted(q, i) == [ret |-> 0, id |-> i, name |-> IF i = Zero THEN None ELSE i, to |-> q]

\* VerifyAccount compares what is stored with the hash of what was sent.
Verify(q) ==
  /\ dbOut' = Append(dbOut, IF table[q.name] = Md5(q.pw) THEN Accepted(q, q.name) ELSE Refused(q))
  /\ UNCHANGED table

\* CreateAccount: the unique key on the name refuses a second row.
Create(q) ==
  IF table[q.name] = None
  THEN /\ table' = [table EXCEPT ![q.name] = Sha1(q.pw)]
       /\ dbOut' = Append(dbOut, Accepted(q, q.name))
  ELSE /\ dbOut' = Append(dbOut, Refused(q))
       /\ UNCHANGED table

RecordLog(q) ==
  /\ dbOut' = Append(dbOut, Accepted(q, Zero))
  /\ UNCHANGED table

\* No connection in the pool, or the statement failed.
StatementFails(q) == dbOut' = Append(dbOut, Refused(q)) /\ UNCHANGED table

ServeDB ==
  /\ dbIn # <<>>
  /\ dbIn' = Tail(dbIn)
  /\ LET q == Head(dbIn)
     IN  \/ q.op = "verify" /\ Verify(q)
         \/ q.op = "create" /\ Create(q)
         \/ q.op = "log" /\ RecordLog(q)
         \/ StatementFails(q)
  /\ UNCHANGED <<lines, handler, late, cache>>

---------------------------------------------------------------------------
(* The account server *)

Ask(place, op, name, pw) ==
  LET q == [op |-> op, name |-> name, pw |-> pw]
  IN  /\ hpc' = place
      /\ asked' = q
      /\ dbIn' = Append(dbIn, q)
      /\ UNCHANGED outbox

Reply(req, ret, id) ==
  /\ outbox' = Append(outbox, [req |-> req, ret |-> ret, id |-> id])
  /\ hpc' = "idle" /\ asked' = None
  /\ UNCHANGED dbIn

Cached(name) == nameToId[name] # None /\ byId[nameToId[name]] # None

Keep(id, name, info) ==
  /\ byId' = [byId EXCEPT ![id] = info]
  /\ nameToId' = IF name = None THEN nameToId ELSE [nameToId EXCEPT ![name] = id]

\* Variant: a cached login is answered without waiting for the login log.
TakeLoginNoWait(req) ==
  IF Cached(req.name) /\ byId[nameToId[req.name]].pw = Md5(req.pw)
  THEN /\ outbox' = Append(outbox, [req |-> req, ret |-> 0, id |-> nameToId[req.name]])
       /\ dbIn' = Append(dbIn, [op |-> "log", name |-> None, pw |-> Blank])
       /\ hpc' = "idle" /\ asked' = None
  ELSE Ask("verify", "verify", req.name, Md5(req.pw))

\* handleClient takes a message: a login is checked against the cache, then by
\* the database; a registration first looks whether the name is known.
TakeLogin(req) ==
  IF Cached(req.name) /\ byId[nameToId[req.name]].pw = Md5(req.pw)
  THEN IF nameToId[req.name] = Zero
       THEN Reply(req, 3, Zero)
       ELSE Ask("log", "log", None, Blank)
  ELSE Ask("verify", "verify", req.name, Md5(req.pw))

TakeRegister(req) ==
  IF Cached(req.name)
  THEN Reply(req, 1, Zero)
  ELSE Ask("get", "verify", req.name, Invalid)

TakeRequest ==
  /\ hpc = "idle" /\ inbox # <<>>
  /\ inbox' = Tail(inbox)
  /\ \/ Head(inbox).kind = "login" /\ TakeLogin(Head(inbox))
     \/ Head(inbox).kind = "register" /\ TakeRegister(Head(inbox))
  /\ hreq' = IF hpc' = "idle" THEN None ELSE Head(inbox)
  /\ UNCHANGED <<dbOut, late, cache, table>>

\* GetAccountInfo(name): an id means that the name is taken.
AfterGet(rsp) ==
  IF rsp.id # Zero
  THEN Keep(rsp.id, rsp.name, [name |-> rsp.name, pw |-> Blank]) /\ Reply(hreq, 1, Zero)
  ELSE UNCHANGED cache /\ Ask("create", "create", hreq.name, Md5(hreq.pw))

\* Variant: the cache keeps the account whether or not it was created.
AfterCreateAlways(rsp) ==
  /\ Keep(hreq.name, hreq.name, [name |-> hreq.name, pw |-> Md5(hreq.pw)])
  /\ Reply(hreq, 0, hreq.name)

\* Variant: the cache keeps the password as it was sent.
AfterCreatePlain(rsp) ==
  IF rsp.ret = 0 /\ rsp.id # Zero
  THEN /\ Keep(rsp.id, hreq.name, [name |-> hreq.name, pw |-> hreq.pw])
       /\ Reply(hreq, 0, rsp.id)
  ELSE UNCHANGED cache /\ Reply(hreq, 1, Zero)

AfterCreate(rsp) ==
  IF rsp.ret = 0 /\ rsp.id # Zero
  THEN /\ Keep(rsp.id, hreq.name, [name |-> hreq.name, pw |-> Md5(hreq.pw)])
       /\ Reply(hreq, 0, rsp.id)
  ELSE UNCHANGED cache /\ Reply(hreq, 1, Zero)

AfterVerify(rsp) ==
  IF rsp.ret # 0
  THEN UNCHANGED cache /\ Reply(hreq, 1, Zero)
  ELSE /\ Keep(rsp.id, hreq.name, [name |-> rsp.name, pw |-> Md5(hreq.pw)])
       /\ IF rsp.id = Zero
          THEN Reply(hreq, 3, Zero)
          ELSE Ask("log", "log", None, Blank)

\* The result of the login log is not looked at.
AfterLog == UNCHANGED cache /\ Reply(hreq, 0, nameToId[hreq.name])

Continue(rsp) ==
  \/ hpc = "get" /\ AfterGet(rsp)
  \/ hpc = "create" /\ AfterCreate(rsp)
  \/ hpc = "verify" /\ AfterVerify(rsp)
  \/ hpc = "log" /\ AfterLog

\* SendDBRequest returns the next response on the connection.
Receive ==
  /\ hpc # "idle" /\ dbOut # <<>>
  /\ dbOut' = Tail(dbOut)
  /\ Continue(Head(dbOut))
  /\ hreq' = IF hpc' = "idle" THEN None ELSE hreq
  /\ UNCHANGED <<inbox, late, table>>

\* ... or gives up after thirty seconds; the response comes later.
RecvTimeout ==
  /\ hpc # "idle" /\ dbOut = <<>> /\ late < MaxLate
  /\ late' = late + 1
  /\ Continue(Refused(asked))
  /\ hreq' = IF hpc' = "idle" THEN None ELSE hreq
  /\ UNCHANGED <<inbox, dbOut, table>>

AccountNext == ServeDB \/ TakeRequest \/ Receive \/ RecvTimeout
=============================================================================
