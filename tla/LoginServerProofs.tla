-------------------------- MODULE LoginServerProofs --------------------------
(***************************************************************************)
(* Proofs about LoginServer: its types, the number of messages on the      *)
(* connection to the database, the bound on the answers of a client, that  *)
(* answers are true until a request is given up, and whose answers they    *)
(* are while the requests of one client alone are under way.               *)
(***************************************************************************)
EXTENDS LoginServer, SequenceTheorems, TLAPS

\* While the login log is being written, the name is in name_to_id_ (the id
\* that the answer carries is read from there).
LogKnown == hpc = "log" => nameToId[hreq.name] # None

AInv == TypeOK /\ LogKnown

\* The hash types are what the constructors build.
LEMMA HashTypes ==
  /\ Blank \in Hashes /\ Invalid \in Hashes
  /\ \A p \in Passwords : Md5(p) \in Hashes /\ Sha1(Md5(p)) \in Stored /\ Md5(p) \in Stored
BY DEF Hashes, Stored

\* A response names the account it carries.
LEMMA ResponseTypes ==
  ASSUME NEW q \in DBRequest
  PROVE  /\ Refused(q) \in DBResponse
         /\ Accepted(q, Zero) \in DBResponse
         /\ \A n \in Names : Accepted(q, n) \in DBResponse
BY ZeroAssumption DEF Refused, Accepted, DBResponse, Ids

\* The initial state has the types.
LEMMA InitAInv == Init => AInv
<1> SUFFICES ASSUME Init PROVE AInv
  OBVIOUS
<1>1. table \in [Names -> Stored \cup {None}]
  BY HashTypes, SeedsAssumption DEF Init, AccountInit
<1>2. late \in 0..MaxLate /\ restarts \in 0..MaxRestarts
  BY LateAssumption, AskAssumption DEF Init, AccountInit, Volatile
<1>3. QED
  BY <1>1, <1>2, NoneAssumption DEF Init, AccountInit, Volatile, AInv, TypeOK, LogKnown

\* What a step of the account server does to the request it handles: after it
\* the handler waits again, with one more request on the connection, or is
\* idle, with its answer sent.
Stepped(name) ==
  /\ outbox' \in Seq(Answer)
  /\ hpc' \in {"idle", "get", "create", "verify", "log"}
  /\ asked' \in DBRequest \cup {None}
  /\ (hpc' = "idle") = (asked' = None)
  /\ dbIn' \in Seq(DBRequest)
  /\ Len(dbIn') = Len(dbIn) + (IF hpc' = "idle" THEN 0 ELSE 1)
  /\ nameToId' \in [Names -> Ids \cup {None}]
  /\ byId' \in [Ids -> Info \cup {None}]
  /\ hpc' = "log" => nameToId'[name] # None

LEMMA AskSteps ==
  ASSUME TypeOK, NEW name \in Names, NEW place \in {"get", "create", "verify", "log"},
         NEW op, NEW n, NEW pw, [op |-> op, name |-> n, pw |-> pw] \in DBRequest,
         Ask(place, op, n, pw),
         nameToId' \in [Names -> Ids \cup {None}], byId' \in [Ids -> Info \cup {None}],
         place = "log" => nameToId'[name] # None
  PROVE  Stepped(name)
<1> DEFINE q == [op |-> op, name |-> n, pw |-> pw]
<1>1. hpc' = place /\ asked' = q /\ dbIn' = Append(dbIn, q) /\ outbox' = outbox
  BY DEF Ask
<1>2. q \in DBRequest /\ q # None
  BY NoneAssumption
<1> HIDE DEF q
<1>3. dbIn' \in Seq(DBRequest) /\ Len(dbIn') = Len(dbIn) + 1
  BY <1>1, <1>2 DEF TypeOK
<1>4. QED
  BY <1>1, <1>2, <1>3 DEF Stepped, TypeOK

LEMMA ReplySteps ==
  ASSUME TypeOK, NEW name \in Names, NEW req \in Request, NEW ret \in {0, 1, 3}, NEW id \in Ids,
         Reply(req, ret, id),
         nameToId' \in [Names -> Ids \cup {None}], byId' \in [Ids -> Info \cup {None}]
  PROVE  Stepped(name)
<1> DEFINE a == [req |-> req, ret |-> ret, id |-> id]
<1>1. hpc' = "idle" /\ asked' = None /\ dbIn' = dbIn /\ outbox' = Append(outbox, a)
  BY DEF Reply
<1>2. a \in Answer
  BY DEF Answer
<1> HIDE DEF a
<1>3. outbox' \in Seq(Answer)
  BY <1>1, <1>2 DEF TypeOK
<1>4. QED
  BY <1>1, <1>3 DEF Stepped, TypeOK

LEMMA KeepTypes ==
  ASSUME TypeOK, NEW id \in Ids, NEW name \in Names \cup {None}, NEW info \in Info, Keep(id, name, info)
  PROVE  /\ nameToId' \in [Names -> Ids \cup {None}]
         /\ byId' \in [Ids -> Info \cup {None}]
         /\ name \in Names => nameToId'[name] # None
BY ZeroAssumption DEF Keep, TypeOK, Ids

\* The requests the account server makes.
LEMMA RequestTypes ==
  ASSUME NEW req \in Request
  PROVE  /\ req.name \in Names /\ req.pw \in Passwords
         /\ Md5(req.pw) \in Hashes
         /\ [op |-> "verify", name |-> req.name, pw |-> Md5(req.pw)] \in DBRequest
         /\ [op |-> "verify", name |-> req.name, pw |-> Invalid] \in DBRequest
         /\ [op |-> "create", name |-> req.name, pw |-> Md5(req.pw)] \in DBRequest
         /\ [op |-> "log", name |-> None, pw |-> Blank] \in DBRequest
<1>1. req.name \in Names /\ req.pw \in Passwords
  BY DEF Request
<1>2. Md5(req.pw) \in {Md5(p) : p \in Passwords}
  BY <1>1
<1>3. QED
  BY <1>1, <1>2, HashTypes DEF DBRequest

LEMMA TakeSteps ==
  ASSUME TypeOK, NEW req \in Request, UNCHANGED cache, TakeLogin(req) \/ TakeRegister(req)
  PROVE  Stepped(req.name)
<1>1. nameToId' = nameToId /\ byId' = byId
  BY DEF cache
<1>2. nameToId' \in [Names -> Ids \cup {None}] /\ byId' \in [Ids -> Info \cup {None}]
  BY <1>1 DEF TypeOK
<1>3. req.name \in Names /\ Zero \in Ids
  BY RequestTypes DEF Ids
<1>4. CASE Reply(req, 3, Zero) \/ Reply(req, 1, Zero)
  BY <1>2, <1>3, <1>4, ReplySteps
<1>5. CASE Ask("log", "log", None, Blank) /\ Cached(req.name)
  BY <1>1, <1>2, <1>3, <1>5, AskSteps, RequestTypes DEF Cached
<1>6. CASE Ask("verify", "verify", req.name, Md5(req.pw))
  BY <1>2, <1>3, <1>6, AskSteps, RequestTypes
<1>7. CASE Ask("get", "verify", req.name, Invalid)
  BY <1>2, <1>3, <1>7, AskSteps, RequestTypes
<1>8. QED
  BY <1>4, <1>5, <1>6, <1>7 DEF TakeLogin, TakeRegister

LEMMA ContinueSteps ==
  ASSUME AInv, hpc # "idle", NEW rsp \in DBResponse, Continue(rsp)
  PROVE  hreq \in Request /\ Stepped(hreq.name)
<1>1. hreq \in Request /\ Zero \in Ids
  BY NoneAssumption DEF AInv, TypeOK, Ids
<1>2. hreq.name \in Names /\ Md5(hreq.pw) \in Hashes /\ Blank \in Hashes
  BY <1>1, RequestTypes, HashTypes
<1>3. rsp.ret \in {0, 1} /\ rsp.id \in Ids /\ rsp.name \in Names \cup {None}
  BY DEF DBResponse
<1>4. UNCHANGED cache => /\ nameToId' \in [Names -> Ids \cup {None}]
                         /\ byId' \in [Ids -> Info \cup {None}]
                         /\ nameToId' = nameToId
  BY DEF AInv, TypeOK, cache
<1>5. TypeOK
  BY DEF AInv
<1>6. CASE hpc = "get" /\ AfterGet(rsp)
  <2>1. CASE rsp.id # Zero
    <3>1. [name |-> rsp.name, pw |-> Blank] \in Info
      BY <1>2, <1>3 DEF Info
    <3>2. QED
      BY <1>1, <1>2, <1>3, <1>5, <1>6, <2>1, <3>1, KeepTypes, ReplySteps DEF AfterGet
  <2>2. CASE rsp.id = Zero
    BY <1>1, <1>2, <1>4, <1>5, <1>6, <2>2, AskSteps, RequestTypes DEF AfterGet
  <2>3. QED
    BY <2>1, <2>2
<1> DEFINE info == [name |-> hreq.name, pw |-> Md5(hreq.pw)]
<1>7. info \in Info
  BY <1>2 DEF Info
<1>8. CASE hpc = "create" /\ AfterCreate(rsp)
  <2>1. CASE Keep(rsp.id, hreq.name, info) /\ Reply(hreq, 0, rsp.id)
    <3> HIDE DEF info
    <3>1. QED
      BY <1>1, <1>2, <1>3, <1>5, <1>7, <2>1, KeepTypes, ReplySteps
  <2>2. CASE UNCHANGED cache /\ Reply(hreq, 1, Zero)
    BY <1>1, <1>2, <1>4, <1>5, <2>2, ReplySteps
  <2>3. QED
    BY <1>8, <2>1, <2>2 DEF AfterCreate
<1>9. CASE hpc = "verify" /\ AfterVerify(rsp)
  <2> DEFINE told == [name |-> rsp.name, pw |-> Md5(hreq.pw)]
  <2>1. told \in Info
    BY <1>2, <1>3 DEF Info
  <2>2. CASE UNCHANGED cache /\ Reply(hreq, 1, Zero)
    BY <1>1, <1>2, <1>4, <1>5, <2>2, ReplySteps
  <2>3. CASE Keep(rsp.id, hreq.name, told) /\ (Reply(hreq, 3, Zero) \/ Ask("log", "log", None, Blank))
    <3> HIDE DEF told
    <3>1. /\ nameToId' \in [Names -> Ids \cup {None}]
          /\ byId' \in [Ids -> Info \cup {None}]
          /\ nameToId'[hreq.name] # None
      BY <1>2, <1>3, <1>5, <2>1, <2>3, KeepTypes
    <3>2. QED
      BY <1>1, <1>2, <1>5, <2>3, <3>1, ReplySteps, AskSteps, RequestTypes
  <2>4. QED
    BY <1>9, <2>2, <2>3 DEF AfterVerify
<1>10. CASE hpc = "log" /\ AfterLog
  <2>1. nameToId[hreq.name] \in Ids
    BY <1>2, <1>10 DEF AInv, TypeOK, LogKnown
  <2>2. QED
    BY <1>1, <1>2, <1>4, <1>5, <1>10, <2>1, ReplySteps DEF AfterLog
<1>11. QED
  BY <1>1, <1>6, <1>8, <1>9, <1>10 DEF Continue

---------------------------------------------------------------------------
(* Actions of the account server and the database server *)

LEMMA ServeKeeps ==
  ASSUME AInv, ServeDB, UNCHANGED login
  PROVE  AInv' /\ (LagExact => LagExact')
<1> DEFINE q == Head(dbIn)
<1>1. q \in DBRequest /\ Tail(dbIn) \in Seq(DBRequest) /\ Len(Tail(dbIn)) = Len(dbIn) - 1
  BY DEF ServeDB, AInv, TypeOK
<1>2. Refused(q) \in DBResponse /\ Accepted(q, Zero) \in DBResponse
  BY <1>1, ResponseTypes
<1>3. (q.op = "verify" \/ q.op = "create") => q.name \in Names /\ Accepted(q, q.name) \in DBResponse
  BY <1>1, ResponseTypes DEF DBRequest
<1>4. q.op = "create" => Sha1(q.pw) \in Stored
  BY <1>1, HashTypes DEF DBRequest
<1>5. PICK r \in DBResponse : dbOut' = Append(dbOut, r)
  BY <1>2, <1>3 DEF ServeDB, Verify, Create, RecordLog, StatementFails
<1>6. table' \in [Names -> Stored \cup {None}]
  BY <1>3, <1>4 DEF ServeDB, Verify, Create, RecordLog, StatementFails, AInv, TypeOK
<1>7. dbOut' \in Seq(DBResponse) /\ Len(dbOut') = Len(dbOut) + 1
  BY <1>5 DEF AInv, TypeOK
<1>8. dbIn' \in Seq(DBRequest) /\ Len(dbIn') = Len(dbIn) - 1
  BY <1>1 DEF ServeDB
<1>9. UNCHANGED <<inbox, outbox, hpc, hreq, asked, late, nameToId, byId, clientMap, sending, online, asks, got, restarts>>
  BY DEF ServeDB, lines, handler, cache, login
<1>10. AInv'
  BY <1>6, <1>7, <1>8, <1>9 DEF AInv, TypeOK, LogKnown
<1>11. LagExact => LagExact'
  <2>1. Len(dbIn) \in Nat /\ Len(dbOut) \in Nat
    BY DEF AInv, TypeOK
  <2>2. QED
    BY <1>7, <1>8, <1>9, <2>1 DEF LagExact
<1>12. QED
  BY <1>10, <1>11

LEMMA TakeKeeps ==
  ASSUME AInv, TakeRequest, UNCHANGED login
  PROVE  AInv' /\ (LagExact => LagExact')
<1> DEFINE req == Head(inbox)
<1>1. req \in Request /\ inbox' \in Seq(Request)
  BY DEF TakeRequest, AInv, TypeOK
<1>2. req # None
  BY <1>1, NoneAssumption
<1>3. /\ UNCHANGED cache /\ (TakeLogin(req) \/ TakeRegister(req))
      /\ hpc = "idle" /\ hreq' = IF hpc' = "idle" THEN None ELSE req
      /\ UNCHANGED <<dbOut, late, table, clientMap, sending, online, asks, got, restarts>>
  BY DEF TakeRequest, login
<1> HIDE DEF req
<1>4. Stepped(req.name)
  BY <1>1, <1>3, TakeSteps DEF AInv
<1>5. AInv'
  BY <1>1, <1>2, <1>3, <1>4 DEF AInv, TypeOK, LogKnown, Stepped
<1>6. LagExact => LagExact'
  BY <1>3, <1>4 DEF LagExact, AInv, TypeOK, Stepped
<1>7. QED
  BY <1>5, <1>6

LEMMA ReceiveKeeps ==
  ASSUME AInv, Receive, UNCHANGED login
  PROVE  AInv' /\ (LagExact => LagExact')
<1> DEFINE rsp == Head(dbOut)
<1>1. rsp \in DBResponse /\ dbOut' \in Seq(DBResponse) /\ Len(dbOut') = Len(dbOut) - 1
  BY DEF Receive, AInv, TypeOK
<1>2. /\ hpc # "idle" /\ Continue(rsp)
      /\ hreq' = IF hpc' = "idle" THEN None ELSE hreq
      /\ UNCHANGED <<inbox, late, table, clientMap, sending, online, asks, got, restarts>>
  BY DEF Receive, login
<1> HIDE DEF rsp
<1>3. hreq \in Request /\ Stepped(hreq.name)
  BY <1>1, <1>2, ContinueSteps
<1>4. hreq # None
  BY <1>3, NoneAssumption
<1>5. AInv'
  BY <1>1, <1>2, <1>3, <1>4 DEF AInv, TypeOK, LogKnown, Stepped
<1>6. LagExact => LagExact'
  BY <1>1, <1>2, <1>3 DEF LagExact, AInv, TypeOK, Stepped
<1>7. QED
  BY <1>5, <1>6

LEMMA TimeoutKeeps ==
  ASSUME AInv, RecvTimeout, UNCHANGED login
  PROVE  AInv' /\ (LagExact => LagExact')
<1>1. Refused(asked) \in DBResponse
  BY ResponseTypes DEF RecvTimeout, AInv, TypeOK
<1>2. /\ hpc # "idle" /\ Continue(Refused(asked))
      /\ hreq' = IF hpc' = "idle" THEN None ELSE hreq
      /\ late' = late + 1 /\ late < MaxLate
      /\ UNCHANGED <<inbox, dbOut, table, clientMap, sending, online, asks, got, restarts>>
  BY DEF RecvTimeout, login
<1>3. hreq \in Request /\ Stepped(hreq.name)
  BY <1>1, <1>2, ContinueSteps
<1>4. hreq # None
  BY <1>3, NoneAssumption
<1>5. late' \in 0..MaxLate
  BY <1>2, LateAssumption DEF AInv, TypeOK
<1>6. AInv'
  BY <1>2, <1>3, <1>4, <1>5 DEF AInv, TypeOK, LogKnown, Stepped
<1>7. LagExact => LagExact'
  BY <1>2, <1>3 DEF LagExact, AInv, TypeOK, Stepped
<1>8. QED
  BY <1>6, <1>7

---------------------------------------------------------------------------
(* Actions of the login server *)

LEMMA LoginKeeps ==
  ASSUME AInv,
         \/ \E req \in Request : AskMaps(req)
         \/ \E c \in Clients : Leave(c)
         \/ AskSends \/ AskFails \/ Forward \/ Restart
  PROVE  AInv' /\ (LagExact => LagExact')
<1>1. ASSUME NEW req \in Request, AskMaps(req) PROVE AInv' /\ (LagExact => LagExact')
  <2>1. req.client \in Clients
    BY DEF Request
  <2>2. asks' \in [Clients -> Nat] /\ clientMap' \in Clients /\ sending' \in Request
    BY <1>1, <2>1 DEF AskMaps, AInv, TypeOK
  <2>3. QED
    BY <1>1, <2>2 DEF AskMaps, AInv, TypeOK, LogKnown, LagExact, account, lines, handler, cache
<1>2. ASSUME NEW c \in Clients, Leave(c) PROVE AInv' /\ (LagExact => LagExact')
  <2>1. online' \in [Clients -> BOOLEAN]
    BY <1>2 DEF Leave, AInv, TypeOK
  <2>2. QED
    BY <1>2, <2>1 DEF Leave, AInv, TypeOK, LogKnown, LagExact, account, lines, handler, cache
<1>3. CASE AskSends
  <2>1. inbox' \in Seq(Request)
    BY <1>3 DEF AskSends, AInv, TypeOK
  <2>2. QED
    BY <1>3, <2>1 DEF AskSends, AInv, TypeOK, LogKnown, LagExact, handler, cache
<1>4. CASE AskFails
  BY <1>4 DEF AskFails, AInv, TypeOK, LogKnown, LagExact, account, lines, handler, cache
<1>5. CASE Forward
  <2>1. outbox' \in Seq(Answer)
    BY <1>5 DEF Forward, TakesAnswer, AInv, TypeOK
  <2>2. got' \in [Clients -> Nat]
    BY <1>5 DEF Forward, AInv, TypeOK
  <2>3. QED
    BY <1>5, <2>1, <2>2 DEF Forward, TakesAnswer, AInv, TypeOK, LogKnown, LagExact, handler, cache
<1>6. CASE Restart
  <2>1. late' \in 0..MaxLate /\ restarts' \in 0..MaxRestarts
    BY <1>6, LateAssumption, AskAssumption DEF Restart, AInv, TypeOK
  <2>2. /\ inbox' = <<>> /\ outbox' = <<>> /\ dbIn' = <<>> /\ dbOut' = <<>>
        /\ hpc' = "idle" /\ hreq' = None /\ asked' = None /\ late' = 0
        /\ clientMap' = None /\ sending' = None
        /\ online' \in [Clients -> BOOLEAN]
        /\ UNCHANGED <<table, asks, got>>
    BY <1>6 DEF Restart
  <2>3. /\ nameToId' \in [Names -> Ids \cup {None}]
        /\ byId' \in [Ids -> Info \cup {None}]
    BY <1>6 DEF Restart
  <2>4. AInv'
    BY <2>1, <2>2, <2>3 DEF AInv, TypeOK, LogKnown
  <2>5. LagExact'
    BY <2>2 DEF LagExact
  <2>6. QED
    BY <2>4, <2>5
<1>7. QED
  BY <1>1, <1>2, <1>3, <1>4, <1>5, <1>6

LEMMA StutterKeeps ==
  ASSUME AInv, UNCHANGED vars
  PROVE  AInv' /\ (LagExact => LagExact')
BY DEF AInv, TypeOK, LogKnown, LagExact, vars, account, login, lines, handler, cache

LEMMA NextKeeps ==
  ASSUME AInv, [Next]_vars
  PROVE  AInv' /\ (LagExact => LagExact')
BY ServeKeeps, TakeKeeps, ReceiveKeeps, TimeoutKeeps, LoginKeeps, StutterKeeps DEF Next, AccountNext

\* Every variable keeps to what the servers store and send.
THEOREM Types == Spec => []TypeOK
<1>1. AInv => TypeOK
  BY DEF AInv
<1>2. QED
  BY <1>1, InitAInv, NextKeeps, PTL DEF Spec

\* The connection to the database holds the requests given up and the one
\* that is waited for: a lag, once there, stays until a restart.
THEOREM Lag == Spec => []LagExact
<1>1. Init => LagExact
  BY DEF Init, AccountInit, Volatile, LagExact
<1>2. QED
  BY <1>1, InitAInv, NextKeeps, PTL DEF Spec

---------------------------------------------------------------------------
(* Answers per client *)

\* No client is sent more answers than it asked for.
THEOREM Bounded == Spec => []AnswersBounded
<1>1. Init => AnswersBounded
  BY ClientsAssumption DEF Init, AnswersBounded
<1>2. ASSUME AInv, AnswersBounded, [Next]_vars PROVE AnswersBounded'
  <2> USE DEF AInv, TypeOK, AnswersBounded
  <2>1. ASSUME NEW req \in Request, AskMaps(req) PROVE AnswersBounded'
    <3>1. req.client \in Clients
      BY DEF Request
    <3>2. clientMap' = req.client /\ got' = got /\ asks' = [asks EXCEPT ![req.client] = @ + 1]
      BY <2>1 DEF AskMaps
    <3>3. /\ asks \in [Clients -> Nat] /\ got \in [Clients -> Nat]
          /\ \A c \in Clients : got[c] + (IF clientMap = c THEN 1 ELSE 0) <= asks[c]
      BY <1>2
    <3> SUFFICES ASSUME NEW c \in Clients PROVE got'[c] + (IF clientMap' = c THEN 1 ELSE 0) <= asks'[c]
      OBVIOUS
    <3>4. got[c] \in Nat /\ asks[c] \in Nat /\ got[c] <= asks[c]
      BY <3>3
    <3>5. CASE c = req.client
      <4>1. asks'[c] = asks[c] + 1
        BY <3>2, <3>3, <3>5
      <4>2. QED
        BY <3>2, <3>4, <4>1
    <3>6. CASE c # req.client
      <4>1. asks'[c] = asks[c]
        BY <3>1, <3>2, <3>3, <3>6
      <4>2. QED
        BY <3>2, <3>4, <3>6, <4>1
    <3>7. QED
      BY <3>5, <3>6
  <2>2. CASE AskFails \/ Restart
    BY <1>2, <2>2, ClientsAssumption DEF AskFails, Restart
  <2>3. CASE Forward
    BY <1>2, <2>3, ClientsAssumption DEF Forward, TakesAnswer, Delivered
  <2>4. CASE UNCHANGED <<clientMap, asks, got>>
    BY <1>2, <2>4
  <2>5. QED
    BY <1>2, <2>1, <2>2, <2>3, <2>4 DEF Next, Leave, AskSends, vars, login
<1>3. QED
  BY <1>1, <1>2, InitAInv, NextKeeps, PTL DEF Spec

---------------------------------------------------------------------------
(* The truth of answers *)

\* What a response says of its request is so.
Honest(r) ==
  /\ r.ret # 0 => r.id = Zero
  /\ r.ret = 0 /\ r.to.op = "verify" =>
       r.id = r.to.name /\ r.name = r.to.name /\ table[r.to.name] = Md5(r.to.pw)
  /\ r.ret = 0 /\ r.to.op = "create" => r.id = r.to.name /\ table[r.to.name] = Sha1(r.to.pw)

\* The one request under way, or its response, is the one waited for, ...
LineTrue ==
  /\ \A i \in DOMAIN dbIn : dbIn[i] = asked
  /\ \A i \in DOMAIN dbOut : dbOut[i].to = asked /\ Honest(dbOut[i])

\* ... and what the handler, where it is, has to ask.
AskedFor ==
  /\ hpc = "get" => asked.op = "verify"
  /\ hpc = "create" => asked.op = "create" /\ asked.name = hreq.name /\ asked.pw = Md5(hreq.pw)
  /\ hpc = "verify" => asked.op = "verify" /\ asked.pw \in {Md5(p) : p \in Passwords}

\* An account in the cache is the one in the table.
CacheTrue ==
  \A n \in Names : /\ nameToId[n] \in {None, n}
                   /\ byId[n] # None => byId[n].pw \in {Blank} \cup {h \in Hashes : table[n] = Sha1(h)}

\* The password of a request is that of the account.
RightPassword(req) == table[req.name] = Sha1(Md5(req.pw))

LogTrue == hpc = "log" => nameToId[hreq.name] = hreq.name /\ RightPassword(hreq)
OutTrue == \A i \in DOMAIN outbox :
             outbox[i].ret = 0 => outbox[i].id = outbox[i].req.name /\ RightPassword(outbox[i].req)

TrueInv == LineTrue /\ AskedFor /\ CacheTrue /\ LogTrue /\ OutTrue

\* No account is found by the hash of a hash, nor without a row.
LEMMA NeverVerified ==
  ASSUME TypeOK, NEW n \in Names, NEW p \in Passwords
  PROVE  table[n] # Md5(Md5(p))
<1>1. table[n] \in Stored \cup {None} /\ Md5(p) \in Hashes
  BY HashTypes DEF TypeOK
<1>2. Md5(Md5(p)) # None
  BY <1>1, HashAssumption
<1>3. ASSUME NEW r \in Passwords PROVE Sha1(Md5(r)) # Md5(Md5(p)) /\ Md5(r) # Md5(Md5(p))
  <2>1. r # Md5(p)
    BY HashAssumption
  <2>2. QED
    BY <2>1 DEF Md5, Sha1
<1>4. QED
  BY <1>1, <1>2, <1>3 DEF Stored

\* While nothing is late, a request under way is the only message on the line.
LEMMA OneOnLine ==
  ASSUME TypeOK, LagExact, late = 0
  PROVE  /\ hpc = "idle" => dbIn = <<>> /\ dbOut = <<>>
         /\ dbOut # <<>> => dbIn = <<>> /\ Tail(dbOut) = <<>>
         /\ dbIn # <<>> => dbOut = <<>> /\ Tail(dbIn) = <<>>
<1>1. /\ dbIn \in Seq(DBRequest) /\ dbOut \in Seq(DBResponse)
      /\ Len(dbIn) + Len(dbOut) = IF hpc = "idle" THEN 0 ELSE 1
  BY DEF TypeOK, LagExact
<1>2. Len(dbIn) \in Nat /\ Len(dbOut) \in Nat /\ (dbIn = <<>> <=> Len(dbIn) = 0) /\ (dbOut = <<>> <=> Len(dbOut) = 0)
  BY <1>1
<1>a. PICK a \in Nat, b \in Nat : a = Len(dbIn) /\ b = Len(dbOut)
  BY <1>2
<1>b. a + b = (IF hpc = "idle" THEN 0 ELSE 1) /\ (dbIn = <<>> <=> a = 0) /\ (dbOut = <<>> <=> b = 0)
  BY <1>1, <1>2, <1>a
<1>3. dbOut # <<>> => Len(dbIn) = 0 /\ Len(dbOut) = 1
  BY <1>a, <1>b
<1>4. dbIn # <<>> => Len(dbOut) = 0 /\ Len(dbIn) = 1
  BY <1>a, <1>b
<1>5. hpc = "idle" => Len(dbIn) = 0 /\ Len(dbOut) = 0
  BY <1>a, <1>b
<1>6. QED
  BY <1>1, <1>2, <1>3, <1>4, <1>5

\* A row of the table stays as it is.
LEMMA RowsStay ==
  ASSUME AInv, ServeDB, NEW n \in Names
  PROVE  table'[n] = table[n] \/ table[n] = None
<1> DEFINE q == Head(dbIn)
<1>1. q \in DBRequest /\ table \in [Names -> Stored \cup {None}]
  BY DEF ServeDB, AInv, TypeOK
<1>2. CASE Create(q)
  BY <1>1, <1>2 DEF Create
<1>3. CASE table' = table
  BY <1>3
<1>4. QED
  BY <1>2, <1>3 DEF ServeDB, Verify, RecordLog, StatementFails

\* The database server answers the request it has taken, honestly.
LEMMA ServedHonest ==
  ASSUME AInv, NEW q \in DBRequest, q = Head(dbIn), ServeDB
  PROVE  \E r : dbOut' = Append(dbOut, r) /\ r.to = q /\ Honest(r)'
<1>1. table \in [Names -> Stored \cup {None}] /\ Zero \notin Names \cup {None}
  BY ZeroAssumption DEF AInv, TypeOK
<1>2. q.op = "verify" \/ q.op = "create" => q.name \in Names
  BY DEF DBRequest
<1>3. ASSUME NEW r, r = Refused(q) PROVE r.to = q /\ Honest(r)'
  BY <1>3 DEF Refused, Honest
<1>4. ASSUME NEW r, NEW i, r = Accepted(q, i)
      PROVE  r.ret = 0 /\ r.id = i /\ r.to = q /\ r.name = IF i = Zero THEN None ELSE i
  BY <1>4 DEF Accepted
<1>5. ASSUME q.op = "verify", Verify(q), table[q.name] = Md5(q.pw), NEW r, r = Accepted(q, q.name)
      PROVE  Honest(r)'
  <2>1. table'[q.name] = Md5(q.pw) /\ q.name # Zero
    BY <1>1, <1>2, <1>5 DEF Verify
  <2>2. QED
    BY <1>4, <1>5, <2>1 DEF Honest
<1>6. ASSUME q.op = "create", Create(q), table[q.name] = None, NEW r, r = Accepted(q, q.name)
      PROVE  Honest(r)'
  <2>1. table'[q.name] = Sha1(q.pw)
    BY <1>1, <1>2, <1>6 DEF Create
  <2>2. QED
    BY <1>4, <1>6, <2>1 DEF Honest
<1>7. ASSUME q.op = "log", NEW r, r = Accepted(q, Zero)
      PROVE  Honest(r)'
  BY <1>4, <1>7 DEF Honest
<1>8. CASE q.op = "verify" /\ Verify(q)
  <2>1. \E r \in {Accepted(q, q.name), Refused(q)} :
          dbOut' = Append(dbOut, r) /\ (r = Accepted(q, q.name) => table[q.name] = Md5(q.pw) \/ r = Refused(q))
    BY <1>8 DEF Verify
  <2>2. QED
    BY <1>3, <1>4, <1>5, <1>8, <2>1
<1>9. CASE q.op = "create" /\ Create(q)
  <2>1. \E r \in {Accepted(q, q.name), Refused(q)} :
          dbOut' = Append(dbOut, r) /\ (r = Accepted(q, q.name) => table[q.name] = None \/ r = Refused(q))
    BY <1>9 DEF Create
  <2>2. QED
    BY <1>3, <1>4, <1>6, <1>9, <2>1
<1>10. CASE q.op = "log" /\ RecordLog(q)
  <2>1. dbOut' = Append(dbOut, Accepted(q, Zero))
    BY <1>10 DEF RecordLog
  <2>2. QED
    BY <1>4, <1>7, <1>10, <2>1
<1>11. CASE StatementFails(q)
  <2>1. dbOut' = Append(dbOut, Refused(q))
    BY <1>11 DEF StatementFails
  <2>2. QED
    BY <1>3, <2>1
<1>12. QED
  BY <1>8, <1>9, <1>10, <1>11 DEF ServeDB

\* The database server serves: its answer is the one waited for, and no row changes.
LEMMA ServeTrue ==
  ASSUME AInv, LagExact, late = 0, TrueInv, ServeDB, UNCHANGED login
  PROVE  TrueInv'
<1>1. PICK q : q = Head(dbIn) /\ q \in DBRequest /\ q = asked /\ dbOut = <<>> /\ dbIn' = <<>>
  <2>1. dbIn # <<>> /\ dbIn \in Seq(DBRequest) /\ dbIn' = Tail(dbIn) /\ Head(dbIn) = dbIn[1] /\ 1 \in DOMAIN dbIn
    BY DEF ServeDB, AInv, TypeOK
  <2>2. QED
    BY <2>1, OneOnLine DEF AInv, TrueInv, LineTrue
<1>3. UNCHANGED <<outbox, hpc, hreq, asked, nameToId, byId>>
  BY DEF ServeDB, lines, handler, cache
<1>10. PICK r : dbOut' = Append(dbOut, r) /\ r.to = q /\ Honest(r)'
  BY <1>1, ServedHonest
<1>11. LineTrue'
  <2>1. dbOut' = <<r>> /\ r.to = asked' /\ Honest(r)'
    BY <1>1, <1>3, <1>10
  <2>2. \A i \in DOMAIN dbOut' : dbOut'[i] = r
    BY <2>1
  <2>3. QED
    BY <1>1, <2>1, <2>2 DEF LineTrue, Honest
<1>12. ASSUME NEW n \in Names, NEW h \in Hashes, table[n] = Sha1(h) PROVE table'[n] = Sha1(h)
  BY <1>12, RowsStay, HashAssumption
<1>13. ASSUME NEW req \in Request, RightPassword(req) PROVE RightPassword(req)'
  BY <1>12, <1>13, RequestTypes DEF RightPassword
<1>14. CacheTrue'
  BY <1>3, <1>12 DEF TrueInv, CacheTrue
<1>15. LogTrue'
  <2>1. hpc = "log" => hreq \in Request
    BY DEF AInv, TypeOK
  <2>2. QED
    BY <1>3, <1>13, <2>1 DEF TrueInv, LogTrue
<1>16. OutTrue'
  <2>1. \A i \in DOMAIN outbox : outbox[i].req \in Request
    <3>1. \A i \in DOMAIN outbox : outbox[i] \in Answer
      BY DEF AInv, TypeOK
    <3>2. QED
      BY <3>1 DEF Answer
  <2>2. QED
    BY <1>3, <1>13, <2>1 DEF TrueInv, OutTrue
<1>17. AskedFor'
  BY <1>3 DEF TrueInv, AskedFor
<1>18. QED
  BY <1>11, <1>14, <1>15, <1>16, <1>17 DEF TrueInv

\* An account that is kept as it is in the table keeps the cache true.
LEMMA KeepTrue ==
  ASSUME TypeOK, CacheTrue, NEW n \in Names, NEW info, Keep(n, n, info), table' = table,
         info.pw \in {Blank} \cup {h \in Hashes : table[n] = Sha1(h)}
  PROVE  CacheTrue' /\ nameToId'[n] = n
<1>1. /\ byId' = [byId EXCEPT ![n] = info] /\ nameToId' = [nameToId EXCEPT ![n] = n]
      /\ byId \in [Ids -> Info \cup {None}] /\ nameToId \in [Names -> Ids \cup {None}] /\ n \in Ids
  BY ZeroAssumption DEF Keep, TypeOK, Ids
<1>2. Names \subseteq Ids
  BY DEF Ids
<1>3. QED
  BY <1>1, <1>2 DEF CacheTrue

\* A request that follows when nothing is on the line.
LEMMA AskTrue ==
  ASSUME NEW place, NEW op, NEW n, NEW pw, Ask(place, op, n, pw),
         dbIn = <<>>, dbOut' = <<>>, OutTrue, table' = table
  PROVE  /\ LineTrue' /\ OutTrue'
         /\ hpc' = place /\ asked'.op = op /\ asked'.name = n /\ asked'.pw = pw
<1>1. /\ hpc' = place /\ asked' = [op |-> op, name |-> n, pw |-> pw]
      /\ dbIn' = <<asked'>> /\ outbox' = outbox
  BY DEF Ask
<1>2. \A i \in DOMAIN dbIn' : dbIn'[i] = asked'
  BY <1>1
<1>3. LineTrue'
  BY <1>2 DEF LineTrue
<1>4. OutTrue'
  BY <1>1 DEF OutTrue, RightPassword
<1>5. QED
  BY <1>1, <1>3, <1>4

\* An answer that is true.
LEMMA ReplyTrue ==
  ASSUME TypeOK, NEW req \in Request, NEW ret \in {0, 1, 3}, NEW id \in Ids, Reply(req, ret, id),
         ret = 0 => id = req.name /\ RightPassword(req),
         dbIn = <<>>, dbOut' = <<>>, OutTrue, CacheTrue', table' = table
  PROVE  TrueInv'
<1> DEFINE a == [req |-> req, ret |-> ret, id |-> id]
<1>1. /\ hpc' = "idle" /\ dbIn' = <<>> /\ dbOut' = <<>> /\ outbox' = Append(outbox, a)
      /\ outbox \in Seq(Answer)
  BY DEF Reply, TypeOK
<1>2. a \in Answer /\ a.req = req /\ a.ret = ret /\ a.id = id
  BY DEF Answer
<1> HIDE DEF a
<1>3. \A i \in DOMAIN outbox' : \/ i \in DOMAIN outbox /\ outbox'[i] = outbox[i]
                                \/ outbox'[i] = a
  BY <1>1, <1>2
<1>4. OutTrue'
  BY <1>2, <1>3 DEF OutTrue, RightPassword
<1>5. LineTrue' /\ AskedFor' /\ LogTrue'
  BY <1>1 DEF LineTrue, AskedFor, LogTrue
<1>6. QED
  BY <1>4, <1>5 DEF TrueInv

\* A login is answered from the cache only if it has the account's password.
LEMMA TakeTrue ==
  ASSUME AInv, LagExact, late = 0, TrueInv, TakeRequest, UNCHANGED login
  PROVE  TrueInv'
<1> DEFINE req == Head(inbox)
<1>1. /\ req \in Request /\ UNCHANGED cache /\ (TakeLogin(req) \/ TakeRegister(req))
      /\ hreq' = IF hpc' = "idle" THEN None ELSE req
      /\ table' = table /\ dbIn = <<>> /\ dbOut' = <<>>
  BY OneOnLine DEF TakeRequest, AInv, TypeOK
<1> HIDE DEF req
<1>2. CacheTrue' /\ nameToId' = nameToId /\ byId' = byId /\ TypeOK /\ OutTrue
  BY <1>1 DEF AInv, TrueInv, CacheTrue, cache
<1>3. req.name \in Names /\ req.pw \in Passwords /\ Zero \in Ids
  BY <1>1, RequestTypes DEF Ids
<1>4. CASE Reply(req, 3, Zero) \/ Reply(req, 1, Zero)
  BY <1>1, <1>2, <1>3, <1>4, ReplyTrue
<1>5. CASE Ask("verify", "verify", req.name, Md5(req.pw))
  <2>1. /\ LineTrue' /\ OutTrue'
        /\ hpc' = "verify" /\ asked'.op = "verify" /\ asked'.pw = Md5(req.pw)
    BY <1>1, <1>2, <1>5, AskTrue
  <2>2. QED
    BY <1>2, <1>3, <2>1 DEF TrueInv, AskedFor, LogTrue
<1>6. CASE Ask("get", "verify", req.name, Invalid)
  <2>1. LineTrue' /\ OutTrue' /\ hpc' = "get" /\ asked'.op = "verify"
    BY <1>1, <1>2, <1>6, AskTrue
  <2>2. QED
    BY <1>2, <2>1 DEF TrueInv, AskedFor, LogTrue
<1>7. CASE /\ Ask("log", "log", None, Blank) /\ Cached(req.name)
           /\ byId[nameToId[req.name]].pw = Md5(req.pw)
  <2>1. LineTrue' /\ OutTrue' /\ hpc' = "log"
    BY <1>1, <1>2, <1>7, AskTrue
  <2>2. nameToId[req.name] = req.name /\ byId[req.name] # None /\ byId[req.name].pw = Md5(req.pw)
    BY <1>3, <1>7 DEF Cached, TrueInv, CacheTrue
  <2>3. Md5(req.pw) # Blank
    BY DEF Md5, Blank
  <2>4. RightPassword(req)
    BY <1>3, <2>2, <2>3 DEF TrueInv, CacheTrue, RightPassword
  <2>5. hreq' = req
    BY <1>1, <2>1
  <2>6. LogTrue' /\ AskedFor'
    BY <1>1, <1>2, <2>1, <2>2, <2>4, <2>5 DEF LogTrue, AskedFor, RightPassword
  <2>7. QED
    BY <1>2, <2>1, <2>6 DEF TrueInv
<1>8. QED
  BY <1>1, <1>4, <1>5, <1>6, <1>7 DEF TakeLogin, TakeRegister

\* What follows from an honest response to the request that was made is true.
LEMMA ReceiveTrue ==
  ASSUME AInv, LagExact, late = 0, TrueInv, Receive, UNCHANGED login
  PROVE  TrueInv'
<1> DEFINE rsp == Head(dbOut)
<1>1. /\ rsp \in DBResponse /\ rsp.to = asked /\ Honest(rsp)
      /\ dbIn = <<>> /\ dbOut' = <<>>
  BY OneOnLine DEF Receive, AInv, TypeOK, TrueInv, LineTrue
<1>2. /\ Continue(rsp) /\ hpc # "idle" /\ table' = table
      /\ hreq' = IF hpc' = "idle" THEN None ELSE hreq
  BY DEF Receive
<1> HIDE DEF rsp
<1>3. TypeOK /\ OutTrue /\ CacheTrue /\ AskedFor /\ LogTrue
  BY DEF AInv, TrueInv
<1>4. hreq \in Request /\ Zero \in Ids /\ asked \in DBRequest
  BY <1>2, <1>3, NoneAssumption DEF TypeOK, Ids
<1>5. hreq.name \in Names /\ hreq.pw \in Passwords /\ Md5(hreq.pw) \in Hashes
  BY <1>4, RequestTypes
<1>6. hreq.name \in Ids /\ Zero \notin Names
  BY <1>5, ZeroAssumption DEF Ids
<1>7. UNCHANGED cache => CacheTrue'
  BY <1>2, <1>3 DEF CacheTrue, cache
<1>8. rsp.ret \in {0, 1}
  BY <1>1 DEF DBResponse
<1>9. CASE UNCHANGED cache /\ Reply(hreq, 1, Zero)
  BY <1>1, <1>2, <1>3, <1>4, <1>7, <1>9, ReplyTrue
<1>10. CASE hpc = "get" /\ AfterGet(rsp)
  <2>1. CASE rsp.id # Zero
    <3> DEFINE n == rsp.id
               info == [name |-> n, pw |-> Blank]
    <3>1. n = rsp.name /\ n \in Names
      BY <1>1, <1>3, <1>4, <1>8, <1>10, <2>1 DEF Honest, AskedFor, DBRequest
    <3>2. Keep(n, n, info) /\ Reply(hreq, 1, Zero)
      BY <1>10, <2>1, <3>1 DEF AfterGet
    <3>3. info.pw = Blank
      OBVIOUS
    <3> HIDE DEF n, info
    <3>4. CacheTrue'
      BY <1>2, <1>3, <3>1, <3>2, <3>3, KeepTrue
    <3>5. QED
      BY <1>1, <1>2, <1>3, <1>4, <3>2, <3>4, ReplyTrue
  <2>2. CASE rsp.id = Zero
    <3>1. UNCHANGED cache /\ Ask("create", "create", hreq.name, Md5(hreq.pw))
      BY <1>10, <2>2 DEF AfterGet
    <3>2. /\ LineTrue' /\ OutTrue' /\ hpc' = "create"
          /\ asked'.op = "create" /\ asked'.name = hreq.name /\ asked'.pw = Md5(hreq.pw)
      BY <1>1, <1>2, <1>3, <3>1, AskTrue
    <3>3. hreq' = hreq
      BY <1>2, <3>2
    <3>4. AskedFor' /\ LogTrue'
      BY <3>2, <3>3 DEF AskedFor, LogTrue
    <3>5. QED
      BY <1>7, <3>1, <3>2, <3>4 DEF TrueInv
  <2>3. QED
    BY <2>1, <2>2
<1>11. CASE hpc = "create" /\ AfterCreate(rsp)
  <2>1. CASE rsp.ret = 0 /\ rsp.id # Zero
    <3> DEFINE n == hreq.name
               info == [name |-> n, pw |-> Md5(hreq.pw)]
    <3>1. rsp.id = n /\ table[n] = Sha1(Md5(hreq.pw))
      BY <1>1, <1>3, <1>11, <2>1 DEF Honest, AskedFor
    <3>2. Keep(n, n, info) /\ Reply(hreq, 0, n)
      BY <1>11, <2>1, <3>1 DEF AfterCreate
    <3>3. info.pw \in {h \in Hashes : table[n] = Sha1(h)} /\ RightPassword(hreq)
      BY <1>5, <3>1 DEF RightPassword
    <3> HIDE DEF info
    <3>4. CacheTrue'
      BY <1>2, <1>3, <1>5, <3>2, <3>3, KeepTrue
    <3>5. QED
      BY <1>1, <1>2, <1>3, <1>4, <1>6, <3>2, <3>3, <3>4, ReplyTrue
  <2>2. CASE ~(rsp.ret = 0 /\ rsp.id # Zero)
    BY <1>9, <1>11, <2>2 DEF AfterCreate
  <2>3. QED
    BY <2>1, <2>2
<1>12. CASE hpc = "verify" /\ AfterVerify(rsp)
  <2>1. PICK p \in Passwords : asked.op = "verify" /\ asked.pw = Md5(p)
    BY <1>3, <1>12 DEF AskedFor
  <2>2. asked.name \in Names
    BY <1>4, <2>1 DEF DBRequest
  <2>3. rsp.ret # 0
    BY <1>1, <1>3, <2>1, <2>2, NeverVerified DEF Honest
  <2>4. QED
    BY <1>9, <1>12, <2>3 DEF AfterVerify
<1>13. CASE hpc = "log" /\ AfterLog
  <2>1. nameToId[hreq.name] = hreq.name /\ RightPassword(hreq)
    BY <1>3, <1>13 DEF LogTrue
  <2>2. UNCHANGED cache /\ Reply(hreq, 0, hreq.name)
    BY <1>13, <2>1 DEF AfterLog
  <2>3. QED
    BY <1>1, <1>2, <1>3, <1>4, <1>6, <1>7, <2>1, <2>2, ReplyTrue
<1>14. QED
  BY <1>2, <1>10, <1>11, <1>12, <1>13 DEF Continue

\* Steps of the login server only take answers away.
LEMMA LoginTrue ==
  ASSUME AInv, TrueInv,
         \/ \E req \in Request : AskMaps(req)
         \/ \E c \in Clients : Leave(c)
         \/ AskSends \/ AskFails \/ Forward
         \/ UNCHANGED vars
  PROVE  TrueInv'
<1>1. UNCHANGED <<dbIn, dbOut, hpc, hreq, asked, nameToId, byId, table>>
  BY DEF AskMaps, Leave, AskSends, AskFails, Forward, TakesAnswer, vars, account, lines, handler, cache
<1>2. outbox' = outbox \/ (outbox # <<>> /\ outbox' = Tail(outbox))
  BY DEF AskMaps, Leave, AskSends, AskFails, Forward, TakesAnswer, vars, account, lines
<1>3. \A i \in DOMAIN outbox' : \E j \in DOMAIN outbox : outbox'[i] = outbox[j]
  <2>1. outbox \in Seq(Answer)
    BY DEF AInv, TypeOK
  <2>2. CASE outbox # <<>> /\ outbox' = Tail(outbox)
    <3>1. \A i \in DOMAIN outbox' : i + 1 \in DOMAIN outbox /\ outbox'[i] = outbox[i + 1]
      BY <2>1, <2>2
    <3>2. QED
      BY <3>1
  <2>3. QED
    BY <1>2, <2>2
<1>4. OutTrue'
  BY <1>1, <1>3 DEF TrueInv, OutTrue, RightPassword
<1>5. LineTrue' /\ AskedFor' /\ CacheTrue' /\ LogTrue'
  BY <1>1 DEF TrueInv, LineTrue, Honest, AskedFor, CacheTrue, LogTrue, RightPassword
<1>6. QED
  BY <1>4, <1>5 DEF TrueInv

\* After a restart nothing is on the lines or in the cache.
LEMMA RestartTrue ==
  ASSUME Volatile'
  PROVE  TrueInv'
<1>1. /\ hpc' = "idle" /\ dbIn' = <<>> /\ dbOut' = <<>> /\ outbox' = <<>>
      /\ nameToId' = [n \in Names |-> None] /\ byId' = [i \in Ids |-> None]
  BY DEF Volatile
<1>2. CacheTrue'
  BY <1>1 DEF CacheTrue, Ids
<1>3. QED
  BY <1>1, <1>2 DEF TrueInv, LineTrue, AskedFor, LogTrue, OutTrue

\* As long as nothing is late, every step keeps it.
LEMMA TrueKept == AInv /\ LagExact /\ (late = 0 => TrueInv) /\ [Next]_vars => (late' = 0 => TrueInv')
<1> SUFFICES ASSUME AInv, LagExact, late = 0 => TrueInv, [Next]_vars, late' = 0 PROVE TrueInv'
  OBVIOUS
<1>1. CASE Restart
  <2>1. Volatile'
    BY <1>1 DEF Restart, Volatile
  <2>2. QED
    BY <2>1, RestartTrue
<1>2. ASSUME ~ Restart PROVE late = 0 /\ ~ RecvTimeout
  <2>1. late \in Nat
    BY LateAssumption DEF AInv, TypeOK
  <2>2. ~ RecvTimeout
    BY <2>1 DEF RecvTimeout
  <2>3. QED
    BY <1>2, <2>2 DEF Next, AccountNext, vars, account, AskMaps, Leave, AskSends, AskFails, Forward,
                      TakesAnswer, ServeDB, TakeRequest, Receive
<1>3. QED
  BY <1>1, <1>2, ServeTrue, TakeTrue, ReceiveTrue, LoginTrue DEF Next, AccountNext

\* Until a request is given up, answers are true (SendDBRequest, handleClient): a
\* response is to the request that waits for it, the cache agrees with the table,
\* and a login or a registration succeeds with the account's own password only.
THEOREM Truth == Spec => []AnswersTrue
<1>1. Init => LagExact /\ (late = 0 => TrueInv)
  <2> SUFFICES ASSUME Init PROVE LagExact /\ TrueInv
    OBVIOUS
  <2>1. CacheTrue
    BY DEF Init, AccountInit, Volatile, CacheTrue, Ids
  <2>2. QED
    BY <2>1 DEF Init, AccountInit, Volatile, LagExact, TrueInv, LineTrue, AskedFor, LogTrue, OutTrue
<1>2. (late = 0 => TrueInv) => AnswersTrue
  BY DEF TrueInv, LineTrue, CacheTrue, OutTrue, RightPassword, AnswersTrue, Cached
<1>3. AInv /\ LagExact /\ (late = 0 => TrueInv) /\ [Next]_vars => (late = 0 => TrueInv)'
  BY TrueKept
<1>4. QED
  BY <1>1, <1>2, <1>3, InitAInv, NextKeeps, PTL DEF Spec

---------------------------------------------------------------------------
(* Whose answers *)

\* A client in the map has a request on the way.
MapUnderway == clientMap # None => \E req \in Underway : req.client = clientMap

\* An answer is on its way in place of its request.
LEMMA ReplyUnderway ==
  ASSUME TypeOK, NEW req, NEW ret, NEW id, Reply(req, ret, id)
  PROVE  /\ \A i \in DOMAIN outbox : i \in DOMAIN outbox' /\ outbox'[i] = outbox[i]
         /\ \E i \in DOMAIN outbox' : outbox'[i].req = req
<1> DEFINE a == [req |-> req, ret |-> ret, id |-> id]
<1>1. outbox' = Append(outbox, a) /\ a.req = req /\ outbox \in Seq(Answer)
  BY DEF Reply, TypeOK
<1> HIDE DEF a
<1>2. /\ \A i \in DOMAIN outbox : i \in DOMAIN outbox' /\ outbox'[i] = outbox[i]
      /\ Len(outbox) + 1 \in DOMAIN outbox' /\ outbox'[Len(outbox) + 1] = a
  BY <1>1
<1>3. QED
  BY <1>1, <1>2

\* A handler that goes on asks or answers.
LEMMA GoesOn ==
  ASSUME NEW rsp, Continue(rsp)
  PROVE  \/ \E ret, id : Reply(hreq, ret, id)
         \/ outbox' = outbox /\ hpc' # "idle"
BY DEF Continue, AfterGet, AfterCreate, AfterVerify, AfterLog, Ask

\* The servers behind lose no request.
LEMMA AccountUnderway ==
  ASSUME AInv, AccountNext, UNCHANGED login
  PROVE  Underway \subseteq Underway'
<1>1. inbox \in Seq(Request) /\ outbox \in Seq(Answer) /\ TypeOK
  BY DEF AInv, TypeOK
<1>2. sending' = sending
  BY DEF login
<1>3. CASE ServeDB
  BY <1>2, <1>3 DEF ServeDB, Underway, lines, handler
<1>4. CASE Receive \/ RecvTimeout
  <2>1. /\ inbox' = inbox /\ hpc # "idle" /\ hreq' = IF hpc' = "idle" THEN None ELSE hreq
        /\ \E rsp : Continue(rsp)
    BY <1>4 DEF Receive, RecvTimeout
  <2>2. CASE \E ret, id : Reply(hreq, ret, id)
    BY <1>1, <1>2, <2>1, <2>2, ReplyUnderway DEF Underway, Reply
  <2>3. CASE outbox' = outbox /\ hpc' # "idle"
    BY <1>2, <2>1, <2>3 DEF Underway
  <2>4. QED
    BY <2>1, <2>2, <2>3, GoesOn
<1>5. CASE TakeRequest
  <2> DEFINE req == Head(inbox)
  <2>1. /\ inbox # <<>> /\ inbox' = Tail(inbox) /\ hpc = "idle"
        /\ hreq' = IF hpc' = "idle" THEN None ELSE req
        /\ req \in Request /\ req # None
    BY <1>1, <1>5, NoneAssumption DEF TakeRequest
  <2>2. hreq = None
    BY <1>1, <2>1 DEF TypeOK
  <2>3. \A i \in DOMAIN inbox : inbox[i] = req \/ \E j \in DOMAIN inbox' : inbox'[j] = inbox[i]
    <3> PICK t : t = Tail(inbox)
      OBVIOUS
    <3>1. /\ inbox \in Seq(Request) /\ inbox # <<>> /\ t \in Seq(Request)
          /\ Len(t) = Len(inbox) - 1 /\ \A i \in 1..Len(t) : t[i] = inbox[i + 1]
      BY <1>1, <2>1, HeadTailProperties DEF TypeOK
    <3>2. /\ \A i \in DOMAIN inbox : i # 1 => i - 1 \in DOMAIN t /\ t[i - 1] = inbox[i]
          /\ req = inbox[1] /\ inbox' = t
      <4>1. DOMAIN inbox = 1..Len(inbox) /\ DOMAIN t = 1..Len(t) /\ Len(inbox) \in Nat
        BY <3>1
      <4>2. \A i \in DOMAIN inbox : i # 1 => i - 1 \in 1..Len(t) /\ (i - 1) + 1 = i
        BY <3>1, <4>1
      <4>3. req = inbox[1] /\ inbox' = t
        BY <2>1, <3>1
      <4>4. QED
        BY <3>1, <4>1, <4>2, <4>3
    <3>3. QED
      BY <3>2
  <2>4. (\E ret, id : Reply(req, ret, id)) \/ (outbox' = outbox /\ hpc' # "idle")
    BY <1>5 DEF TakeRequest, TakeLogin, TakeRegister, Ask
  <2> HIDE DEF req
  <2>5. CASE \E ret, id : Reply(req, ret, id)
    <3>1. /\ \A i \in DOMAIN outbox : i \in DOMAIN outbox' /\ outbox'[i] = outbox[i]
          /\ \E i \in DOMAIN outbox' : outbox'[i].req = req
      BY <1>1, <2>5, ReplyUnderway
    <3>2. QED
      BY <1>2, <2>2, <2>3, <3>1 DEF Underway
  <2>6. CASE outbox' = outbox /\ hpc' # "idle"
    BY <1>2, <2>1, <2>2, <2>3, <2>6 DEF Underway
  <2>7. QED
    BY <2>4, <2>5, <2>6
<1>6. QED
  BY <1>3, <1>4, <1>5 DEF AccountNext

\* The entry of client_map_ is of a client that waits.
LEMMA MapKept == AInv /\ MapUnderway /\ [Next]_vars => MapUnderway'
<1> SUFFICES ASSUME AInv, MapUnderway, [Next]_vars PROVE MapUnderway'
  OBVIOUS
<1>1. ASSUME NEW req \in Request, AskMaps(req) PROVE MapUnderway'
  <2>1. req # None
    BY NoneAssumption
  <2>2. sending' = req /\ clientMap' = req.client
    BY <1>1 DEF AskMaps
  <2>3. QED
    BY <2>1, <2>2 DEF MapUnderway, Underway
<1>2. CASE AskFails \/ Forward \/ Restart
  BY <1>2 DEF AskFails, Forward, Restart, MapUnderway
<1>3. CASE AskSends
  <2>1. inbox \in Seq(Request) /\ sending \in Request
    BY <1>3 DEF AskSends, AInv, TypeOK
  <2>2. inbox' = Append(inbox, sending) /\ UNCHANGED <<outbox, hreq, clientMap>>
    BY <1>3 DEF AskSends, handler
  <2>3. /\ \A i \in DOMAIN inbox : i \in DOMAIN inbox' /\ inbox'[i] = inbox[i]
        /\ Len(inbox) + 1 \in DOMAIN inbox' /\ inbox'[Len(inbox) + 1] = sending
    BY <2>1, <2>2
  <2>4. Underway \subseteq Underway'
    BY <2>2, <2>3 DEF Underway
  <2>5. QED
    BY <2>2, <2>4 DEF MapUnderway
<1>4. ASSUME NEW c \in Clients, Leave(c) PROVE MapUnderway'
  <2>1. UNCHANGED <<inbox, outbox, hreq, sending, clientMap>>
    BY <1>4 DEF Leave, account, lines, handler
  <2>2. QED
    BY <2>1 DEF MapUnderway, Underway
<1>5. CASE AccountNext /\ UNCHANGED login
  <2>1. clientMap' = clientMap /\ Underway \subseteq Underway'
    BY <1>5, AccountUnderway DEF login
  <2>2. QED
    BY <2>1 DEF MapUnderway
<1>6. CASE UNCHANGED vars
  <2>1. UNCHANGED <<inbox, outbox, hreq, sending, clientMap>>
    BY <1>6 DEF vars, account, login, lines, handler
  <2>2. QED
    BY <2>1 DEF MapUnderway, Underway
<1>7. QED
  BY <1>1, <1>2, <1>3, <1>4, <1>5, <1>6 DEF Next

\* While all requests under way are of one client, nobody else is answered: the
\* entry of client_map_ goes with a send that fails, and with each answer, so it
\* never outlives the requests of the client it names.
THEOREM SoloOwn == Spec => SoloAnswerIsOwn
<1>1. Init => MapUnderway
  BY DEF Init, MapUnderway
<1>2. ASSUME MapUnderway, [Next]_vars
      PROVE  \A c, d \in Clients :
               (got'[d] # got[d] /\ \A req \in Underway : req.client = c) => d = c
  <2> SUFFICES ASSUME NEW c \in Clients, NEW d \in Clients, got'[d] # got[d],
                      \A req \in Underway : req.client = c
               PROVE  d = c
    OBVIOUS
  <2>1. Forward
    BY <1>2 DEF Next, vars, login, AskMaps, Leave, AskSends, AskFails, Restart
  <2>2. clientMap = d
    BY <2>1 DEF Forward, Delivered
  <2>3. d # None
    BY ClientsAssumption
  <2>4. QED
    BY <1>2, <2>2, <2>3 DEF MapUnderway
<1>3. QED
  BY <1>1, <1>2, InitAInv, NextKeeps, MapKept, PTL DEF Spec, SoloAnswerIsOwn
=============================================================================
