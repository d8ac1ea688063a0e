----------------------- MODULE AsyncSocketStreamProofs -----------------------
(***************************************************************************)
(* Proofs about AsyncSocketStream for any number of threads: its types,    *)
(* the permits and restarts of its sessions, that a request is answered    *)
(* once and that no wake-up of doWrite is lost.                            *)
(***************************************************************************)
EXTENDS AsyncSocketStream, FiniteSetTheorems, TLAPS

\* Somebody is about to answer request r: who fails the contexts of a lost
\* connection, a doRead with its response, or its timeout.
Held(r) == \/ \E a \in Actors : r \in closing[a]
           \/ \E s \in Sessions : hand[s] = r
           \/ tp[r] # "off"

\* A context in the map is open and in nobody's hands; an open one has not been
\* answered; before the context is in the map nobody knows the request.
AnswerInv ==
  \A r \in Requests :
    /\ woken[r] \in {0, 1}
    /\ open[r] => woken[r] = 0
    /\ r \in ctxs => open[r] /\ ~ Held(r)
    /\ rq[r] \in {"idle", "add"} => r \notin ctxs /\ ~ Held(r) /\ timer[r] = "unset"
    /\ rq[r] = "idle" => ~ open[r] /\ woken[r] = 0
    /\ rq[r] = "add" => open[r]
    /\ rq[r] = "arm" => timer[r] = "unset"

IInv == TypeOK /\ AnswerInv /\ OneRestart /\ OneReaderWriter /\ PermitsConserved

---------------------------------------------------------------------------
(* Counting sessions *)

\* The number of sessions beyond some places is a number, and zero when nobody is.
LEMMA BeyondType ==
  ASSUME NEW f, NEW A
  PROVE  Beyond(f, A) \in Nat /\ ((\A s \in Sessions : f[s] \in A) => Beyond(f, A) = 0)
<1>1. IsFiniteSet({s \in Sessions : f[s] \notin A})
  BY SessionsAssumption, FS_Subset
<1>2. (\A s \in Sessions : f[s] \in A) => {s \in Sessions : f[s] \notin A} = {}
  OBVIOUS
<1>3. QED
  BY <1>1, <1>2, FS_CardinalityType, FS_EmptySet DEF Beyond

\* One that is beyond them counts.
LEMMA BeyondHas ==
  ASSUME NEW f, NEW A, NEW s \in Sessions, f[s] \notin A
  PROVE  Beyond(f, A) >= 1
<1> DEFINE F == {x \in Sessions : f[x] \notin A}
<1>1. IsFiniteSet(F) /\ Cardinality(F) \in Nat
  BY SessionsAssumption, FS_Subset, FS_CardinalityType
<1>2. F # {}
  OBVIOUS
<1>3. Cardinality(F) # 0
  BY <1>1, <1>2, FS_EmptySet
<1>4. QED
  BY <1>1, <1>3 DEF Beyond

\* How the number changes when one session moves.
LEMMA BeyondMoves ==
  ASSUME NEW f, NEW g, NEW A, NEW s \in Sessions, \A x \in Sessions \ {s} : g[x] = f[x]
  PROVE  /\ f[s] \in A /\ g[s] \in A => Beyond(g, A) = Beyond(f, A)
         /\ f[s] \notin A /\ g[s] \notin A => Beyond(g, A) = Beyond(f, A)
         /\ f[s] \in A /\ g[s] \notin A => Beyond(g, A) = Beyond(f, A) + 1
         /\ f[s] \notin A /\ g[s] \in A => Beyond(g, A) = Beyond(f, A) - 1
<1> DEFINE F == {x \in Sessions : f[x] \notin A}
           G == {x \in Sessions : g[x] \notin A}
<1>1. IsFiniteSet(F) /\ IsFiniteSet(G)
  BY SessionsAssumption, FS_Subset
<1>2. Beyond(f, A) = Cardinality(F) /\ Beyond(g, A) = Cardinality(G)
  BY DEF Beyond
<1>3. CASE f[s] \in A /\ g[s] \notin A
  <2>1. G = F \cup {s} /\ s \notin F
    BY <1>3
  <2>2. QED
    BY <1>1, <1>2, <1>3, <2>1, FS_AddElement
<1>4. CASE f[s] \notin A /\ g[s] \in A
  <2>1. G = F \ {s} /\ s \in F
    BY <1>4
  <2>2. QED
    BY <1>1, <1>2, <1>4, <2>1, FS_RemoveElement
<1>5. CASE f[s] \in A <=> g[s] \in A
  <2>1. G = F
    BY <1>5
  <2> HIDE DEF F, G
  <2>2. QED
    BY <1>2, <1>5, <2>1
<1>6. QED
  BY <1>3, <1>4, <1>5

---------------------------------------------------------------------------
(* Types *)

\* A start() under way finds no doRead: that is what makes its own the only one.
LEMMA NoReadWhileStart ==
  ASSUME IInv, NEW s \in Sessions, sp[s] # "off"
  PROVE  rp[s] = "off"
<1>1. Beyond(sp, {"off"}) >= 1
  BY BeyondHas
<1>2. rp[s] # "off" => Beyond(rp, {"off"}) >= 1
  BY BeyondHas
<1>3. soon \in Nat /\ Beyond(sp, {"off"}) \in Nat /\ Beyond(rp, {"off"}) \in Nat
  BY BeyondType DEF IInv, TypeOK
<1>4. soon + Beyond(sp, {"off"}) + Beyond(rp, {"off"}) <= 1
  BY <1>3 DEF IInv, OneRestart
<1>5. QED
  BY <1>1, <1>2, <1>3, <1>4

\* What innerClose does first keeps the types of what it changes.
LEMMA BeginCloseTypes ==
  ASSUME TypeOK, NEW a \in Actors, BeginClose(a)
  PROVE  /\ ic' \in [Actors -> {"no", "swap", "clear", "fail"}] /\ connected' \in BOOLEAN
         /\ sem' \in 0..MaxSem /\ srv' = {} /\ wire' = {}
<1>1. ic' \in [Actors -> {"no", "swap", "clear", "fail"}]
  BY DEF TypeOK, BeginClose
<1>2. connected' \in BOOLEAN /\ srv' = {} /\ wire' = {}
  BY DEF BeginClose
<1>3. SemUp
  BY DEF BeginClose
<1>4. sem \in 0..MaxSem /\ MaxSem \in Nat
  BY BoundsAssumption DEF TypeOK
<1>5. sem' \in 0..MaxSem
  BY <1>3, <1>4 DEF SemUp
<1>6. QED
  BY <1>1, <1>2, <1>5

\* doRsp keeps the types of the context.
LEMMA DoRspTypes ==
  ASSUME TypeOK, NEW r \in Requests, NEW res \in Results, DoRsp(r, res)
  PROVE  /\ open' \in [Requests -> BOOLEAN] /\ result' \in [Requests -> Results]
         /\ timer' \in [Requests -> {"unset", "armed", "fired", "cancelled"}] /\ woken' \in [Requests -> Nat]
<1>1. /\ open \in [Requests -> BOOLEAN] /\ result \in [Requests -> Results]
      /\ timer \in [Requests -> {"unset", "armed", "fired", "cancelled"}] /\ woken \in [Requests -> Nat]
  BY DEF TypeOK
<1>2. open' \in [Requests -> BOOLEAN]
  BY <1>1 DEF DoRsp
<1>3. \E x \in Results : result' = [result EXCEPT ![r] = x]
  BY DEF DoRsp, Results
<1>4. timer' = timer \/ \E x \in {"unset", "armed", "fired", "cancelled"} : timer' = [timer EXCEPT ![r] = x]
  BY <1>1 DEF DoRsp
<1>5. woken' = woken \/ woken' = [woken EXCEPT ![r] = @ + 1]
  BY DEF DoRsp
<1>6. QED
  BY <1>1, <1>2, <1>3, <1>4, <1>5

\* The steps of start() keep the types.
LEMMA StartTypes ==
  ASSUME IInv, NEW s \in Sessions, Start(s)
  PROVE  TypeOK'
<1> USE DEF TypeOK, IInv, GoS, At, stream, closes, session, ctx, peer
<1>1. CASE StartWaits(s)
  <2>1. sp' = [sp EXCEPT ![s] = "wait2"] \/ sp' = [sp EXCEPT ![s] = "connect"]
    BY <1>1 DEF StartWaits
  <2>2. waitSem' \in Nat
    <3>1. waitSem \in Nat /\ waitSem > 0 /\ waitSem' = waitSem - 1
      BY <1>1 DEF StartWaits
    <3> HIDE DEF TypeOK, IInv
    <3>2. QED
      BY <3>1
  <2>3. QED
    BY <1>1, <2>1, <2>2 DEF StartWaits
<1>2. CASE StartChecks(s)
  BY <1>2 DEF StartChecks
<1>3. CASE Reconnect(s)
  BY <1>3, BoundsAssumption DEF Reconnect
<1>4. CASE StartFails(s)
  <2>1. BeginClose(<<s, "start">>) /\ <<s, "start">> \in Actors
    BY <1>4 DEF StartFails, Actors
  <2>2. QED
    BY <1>4, <2>1, BeginCloseTypes DEF StartFails
<1>5. CASE StartRuns(s)
  BY <1>5, NoReadWhileStart DEF StartRuns
<1>6. CASE StartGivesUp(s)
  BY <1>6 DEF StartGivesUp
<1>7. CASE StartArms(s)
  BY <1>7 DEF StartArms
<1>8. QED
  BY <1>1, <1>2, <1>3, <1>4, <1>5, <1>6, <1>7 DEF Start

\* The steps of doRead keep the types.
LEMMA ReadTypes ==
  ASSUME IInv, NEW s \in Sessions, Read(s) \/ ReceiveFails(s)
  PROVE  TypeOK'
<1> USE DEF TypeOK, IInv, GoR, Reads, stream, closes, session, ctx, peer
<1>1. <<s, "read">> \in Actors
  BY DEF Actors
<1>2. CASE Receive(s)
  <2>1. PICK r \in wire : /\ wire' = wire \ {r} /\ ctxs' = ctxs \ {r}
                          /\ IF r \in ctxs THEN rp' = [rp EXCEPT ![s] = "result"] /\ hand' = [hand EXCEPT ![s] = r]
                             ELSE UNCHANGED <<rp, hand>>
    BY <1>2 DEF Receive
  <2>2. r \in Requests /\ r # None
    BY NoneAssumption
  <2>3. wire' \subseteq Requests /\ ctxs' \subseteq Requests
    BY <2>1
  <2>4. CASE r \in ctxs
    <3>1. rp' = [rp EXCEPT ![s] = "result"] /\ hand' = [hand EXCEPT ![s] = r]
      BY <2>1, <2>4
    <3>2. \A x \in Sessions : hand'[x] = None <=> rp'[x] \notin {"result", "response", "rsp"}
      BY <2>2, <3>1
    <3>3. QED
      BY <1>2, <2>2, <2>3, <3>1, <3>2 DEF Receive
  <2>5. CASE r \notin ctxs
    BY <1>2, <2>1, <2>3, <2>5 DEF Receive
  <2>6. QED
    BY <2>4, <2>5
<1>3. CASE FillResult(s)
  BY <1>3 DEF FillResult, Results
<1>4. CASE FillResponse(s)
  BY <1>4 DEF FillResponse
<1>5. CASE Respond(s)
  <2>1. hand[s] \in Requests
    BY <1>5 DEF Respond
  <2>2. /\ open' \in [Requests -> BOOLEAN] /\ result' \in [Requests -> Results]
        /\ timer' \in [Requests -> {"unset", "armed", "fired", "cancelled"}] /\ woken' \in [Requests -> Nat]
    <3>1. DoRsp(hand[s], result[hand[s]]) /\ result[hand[s]] \in Results
      BY <1>5, <2>1 DEF Respond
    <3> HIDE DEF TypeOK
    <3>2. QED
      BY <2>1, <3>1, DoRspTypes
  <2>3. QED
    BY <1>5, <2>2 DEF Respond
<1>6. CASE ReceiveFails(s)
  BY <1>1, <1>6, BeginCloseTypes DEF ReceiveFails
<1>7. CASE ReadEnds(s)
  BY <1>1, <1>7, BeginCloseTypes DEF ReadEnds
<1>8. CASE ReadReleases(s)
  BY <1>8 DEF ReadReleases
<1>9. CASE ReadRestarts(s)
  BY <1>9 DEF ReadRestarts
<1>10. CASE ReadArms(s)
  <2>1. soon' \in Nat
    <3>1. soon \in Nat /\ soon' = soon + 1
      BY <1>10 DEF ReadArms
    <3> HIDE DEF TypeOK, IInv
    <3>2. QED
      BY <3>1
  <2>2. QED
    BY <1>10, <2>1 DEF ReadArms
<1>11. QED
  BY <1>2, <1>3, <1>4, <1>5, <1>6, <1>7, <1>8, <1>9, <1>10 DEF Read

\* The steps of doWrite keep the types.
LEMMA WriteTypes ==
  ASSUME IInv, NEW s \in Sessions, Write(s) \/ SendFails(s)
  PROVE  TypeOK'
<1> USE DEF TypeOK, IInv, GoW, Writes, stream, closes, session, ctx, peer
<1>1. <<s, "write">> \in Actors
  BY DEF Actors
<1>2. CASE WriteLoop(s)
  BY <1>2 DEF WriteLoop
<1>3. CASE WriteTakes(s)
  <2>1. sem' \in 0..MaxSem
    <3>1. sem \in 0..MaxSem /\ sem > 0 /\ sem' = sem - 1 /\ MaxSem \in Nat
      BY <1>3, BoundsAssumption DEF WriteTakes
    <3> HIDE DEF TypeOK, IInv
    <3>2. QED
      BY <3>1
  <2>2. QED
    BY <1>3, <2>1 DEF WriteTakes
<1>4. CASE Send(s)
  BY <1>4 DEF Send
<1>5. CASE SendFails(s)
  BY <1>1, <1>5, BeginCloseTypes DEF SendFails
<1>6. CASE SendDone(s)
  BY <1>6 DEF SendDone
<1>7. CASE WriteClears(s)
  BY <1>7 DEF WriteClears
<1>8. CASE WriteReleases(s)
  BY <1>8 DEF WriteReleases
<1>9. QED
  BY <1>2, <1>3, <1>4, <1>5, <1>6, <1>7, <1>8 DEF Write

\* The steps of innerClose keep the types.
LEMMA CloseTypes ==
  ASSUME IInv, NEW a \in Actors, Close(a)
  PROVE  TypeOK'
<1> USE DEF TypeOK, IInv, stream, closes, session, ctx, peer
<1>1. CASE CloseSwap(a)
  BY <1>1 DEF CloseSwap
<1>2. CASE CloseClear(a)
  BY <1>2 DEF CloseClear
<1>3. CASE CloseFail(a)
  <2>1. PICK r \in closing[a] : closing' = [closing EXCEPT ![a] = @ \ {r}] /\ DoRsp(r, "IO_ERROR")
    BY <1>3 DEF CloseFail
  <2>2. r \in Requests /\ closing' \in [Actors -> SUBSET Requests]
    BY <2>1
  <2>3. /\ open' \in [Requests -> BOOLEAN] /\ result' \in [Requests -> Results]
        /\ timer' \in [Requests -> {"unset", "armed", "fired", "cancelled"}] /\ woken' \in [Requests -> Nat]
    <3>1. "IO_ERROR" \in Results
      BY DEF Results
    <3> HIDE DEF TypeOK
    <3>2. QED
      BY <2>1, <2>2, <3>1, DoRspTypes
  <2>4. QED
    BY <1>3, <2>2, <2>3 DEF CloseFail
<1>4. CASE CloseDone(a)
  BY <1>4 DEF CloseDone
<1>5. QED
  BY <1>1, <1>2, <1>3, <1>4 DEF Close

\* The steps of request() and its timeout keep the types.
LEMMA CallTypes ==
  ASSUME IInv, NEW r \in Requests, Call(r) \/ Late(r)
  PROVE  TypeOK'
<1> USE DEF TypeOK, IInv, GoQ, Calls, stream, closes, session, ctx, peer
<1>1. CASE Request(r)
  BY <1>1 DEF Request
<1>2. CASE RequestUnconnected(r)
  BY <1>2 DEF RequestUnconnected, Results
<1>3. CASE AddCtx(r)
  BY <1>3 DEF AddCtx
<1>4. CASE ArmTimer(r)
  BY <1>4 DEF ArmTimer
<1>5. CASE Enqueue(r)
  BY <1>5 DEF Enqueue
<1>6. CASE EnqueueNotifies(r)
  BY <1>6, BoundsAssumption DEF EnqueueNotifies, SemUp
<1>7. CASE RequestReturns(r)
  BY <1>7 DEF RequestReturns
<1>8. CASE TimeOut(r)
  BY <1>8 DEF TimeOut
<1>9. CASE TimeOutMarks(r)
  BY <1>9 DEF TimeOutMarks
<1>10. CASE TimeOutAnswers(r)
  <2>1. /\ open' \in [Requests -> BOOLEAN] /\ result' \in [Requests -> Results]
        /\ timer' \in [Requests -> {"unset", "armed", "fired", "cancelled"}] /\ woken' \in [Requests -> Nat]
    <3>1. DoRsp(r, result[r]) /\ result[r] \in Results
      BY <1>10 DEF TimeOutAnswers
    <3> HIDE DEF TypeOK
    <3>2. QED
      BY <3>1, DoRspTypes
  <2>2. QED
    BY <1>10, <2>1 DEF TimeOutAnswers
<1>11. QED
  BY <1>1, <1>2, <1>3, <1>4, <1>5, <1>6, <1>7, <1>8, <1>9, <1>10 DEF Call, Late

\* Timers, the server and close() keep the types.
LEMMA OtherTypes ==
  ASSUME IInv, TimerStarts \/ Serve \/ CloseFlag \/ CloseSocket \/ UNCHANGED vars
  PROVE  TypeOK'
<1> USE DEF TypeOK, IInv, stream, closes, session, ctx, peer
<1>1. CASE TimerStarts
  <2>1. soon' \in Nat /\ retry' \in BOOLEAN
    <3>1. soon \in Nat /\ retry \in BOOLEAN
      OBVIOUS
    <3> HIDE DEF TypeOK, IInv
    <3>2. UNCHANGED soon \/ (soon > 0 /\ soon' = soon - 1)
      BY <1>1 DEF TimerStarts
    <3>3. retry' = FALSE \/ UNCHANGED retry
      BY <1>1 DEF TimerStarts
    <3>4. soon' \in Nat
      BY <3>1, <3>2
    <3>5. retry' \in BOOLEAN
      BY <3>1, <3>3
    <3>6. QED
      BY <3>4, <3>5
  <2>2. sp' \in [Sessions -> {"off", "wait1", "wait2", "connect", "reconnect", "callback", "fail", "arm"}]
    BY <1>1 DEF TimerStarts, GoS
  <2>3. QED
    BY <1>1, <2>1, <2>2 DEF TimerStarts
<1>2. CASE Serve
  <2>1. srv' \subseteq Requests /\ wire' \subseteq Requests
    BY <1>2 DEF Serve
  <2>2. QED
    BY <1>2, <2>1 DEF Serve
<1>3. CASE CloseFlag
  BY <1>3 DEF CloseFlag
<1>4. CASE CloseSocket
  BY <1>4 DEF CloseSocket
<1>5. CASE UNCHANGED vars
  BY <1>5 DEF vars
<1>6. QED
  BY <1>1, <1>2, <1>3, <1>4, <1>5

\* Every step keeps the types.
LEMMA TypesKept == IInv /\ [Next]_vars => TypeOK'
  BY StartTypes, ReadTypes, WriteTypes, CloseTypes, CallTypes, OtherTypes DEF Next
---------------------------------------------------------------------------
(* Permits, readers, writers, restarts *)

S0 == Beyond(sp, {"off"})
S1 == Beyond(sp, {"off", "wait1", "arm"})
S2 == Beyond(sp, {"off", "wait1", "wait2", "arm"})
R0 == Beyond(rp, {"off"})
R1 == Beyond(rp, {"off", "again", "arm"})
W0 == Beyond(wp, {"off"})
T0 == IF retry THEN 1 ELSE 0

\* The three counts hold of what the invariants are about.
Counts == /\ soon + T0 + S0 + R0 <= 1
          /\ R1 <= 1 /\ W0 <= 1
          /\ waitSem + S1 + S2 + R1 + W0 = 2

\* All counts are numbers.
LEMMA CountTypes ==
  ASSUME TypeOK
  PROVE  {S0, S1, S2, R0, R1, W0, T0, soon, waitSem} \subseteq Nat
  BY BeyondType DEF TypeOK, S0, S1, S2, R0, R1, W0, T0

\* A start() that goes from one place to another.
LEMMA SpMoves ==
  ASSUME NEW s \in Sessions, \A x \in Sessions \ {s} : sp'[x] = sp[x]
  PROVE  /\ sp[s] \in {"off"} /\ sp'[s] \in {"off"} => S0' = S0
         /\ sp[s] \notin {"off"} /\ sp'[s] \notin {"off"} => S0' = S0
         /\ sp[s] \in {"off"} /\ sp'[s] \notin {"off"} => S0' = S0 + 1
         /\ sp[s] \notin {"off"} /\ sp'[s] \in {"off"} => S0' = S0 - 1
         /\ sp[s] \in {"off", "wait1", "arm"} /\ sp'[s] \in {"off", "wait1", "arm"} => S1' = S1
         /\ sp[s] \notin {"off", "wait1", "arm"} /\ sp'[s] \notin {"off", "wait1", "arm"} => S1' = S1
         /\ sp[s] \in {"off", "wait1", "arm"} /\ sp'[s] \notin {"off", "wait1", "arm"} => S1' = S1 + 1
         /\ sp[s] \notin {"off", "wait1", "arm"} /\ sp'[s] \in {"off", "wait1", "arm"} => S1' = S1 - 1
         /\ sp[s] \in {"off", "wait1", "wait2", "arm"} /\ sp'[s] \in {"off", "wait1", "wait2", "arm"} => S2' = S2
         /\ sp[s] \notin {"off", "wait1", "wait2", "arm"} /\ sp'[s] \notin {"off", "wait1", "wait2", "arm"} => S2' = S2
         /\ sp[s] \in {"off", "wait1", "wait2", "arm"} /\ sp'[s] \notin {"off", "wait1", "wait2", "arm"} => S2' = S2 + 1
         /\ sp[s] \notin {"off", "wait1", "wait2", "arm"} /\ sp'[s] \in {"off", "wait1", "wait2", "arm"} => S2' = S2 - 1
  BY BeyondMoves DEF S0, S1, S2

\* A doRead that goes from one place to another.
LEMMA RpMoves ==
  ASSUME NEW s \in Sessions, \A x \in Sessions \ {s} : rp'[x] = rp[x]
  PROVE  /\ rp[s] \in {"off"} /\ rp'[s] \in {"off"} => R0' = R0
         /\ rp[s] \notin {"off"} /\ rp'[s] \notin {"off"} => R0' = R0
         /\ rp[s] \in {"off"} /\ rp'[s] \notin {"off"} => R0' = R0 + 1
         /\ rp[s] \notin {"off"} /\ rp'[s] \in {"off"} => R0' = R0 - 1
         /\ rp[s] \in {"off", "again", "arm"} /\ rp'[s] \in {"off", "again", "arm"} => R1' = R1
         /\ rp[s] \notin {"off", "again", "arm"} /\ rp'[s] \notin {"off", "again", "arm"} => R1' = R1
         /\ rp[s] \in {"off", "again", "arm"} /\ rp'[s] \notin {"off", "again", "arm"} => R1' = R1 + 1
         /\ rp[s] \notin {"off", "again", "arm"} /\ rp'[s] \in {"off", "again", "arm"} => R1' = R1 - 1
  BY BeyondMoves DEF R0, R1

\* A doWrite that goes from one place to another.
LEMMA WpMoves ==
  ASSUME NEW s \in Sessions, \A x \in Sessions \ {s} : wp'[x] = wp[x]
  PROVE  /\ wp[s] \in {"off"} /\ wp'[s] \in {"off"} => W0' = W0
         /\ wp[s] \notin {"off"} /\ wp'[s] \notin {"off"} => W0' = W0
         /\ wp[s] \in {"off"} /\ wp'[s] \notin {"off"} => W0' = W0 + 1
         /\ wp[s] \notin {"off"} /\ wp'[s] \in {"off"} => W0' = W0 - 1
  BY BeyondMoves DEF W0

\* What a step leaves alone is counted as before.
LEMMA CountSame ==
  /\ UNCHANGED sp => UNCHANGED <<S0, S1, S2>>
  /\ UNCHANGED rp => UNCHANGED <<R0, R1>>
  /\ UNCHANGED wp => UNCHANGED W0
  /\ UNCHANGED retry => UNCHANGED T0
  BY DEF S0, S1, S2, R0, R1, W0, T0

\* The counts after a step of start().
LEMMA StartCounts ==
  ASSUME TypeOK, Counts, NEW s \in Sessions, Start(s)
  PROVE  Counts'
<1>1. /\ S0 \in Nat /\ S1 \in Nat /\ S2 \in Nat /\ R0 \in Nat /\ R1 \in Nat /\ W0 \in Nat
      /\ T0 \in Nat /\ soon \in Nat /\ waitSem \in Nat
  BY CountTypes
<1>2. CASE StartWaits(s)
  <2>1. /\ waitSem > 0 /\ waitSem' = waitSem - 1 /\ UNCHANGED <<rp, wp, retry, soon>>
        /\ \/ sp[s] = "wait1" /\ sp' = [sp EXCEPT ![s] = "wait2"]
           \/ sp[s] = "wait2" /\ sp' = [sp EXCEPT ![s] = "connect"]
    BY <1>2 DEF StartWaits, At, GoS
  <2>2. T0' = T0 /\ R0' = R0 /\ R1' = R1 /\ W0' = W0
    BY <2>1, CountSame
  <2>3. CASE sp[s] = "wait1" /\ sp' = [sp EXCEPT ![s] = "wait2"]
    <3>1. S0' = S0 /\ S1' = S1 + 1 /\ S2' = S2
      <4>1. sp'[s] = "wait2" /\ \A x \in Sessions \ {s} : sp'[x] = sp[x]
        BY <2>3 DEF TypeOK
      <4>2. QED
        BY <2>3, <4>1, SpMoves
    <3>2. QED
      BY <1>1, <2>1, <2>2, <3>1 DEF Counts
  <2>4. CASE sp[s] = "wait2" /\ sp' = [sp EXCEPT ![s] = "connect"]
    <3>1. S0' = S0 /\ S1' = S1 /\ S2' = S2 + 1
      <4>1. sp'[s] = "connect" /\ \A x \in Sessions \ {s} : sp'[x] = sp[x]
        BY <2>4 DEF TypeOK
      <4>2. QED
        BY <2>4, <4>1, SpMoves
    <3>2. QED
      BY <1>1, <2>1, <2>2, <3>1 DEF Counts
  <2>5. QED
    BY <2>1, <2>3, <2>4
<1>3. CASE StartChecks(s)
  <2>1. /\ UNCHANGED <<rp, wp, waitSem, soon>> /\ T0' = 0 /\ sp[s] = "connect"
        /\ sp' = [sp EXCEPT ![s] = "callback"] \/ sp' = [sp EXCEPT ![s] = "reconnect"]
    BY <1>3 DEF StartChecks, At, GoS, T0
  <2>2. S0' = S0 /\ S1' = S1 /\ S2' = S2
    <3>1. sp'[s] \in {"callback", "reconnect"} /\ \A x \in Sessions \ {s} : sp'[x] = sp[x]
      BY <2>1 DEF TypeOK
    <3>2. QED
      BY <1>1, <2>1, <3>1, SpMoves
  <2>3. R0' = R0 /\ R1' = R1 /\ W0' = W0
    BY <2>1, CountSame
  <2>4. QED
    BY <1>1, <2>1, <2>2, <2>3 DEF Counts
<1>4. CASE Reconnect(s)
  <2>1. /\ UNCHANGED <<rp, wp, waitSem, soon, retry>>
        /\ sp[s] = "reconnect" /\ sp' = [sp EXCEPT ![s] = "callback"]
    BY <1>4 DEF Reconnect, At, GoS
  <2>2. S0' = S0 /\ S1' = S1 /\ S2' = S2
    <3>1. sp'[s] = "callback" /\ \A x \in Sessions \ {s} : sp'[x] = sp[x]
      BY <2>1 DEF TypeOK
    <3>2. QED
      BY <1>1, <2>1, <3>1, SpMoves
  <2>3. T0' = T0 /\ R0' = R0 /\ R1' = R1 /\ W0' = W0
    BY <2>1, CountSame
  <2>4. QED
    BY <1>1, <2>1, <2>2, <2>3 DEF Counts
<1>5. CASE StartFails(s)
  <2>1. /\ UNCHANGED <<rp, wp, waitSem, soon, retry>>
        /\ sp[s] \in {"reconnect", "callback"} /\ sp' = [sp EXCEPT ![s] = "fail"]
    BY <1>5 DEF StartFails, At, GoS
  <2>2. S0' = S0 /\ S1' = S1 /\ S2' = S2
    <3>1. sp'[s] = "fail" /\ \A x \in Sessions \ {s} : sp'[x] = sp[x]
      BY <2>1 DEF TypeOK
    <3>2. QED
      BY <1>1, <2>1, <3>1, SpMoves
  <2>3. T0' = T0 /\ R0' = R0 /\ R1' = R1 /\ W0' = W0
    BY <2>1, CountSame
  <2>4. QED
    BY <1>1, <2>1, <2>2, <2>3 DEF Counts
<1>6. CASE StartGivesUp(s)
  <2>1. /\ UNCHANGED <<rp, wp, soon, retry>> /\ waitSem' = waitSem + 2 /\ sp[s] = "fail"
        /\ sp' = [sp EXCEPT ![s] = "arm"] \/ sp' = [sp EXCEPT ![s] = "off"]
    BY <1>6 DEF StartGivesUp, At, GoS
  <2>2. S1' = S1 - 1 /\ S2' = S2 - 1 /\ (S0' = S0 \/ S0' = S0 - 1)
    <3>1. sp'[s] \in {"arm", "off"} /\ \A x \in Sessions \ {s} : sp'[x] = sp[x]
      BY <2>1 DEF TypeOK
    <3>2. QED
      BY <1>1, <2>1, <3>1, SpMoves
  <2>3. T0' = T0 /\ R0' = R0 /\ R1' = R1 /\ W0' = W0
    BY <2>1, CountSame
  <2>4. QED
    BY <1>1, <2>1, <2>2, <2>3 DEF Counts
<1>7. CASE StartArms(s)
  <2>1. /\ UNCHANGED <<rp, wp, soon, waitSem>> /\ T0' = 1
        /\ sp[s] = "arm" /\ sp' = [sp EXCEPT ![s] = "off"]
    BY <1>7 DEF StartArms, At, GoS, T0
  <2>2. S0' = S0 - 1 /\ S1' = S1 /\ S2' = S2
    <3>1. sp'[s] = "off" /\ \A x \in Sessions \ {s} : sp'[x] = sp[x]
      BY <2>1 DEF TypeOK
    <3>2. QED
      BY <1>1, <2>1, <3>1, SpMoves
  <2>3. R0' = R0 /\ R1' = R1 /\ W0' = W0
    BY <2>1, CountSame
  <2>4. soon' + T0' + S0' + R0' <= 1
    <3>1. soon' = soon /\ S0' = S0 - 1 /\ R0' = R0 /\ T0' = 1
      BY <2>1, <2>2, <2>3
    <3>2. soon + S0 + R0 <= 1
      BY <1>1 DEF Counts
    <3>3. QED
      BY <1>1, <3>1, <3>2
  <2>5. R1' <= 1 /\ W0' <= 1 /\ waitSem' + S1' + S2' + R1' + W0' = 2
    BY <1>1, <2>1, <2>2, <2>3 DEF Counts
  <2>6. QED
    BY <2>4, <2>5 DEF Counts
<1>8. CASE StartRuns(s)
  <2>1. /\ sp[s] = "callback" /\ sp' = [sp EXCEPT ![s] = "off"] /\ UNCHANGED <<waitSem, soon, retry>>
        /\ rp' = [rp EXCEPT ![s] = "loop"] /\ wp' = [wp EXCEPT ![s] = "loop"]
    BY <1>8 DEF StartRuns, At, GoS, stream
  <2>2. S0' = S0 - 1 /\ S1' = S1 - 1 /\ S2' = S2 - 1
    <3>1. sp'[s] = "off" /\ \A x \in Sessions \ {s} : sp'[x] = sp[x]
      BY <2>1 DEF TypeOK
    <3>2. QED
      BY <1>1, <2>1, <3>1, SpMoves
  <2>3. S0 >= 1 /\ S1 >= 1 /\ S2 >= 1
    BY <2>1, BeyondHas DEF S0, S1, S2
  <2>4. R0 = 0 /\ R1 = 0 /\ W0 = 0
    BY <1>1, <2>3 DEF Counts
  <2>5. rp[s] = "off" /\ wp[s] = "off"
    <3>1. rp[s] \notin {"off"} => R0 >= 1
      BY BeyondHas DEF R0
    <3>2. wp[s] \notin {"off"} => W0 >= 1
      BY BeyondHas DEF W0
    <3>3. QED
      BY <2>4, <3>1, <3>2
  <2>6. R0' = R0 + 1 /\ R1' = R1 + 1 /\ W0' = W0 + 1
    <3>1. /\ rp'[s] = "loop" /\ \A x \in Sessions \ {s} : rp'[x] = rp[x]
          /\ wp'[s] = "loop" /\ \A x \in Sessions \ {s} : wp'[x] = wp[x]
      BY <2>1 DEF TypeOK
    <3>2. QED
      BY <1>1, <2>1, <2>5, <3>1, RpMoves, WpMoves
  <2>7. T0' = T0
    BY <2>1, CountSame
  <2>8. QED
    BY <1>1, <2>1, <2>2, <2>4, <2>6, <2>7 DEF Counts
<1>9. QED
  BY <1>2, <1>3, <1>4, <1>5, <1>6, <1>7, <1>8 DEF Start

\* The counts after a step of doRead.
LEMMA ReadCounts ==
  ASSUME TypeOK, Counts, NEW s \in Sessions, Read(s)
  PROVE  Counts'
<1>1. /\ S0 \in Nat /\ S1 \in Nat /\ S2 \in Nat /\ R0 \in Nat /\ R1 \in Nat /\ W0 \in Nat
      /\ T0 \in Nat /\ soon \in Nat /\ waitSem \in Nat
  BY CountTypes
<1>2. CASE Receive(s)
  <2>1. /\ UNCHANGED <<sp, wp, waitSem, soon, retry>>
        /\ rp[s] = "loop" /\ (UNCHANGED rp \/ rp' = [rp EXCEPT ![s] = "result"])
    BY <1>2 DEF Receive, Reads, GoR
  <2>2. R0' = R0 /\ R1' = R1
    <3>1. rp'[s] \in {rp[s], "result"} /\ \A x \in Sessions \ {s} : rp'[x] = rp[x]
      BY <2>1 DEF TypeOK
    <3>2. QED
      BY <1>1, <2>1, <3>1, RpMoves, CountSame
  <2>3. T0' = T0 /\ S0' = S0 /\ S1' = S1 /\ S2' = S2 /\ W0' = W0
    BY <2>1, CountSame
  <2>4. QED
    BY <1>1, <2>1, <2>2, <2>3 DEF Counts
<1>3. CASE FillResult(s)
  <2>1. /\ UNCHANGED <<sp, wp, waitSem, soon, retry>>
        /\ rp[s] = "result" /\ rp' = [rp EXCEPT ![s] = "response"]
    BY <1>3 DEF FillResult, Reads, GoR, stream
  <2>2. R0' = R0 /\ R1' = R1
    <3>1. rp'[s] = "response" /\ \A x \in Sessions \ {s} : rp'[x] = rp[x]
      BY <2>1 DEF TypeOK
    <3>2. QED
      BY <1>1, <2>1, <3>1, RpMoves
  <2>3. T0' = T0 /\ S0' = S0 /\ S1' = S1 /\ S2' = S2 /\ W0' = W0
    BY <2>1, CountSame
  <2>4. QED
    BY <1>1, <2>1, <2>2, <2>3 DEF Counts
<1>4. CASE FillResponse(s)
  <2>1. /\ UNCHANGED <<sp, wp, waitSem, soon, retry>>
        /\ rp[s] = "response" /\ rp' = [rp EXCEPT ![s] = "rsp"]
    BY <1>4 DEF FillResponse, Reads, GoR, stream
  <2>2. R0' = R0 /\ R1' = R1
    <3>1. rp'[s] = "rsp" /\ \A x \in Sessions \ {s} : rp'[x] = rp[x]
      BY <2>1 DEF TypeOK
    <3>2. QED
      BY <1>1, <2>1, <3>1, RpMoves
  <2>3. T0' = T0 /\ S0' = S0 /\ S1' = S1 /\ S2' = S2 /\ W0' = W0
    BY <2>1, CountSame
  <2>4. QED
    BY <1>1, <2>1, <2>2, <2>3 DEF Counts
<1>5. CASE Respond(s)
  <2>1. /\ UNCHANGED <<sp, wp, waitSem, soon, retry>>
        /\ rp[s] = "rsp" /\ rp' = [rp EXCEPT ![s] = "loop"]
    BY <1>5 DEF Respond, Reads, GoR, stream
  <2>2. R0' = R0 /\ R1' = R1
    <3>1. rp'[s] = "loop" /\ \A x \in Sessions \ {s} : rp'[x] = rp[x]
      BY <2>1 DEF TypeOK
    <3>2. QED
      BY <1>1, <2>1, <3>1, RpMoves
  <2>3. T0' = T0 /\ S0' = S0 /\ S1' = S1 /\ S2' = S2 /\ W0' = W0
    BY <2>1, CountSame
  <2>4. QED
    BY <1>1, <2>1, <2>2, <2>3 DEF Counts
<1>6. CASE ReadEnds(s)
  <2>1. /\ UNCHANGED <<sp, wp, waitSem, soon, retry>>
        /\ rp[s] = "loop" /\ rp' = [rp EXCEPT ![s] = "release"]
    BY <1>6 DEF ReadEnds, Reads, GoR
  <2>2. R0' = R0 /\ R1' = R1
    <3>1. rp'[s] = "release" /\ \A x \in Sessions \ {s} : rp'[x] = rp[x]
      BY <2>1 DEF TypeOK
    <3>2. QED
      BY <1>1, <2>1, <3>1, RpMoves
  <2>3. T0' = T0 /\ S0' = S0 /\ S1' = S1 /\ S2' = S2 /\ W0' = W0
    BY <2>1, CountSame
  <2>4. QED
    BY <1>1, <2>1, <2>2, <2>3 DEF Counts
<1>7. CASE ReadReleases(s)
  <2>1. /\ UNCHANGED <<sp, wp, soon, retry>> /\ waitSem' = waitSem + 1
        /\ rp[s] = "release" /\ rp' = [rp EXCEPT ![s] = "again"]
    BY <1>7 DEF ReadReleases, Reads, GoR
  <2>2. R0' = R0 /\ R1' = R1 - 1
    <3>1. rp'[s] = "again" /\ \A x \in Sessions \ {s} : rp'[x] = rp[x]
      BY <2>1 DEF TypeOK
    <3>2. QED
      BY <1>1, <2>1, <3>1, RpMoves
  <2>3. T0' = T0 /\ S0' = S0 /\ S1' = S1 /\ S2' = S2 /\ W0' = W0
    BY <2>1, CountSame
  <2>4. QED
    BY <1>1, <2>1, <2>2, <2>3 DEF Counts
<1>8. CASE ReadRestarts(s)
  <2>1. /\ UNCHANGED <<sp, wp, waitSem, soon, retry>> /\ rp[s] = "again"
        /\ rp' = [rp EXCEPT ![s] = "arm"] \/ rp' = [rp EXCEPT ![s] = "off"]
    BY <1>8 DEF ReadRestarts, Reads, GoR, stream
  <2>2. (R0' = R0 \/ R0' = R0 - 1) /\ R1' = R1
    <3>1. rp'[s] \in {"arm", "off"} /\ \A x \in Sessions \ {s} : rp'[x] = rp[x]
      BY <2>1 DEF TypeOK
    <3>2. QED
      BY <1>1, <2>1, <3>1, RpMoves
  <2>3. T0' = T0 /\ S0' = S0 /\ S1' = S1 /\ S2' = S2 /\ W0' = W0
    BY <2>1, CountSame
  <2>4. QED
    BY <1>1, <2>1, <2>2, <2>3 DEF Counts
<1>9. CASE ReadArms(s)
  <2>1. /\ UNCHANGED <<sp, wp, waitSem, retry>> /\ soon' = soon + 1
        /\ rp[s] = "arm" /\ rp' = [rp EXCEPT ![s] = "off"]
    BY <1>9 DEF ReadArms, Reads, GoR
  <2>2. R0' = R0 - 1 /\ R1' = R1
    <3>1. rp'[s] = "off" /\ \A x \in Sessions \ {s} : rp'[x] = rp[x]
      BY <2>1 DEF TypeOK
    <3>2. QED
      BY <1>1, <2>1, <3>1, RpMoves
  <2>3. T0' = T0 /\ S0' = S0 /\ S1' = S1 /\ S2' = S2 /\ W0' = W0
    BY <2>1, CountSame
  <2>4. QED
    BY <1>1, <2>1, <2>2, <2>3 DEF Counts
<1>10. QED
  BY <1>2, <1>3, <1>4, <1>5, <1>6, <1>7, <1>8, <1>9 DEF Read

\* The counts after a step of doWrite.
LEMMA WriteCounts ==
  ASSUME TypeOK, Counts, NEW s \in Sessions, Write(s)
  PROVE  Counts'
<1>1. /\ S0 \in Nat /\ S1 \in Nat /\ S2 \in Nat /\ R0 \in Nat /\ R1 \in Nat /\ W0 \in Nat
      /\ T0 \in Nat /\ soon \in Nat /\ waitSem \in Nat
  BY CountTypes
<1>2. CASE WriteLoop(s)
  <2>1. /\ UNCHANGED <<sp, rp, waitSem, soon, retry>>
        /\ wp[s] = "loop" /\ (wp' = [wp EXCEPT ![s] = "wait"] \/ wp' = [wp EXCEPT ![s] = "exit"])
    BY <1>2 DEF WriteLoop, Writes, GoW, stream
  <2>2. W0' = W0
    <3>1. wp'[s] \in {"wait", "exit"} /\ \A x \in Sessions \ {s} : wp'[x] = wp[x]
      BY <2>1 DEF TypeOK
    <3>2. QED
      BY <1>1, <2>1, <3>1, WpMoves
  <2>3. T0' = T0 /\ S0' = S0 /\ S1' = S1 /\ S2' = S2 /\ R0' = R0 /\ R1' = R1
    BY <2>1, CountSame
  <2>4. QED
    BY <1>1, <2>1, <2>2, <2>3 DEF Counts
<1>3. CASE WriteTakes(s)
  <2>1. /\ UNCHANGED <<sp, rp, waitSem, soon, retry>>
        /\ wp[s] = "wait" /\ wp' = [wp EXCEPT ![s] = "send"]
    BY <1>3 DEF WriteTakes, Writes, GoW
  <2>2. W0' = W0
    <3>1. wp'[s] = "send" /\ \A x \in Sessions \ {s} : wp'[x] = wp[x]
      BY <2>1 DEF TypeOK
    <3>2. QED
      BY <1>1, <2>1, <3>1, WpMoves
  <2>3. T0' = T0 /\ S0' = S0 /\ S1' = S1 /\ S2' = S2 /\ R0' = R0 /\ R1' = R1
    BY <2>1, CountSame
  <2>4. QED
    BY <1>1, <2>1, <2>2, <2>3 DEF Counts
<1>4. CASE Send(s)
  <2>1. /\ UNCHANGED <<sp, rp, waitSem, soon, retry>>
        /\ UNCHANGED wp
    BY <1>4 DEF Send, stream
  <2>2. T0' = T0 /\ S0' = S0 /\ S1' = S1 /\ S2' = S2 /\ R0' = R0 /\ R1' = R1 /\ W0' = W0
    BY <2>1, CountSame
  <2>3. QED
    BY <1>1, <2>1, <2>2 DEF Counts
<1>5. CASE SendDone(s)
  <2>1. /\ UNCHANGED <<sp, rp, waitSem, soon, retry>>
        /\ wp[s] = "send" /\ wp' = [wp EXCEPT ![s] = "loop"]
    BY <1>5 DEF SendDone, Writes, GoW, stream
  <2>2. W0' = W0
    <3>1. wp'[s] = "loop" /\ \A x \in Sessions \ {s} : wp'[x] = wp[x]
      BY <2>1 DEF TypeOK
    <3>2. QED
      BY <1>1, <2>1, <3>1, WpMoves
  <2>3. T0' = T0 /\ S0' = S0 /\ S1' = S1 /\ S2' = S2 /\ R0' = R0 /\ R1' = R1
    BY <2>1, CountSame
  <2>4. QED
    BY <1>1, <2>1, <2>2, <2>3 DEF Counts
<1>6. CASE WriteClears(s)
  <2>1. /\ UNCHANGED <<sp, rp, waitSem, soon, retry>>
        /\ wp[s] = "exit" /\ wp' = [wp EXCEPT ![s] = "release"]
    BY <1>6 DEF WriteClears, Writes, GoW
  <2>2. W0' = W0
    <3>1. wp'[s] = "release" /\ \A x \in Sessions \ {s} : wp'[x] = wp[x]
      BY <2>1 DEF TypeOK
    <3>2. QED
      BY <1>1, <2>1, <3>1, WpMoves
  <2>3. T0' = T0 /\ S0' = S0 /\ S1' = S1 /\ S2' = S2 /\ R0' = R0 /\ R1' = R1
    BY <2>1, CountSame
  <2>4. QED
    BY <1>1, <2>1, <2>2, <2>3 DEF Counts
<1>7. CASE WriteReleases(s)
  <2>1. /\ UNCHANGED <<sp, rp, soon, retry>> /\ waitSem' = waitSem + 1
        /\ wp[s] = "release" /\ wp' = [wp EXCEPT ![s] = "off"]
    BY <1>7 DEF WriteReleases, Writes, GoW
  <2>2. W0' = W0 - 1
    <3>1. wp'[s] = "off" /\ \A x \in Sessions \ {s} : wp'[x] = wp[x]
      BY <2>1 DEF TypeOK
    <3>2. QED
      BY <1>1, <2>1, <3>1, WpMoves
  <2>3. T0' = T0 /\ S0' = S0 /\ S1' = S1 /\ S2' = S2 /\ R0' = R0 /\ R1' = R1
    BY <2>1, CountSame
  <2>4. QED
    BY <1>1, <2>1, <2>2, <2>3 DEF Counts
<1>8. QED
  BY <1>2, <1>3, <1>4, <1>5, <1>6, <1>7 DEF Write

\* The counts after the other steps, of which only timers and close() touch what is counted.
LEMMA OtherCounts ==
  ASSUME TypeOK, Counts,
         \/ \E s \in Sessions : ReceiveFails(s) \/ SendFails(s)
         \/ \E a \in Actors : Close(a)
         \/ \E r \in Requests : Call(r) \/ Late(r)
         \/ TimerStarts \/ Serve \/ CloseFlag \/ CloseSocket \/ UNCHANGED vars
  PROVE  Counts'
<1>1. /\ S0 \in Nat /\ S1 \in Nat /\ S2 \in Nat /\ R0 \in Nat /\ R1 \in Nat /\ W0 \in Nat
      /\ T0 \in Nat /\ soon \in Nat /\ waitSem \in Nat
  BY CountTypes
<1>2. CASE UNCHANGED <<sp, rp, wp, retry, soon, waitSem>>
  BY <1>2, CountSame DEF Counts
<1>3. CASE TimerStarts
  <2>1. PICK s \in Sessions : sp[s] = "off" /\ sp' = [sp EXCEPT ![s] = "wait1"]
    BY <1>3 DEF TimerStarts, Free, GoS
  <2>2. S0' = S0 + 1 /\ S1' = S1 /\ S2' = S2
    <3>1. sp'[s] = "wait1" /\ \A x \in Sessions \ {s} : sp'[x] = sp[x]
      BY <2>1 DEF TypeOK
    <3>2. QED
      BY <1>1, <2>1, <3>1, SpMoves
  <2>3. UNCHANGED <<rp, wp, waitSem>>
    BY <1>3 DEF TimerStarts
  <2>4. R0' = R0 /\ R1' = R1 /\ W0' = W0
    BY <2>3, CountSame
  <2>5. soon' + T0' = soon + T0 - 1
    BY <1>1, <1>3 DEF TimerStarts, T0
  <2>6. QED
    BY <1>1, <2>2, <2>3, <2>4, <2>5 DEF Counts
<1>4. CASE CloseSocket
  <2>1. T0' = 0 /\ UNCHANGED <<sp, rp, wp, soon, waitSem>>
    BY <1>4 DEF CloseSocket, T0, session
  <2>2. S0' = S0 /\ S1' = S1 /\ S2' = S2 /\ R0' = R0 /\ R1' = R1 /\ W0' = W0
    BY <2>1, CountSame
  <2>3. QED
    BY <1>1, <2>1, <2>2 DEF Counts
<1>5. ASSUME NEW s \in Sessions, ReceiveFails(s) \/ SendFails(s) PROVE UNCHANGED <<sp, rp, wp, retry, soon, waitSem>>
  BY <1>5 DEF ReceiveFails, SendFails, session
<1>6. ASSUME NEW a \in Actors, Close(a) PROVE UNCHANGED <<sp, rp, wp, retry, soon, waitSem>>
  BY <1>6 DEF Close, CloseSwap, CloseClear, CloseFail, CloseDone, session, stream
<1>7. ASSUME NEW r \in Requests, Call(r) \/ Late(r) PROVE UNCHANGED <<sp, rp, wp, retry, soon, waitSem>>
  BY <1>7 DEF Call, Late, Request, RequestUnconnected, AddCtx, ArmTimer, Enqueue, EnqueueNotifies, RequestReturns,
              TimeOut, TimeOutMarks, TimeOutAnswers, session, stream
<1>8. ASSUME Serve \/ CloseFlag \/ UNCHANGED vars PROVE UNCHANGED <<sp, rp, wp, retry, soon, waitSem>>
  BY <1>8 DEF Serve, CloseFlag, vars, session, stream
<1>9. QED
  BY <1>2, <1>3, <1>4, <1>5, <1>6, <1>7, <1>8

\* Every step keeps the counts.
LEMMA CountsKept == TypeOK /\ Counts /\ [Next]_vars => Counts'
  BY StartCounts, ReadCounts, WriteCounts, OtherCounts DEF Next

\* The counts are the properties.
LEMMA CountsMean == Counts <=> OneRestart /\ OneReaderWriter /\ PermitsConserved
  BY DEF Counts, OneRestart, OneReaderWriter, PermitsConserved, S0, S1, S2, R0, R1, W0, T0

---------------------------------------------------------------------------
(* Answers *)

\* A step that answers nobody: contexts leave the map, and who gets one in hand
\* has taken it out of the map.
LEMMA NobodyAnswered ==
  ASSUME AnswerInv, UNCHANGED <<woken, open, rq>>, ctxs' \subseteq ctxs,
         \A r \in Requests : Held(r)' => Held(r) \/ (r \notin ctxs' /\ rq[r] \notin {"idle", "add"}),
         \A r \in Requests : timer'[r] = timer[r] \/ rq[r] \notin {"idle", "add", "arm"}
  PROVE  AnswerInv'
  BY DEF AnswerInv

\* doRsp, called by somebody who has the context in hand, answers once.
LEMMA OneAnswered ==
  ASSUME TypeOK, AnswerInv, NEW r \in Requests, NEW res, Held(r), DoRsp(r, res), UNCHANGED <<ctxs, rq>>,
         \A x \in Requests : Held(x)' => Held(x)
  PROVE  AnswerInv'
<1>1. r \notin ctxs /\ rq[r] \notin {"idle", "add"}
  BY DEF AnswerInv
<1>2. \A x \in Requests \ {r} : open'[x] = open[x] /\ woken'[x] = woken[x] /\ timer'[x] = timer[x]
  BY DEF DoRsp, TypeOK
<1>3. open'[r] = FALSE /\ woken'[r] \in {0, 1}
  BY DEF DoRsp, TypeOK, AnswerInv
<1>4. timer[r] = "unset" => timer'[r] = "unset"
  BY DEF DoRsp, TypeOK
<1>5. QED
  BY <1>1, <1>2, <1>3, <1>4 DEF AnswerInv

\* The answers after a step of start(), doRead or doWrite.
LEMMA SessionAnswers ==
  ASSUME IInv, NEW s \in Sessions, Start(s) \/ Read(s) \/ Write(s) \/ ReceiveFails(s) \/ SendFails(s)
  PROVE  AnswerInv'
<1> USE DEF stream, closes, session, ctx
<1>1. CASE Start(s) \/ Write(s) \/ ReceiveFails(s) \/ SendFails(s)
  <2>1. UNCHANGED <<ctx, ctxs, closing, hand>>
    BY <1>1 DEF Start, StartWaits, StartChecks, Reconnect, StartFails, StartRuns, StartGivesUp, StartArms, ReceiveFails, SendFails,
                Write, WriteLoop, WriteTakes, Send, SendDone, WriteClears, WriteReleases
  <2>2. QED
    BY <2>1, NobodyAnswered DEF IInv, Held
<1>2. CASE Receive(s)
  <2>1. PICK r \in wire : /\ ctxs' = ctxs \ {r}
                          /\ IF r \in ctxs THEN GoR(s, "result") /\ hand' = [hand EXCEPT ![s] = r]
                             ELSE UNCHANGED <<rp, hand>>
    BY <1>2 DEF Receive
  <2>2. UNCHANGED <<ctx, closing>>
    BY <1>2 DEF Receive
  <2>3. \A x \in Sessions : hand'[x] = hand[x] \/ (hand'[x] = r /\ r \in ctxs)
    BY <2>1 DEF IInv, TypeOK
  <2>4. \A x \in Requests : Held(x)' => Held(x) \/ (x = r /\ r \in ctxs)
    BY <2>2, <2>3 DEF Held
  <2>5. QED
    BY <2>1, <2>2, <2>4, NobodyAnswered DEF IInv, AnswerInv
<1>3. CASE FillResult(s) \/ FillResponse(s) \/ ReadEnds(s) \/ ReadReleases(s) \/ ReadRestarts(s) \/ ReadArms(s)
  <2>1. UNCHANGED <<woken, open, rq, timer, tp, ctxs, closing, hand>>
    BY <1>3 DEF FillResult, FillResponse, ReadEnds, ReadReleases, ReadRestarts, ReadArms
  <2>2. QED
    BY <2>1, NobodyAnswered DEF IInv, Held
<1>4. CASE Respond(s)
  <2>1. hand[s] \in Requests /\ Held(hand[s])
    BY <1>4 DEF Respond, Reads, IInv, TypeOK, Held
  <2>2. \A x \in Requests : Held(x)' => Held(x)
    <3>1. UNCHANGED <<closing, tp>> /\ hand' = [hand EXCEPT ![s] = None]
      BY <1>4 DEF Respond
    <3>2. QED
      BY <3>1, NoneAssumption DEF Held, IInv, TypeOK
  <2>3. QED
    BY <1>4, <2>1, <2>2, OneAnswered DEF Respond, IInv
<1>5. QED
  BY <1>1, <1>2, <1>3, <1>4 DEF Read

\* The answers after a step of innerClose.
LEMMA CloseAnswers ==
  ASSUME IInv, NEW a \in Actors, Close(a)
  PROVE  AnswerInv'
<1> USE DEF stream, closes, session, ctx
<1>1. CASE CloseSwap(a)
  <2>1. closing' = [closing EXCEPT ![a] = ctxs] /\ ctxs' = {} /\ UNCHANGED <<session, ctx>>
    BY <1>1 DEF CloseSwap
  <2>2. \A x \in Requests : Held(x)' => Held(x) \/ x \in ctxs
    BY <2>1 DEF Held, IInv, TypeOK
  <2>3. QED
    BY <2>1, <2>2, NobodyAnswered DEF IInv, AnswerInv
<1>2. CASE CloseClear(a) \/ CloseDone(a)
  <2>1. UNCHANGED <<ctx, ctxs, closing, hand>>
    BY <1>2 DEF CloseClear, CloseDone
  <2>2. QED
    BY <2>1, NobodyAnswered DEF IInv, Held
<1>3. CASE CloseFail(a)
  <2>1. PICK r \in closing[a] : closing' = [closing EXCEPT ![a] = @ \ {r}] /\ DoRsp(r, "IO_ERROR")
    BY <1>3 DEF CloseFail
  <2>2. r \in Requests /\ Held(r)
    BY <2>1 DEF IInv, TypeOK, Held
  <2>3. \A x \in Requests : Held(x)' => Held(x)
    BY <1>3, <2>1 DEF CloseFail, Held, IInv, TypeOK
  <2>4. QED
    BY <1>3, <2>1, <2>2, <2>3, OneAnswered DEF CloseFail, IInv
<1>4. QED
  BY <1>1, <1>2, <1>3 DEF Close

\* The answers after a step of request() or its timeout.
LEMMA CallAnswers ==
  ASSUME IInv, NEW r \in Requests, Call(r) \/ Late(r)
  PROVE  AnswerInv'
<1> USE DEF stream, closes, session, ctx, IInv, Calls, GoQ
<1>1. CASE Request(r)
  BY <1>1 DEF Request, AnswerInv, Held, TypeOK
<1>2. CASE RequestUnconnected(r)
  BY <1>2 DEF RequestUnconnected, AnswerInv, Held, TypeOK
<1>3. CASE AddCtx(r)
  BY <1>3 DEF AddCtx, AnswerInv, Held, TypeOK
<1>4. CASE ArmTimer(r)
  BY <1>4 DEF ArmTimer, AnswerInv, Held, TypeOK
<1>5. CASE Enqueue(r) \/ EnqueueNotifies(r) \/ RequestReturns(r)
  BY <1>5 DEF Enqueue, EnqueueNotifies, RequestReturns, AnswerInv, Held, TypeOK
<1>6. CASE TimeOut(r)
  BY <1>6 DEF TimeOut, AnswerInv, Held, TypeOK
<1>7. CASE TimeOutMarks(r)
  BY <1>7 DEF TimeOutMarks, AnswerInv, Held, TypeOK
<1>8. CASE TimeOutAnswers(r)
  <2>1. Held(r)
    BY <1>8 DEF TimeOutAnswers, Held
  <2>2. \A x \in Requests : Held(x)' => Held(x)
    BY <1>8 DEF TimeOutAnswers, Held, TypeOK
  <2>3. QED
    BY <1>8, <2>1, <2>2, OneAnswered DEF TimeOutAnswers
<1>9. QED
  BY <1>1, <1>2, <1>3, <1>4, <1>5, <1>6, <1>7, <1>8 DEF Call, Late

\* Every step answers a request at most once.
LEMMA AnswersKept == IInv /\ [Next]_vars => AnswerInv'
<1> SUFFICES ASSUME IInv, [Next]_vars PROVE AnswerInv'
  OBVIOUS
<1>1. CASE TimerStarts \/ Serve \/ CloseFlag \/ CloseSocket \/ UNCHANGED vars
  <2>1. UNCHANGED <<ctx, ctxs, closing, hand>>
    BY <1>1 DEF TimerStarts, Serve, CloseFlag, CloseSocket, vars, stream, closes, session, ctx
  <2>2. QED
    BY <2>1, NobodyAnswered DEF IInv, Held, ctx
<1>2. QED
  BY <1>1, SessionAnswers, CloseAnswers, CallAnswers DEF Next
---------------------------------------------------------------------------
(* The theorems for any number of threads *)

\* The invariant holds at the start: one start() waits for the permits.
LEMMA InitIInv == Init => IInv
<1> SUFFICES ASSUME Init PROVE IInv
  OBVIOUS
<1>1. PICK s \in Sessions : sp = [x \in Sessions |-> IF x = s THEN "wait1" ELSE "off"]
  BY DEF Init
<1>2. TypeOK
  <2>1. sp \in [Sessions -> {"off", "wait1", "wait2", "connect", "reconnect", "callback", "fail", "arm"}]
    BY <1>1
  <2>2. connects \in 0..MaxConnect /\ sem \in 0..MaxSem /\ soon \in Nat /\ waitSem \in Nat
    BY BoundsAssumption DEF Init
  <2>3. up \in {"never", "ready", "switch", "closed"}
    BY DEF Init
  <2>4. /\ ctxs \subseteq Requests /\ srv \subseteq Requests /\ wire \subseteq Requests
        /\ queue \in Seq(Requests) /\ batch \in [Sessions -> Seq(Requests)]
        /\ closing \in [Actors -> SUBSET Requests]
    BY DEF Init
  <2>5. /\ woken \in [Requests -> Nat] /\ result \in [Requests -> Results]
        /\ hand \in [Sessions -> Requests \cup {None}]
    BY DEF Init, Results
  <2>6. QED
    BY <2>1, <2>2, <2>3, <2>4, <2>5 DEF Init, TypeOK
<1>3. AnswerInv
  BY NoneAssumption DEF Init, AnswerInv, Held
<1>4. S0 = 1
  <2>1. {x \in Sessions : sp[x] \notin {"off"}} = {s}
    BY <1>1
  <2>2. QED
    BY <2>1, FS_Singleton DEF S0, Beyond
<1>5. S1 = 0 /\ S2 = 0 /\ R0 = 0 /\ R1 = 0 /\ W0 = 0
  BY <1>1, BeyondType DEF Init, S1, S2, R0, R1, W0
<1>6. Counts
  BY <1>4, <1>5 DEF Init, Counts, T0
<1>7. QED
  BY <1>2, <1>3, <1>6, CountsMean DEF IInv

\* It is inductive.
LEMMA InductiveInvariant == Spec => []IInv
<1>1. IInv /\ [Next]_vars => IInv'
  <2> SUFFICES ASSUME IInv, [Next]_vars PROVE IInv'
    OBVIOUS
  <2>1. Counts'
    BY CountsMean, CountsKept DEF IInv
  <2>2. OneRestart' /\ OneReaderWriter' /\ PermitsConserved'
    BY <2>1 DEF Counts, OneRestart, OneReaderWriter, PermitsConserved, S0, S1, S2, R0, R1, W0, T0
  <2>3. QED
    BY <2>2, TypesKept, AnswersKept DEF IInv
<1>2. QED
  BY InitIInv, <1>1, PTL DEF Spec

\* The variables keep their types; doRead holds a context exactly between taking
\* it out of the map and answering it.
THEOREM Types == Spec => []TypeOK
<1>1. IInv => TypeOK
  BY DEF IInv
<1>2. QED
  BY InductiveInvariant, <1>1, PTL

\* A request's fiber is scheduled once at most, by its response, its timeout or
\* the loss of the connection (Ctx::doRsp), for any number of requests and sessions.
THEOREM Answers == Spec => []AnsweredOnce
<1>1. IInv => AnsweredOnce
  BY DEF IInv, AnswerInv, AnsweredOnce
<1>2. QED
  BY InductiveInvariant, <1>1, PTL

\* The permits of m_waitSem are held by doRead, doWrite and start(), and none is
\* lost, however often the connection is.
THEOREM Permits == Spec => []PermitsConserved
<1>1. IInv => PermitsConserved
  BY DEF IInv
<1>2. QED
  BY InductiveInvariant, <1>1, PTL

\* Coroutines of two connections never run at the same time (start(), startRead(),
\* startWrite()), since the permits are conserved.
THEOREM ReadersWriters == Spec => []OneReaderWriter
<1>1. IInv => OneReaderWriter
  BY DEF IInv
<1>2. QED
  BY InductiveInvariant, <1>1, PTL

\* At most one timer, start() or doRead leads to a further start().
THEOREM Restarts == Spec => []OneRestart
<1>1. IInv => OneRestart
  BY DEF IInv
<1>2. QED
  BY InductiveInvariant, <1>1, PTL

---------------------------------------------------------------------------
(* The wake-up of doWrite *)

\* A permit of m_sem that was there is there, one more is made in any case.
LEMMA SemUpAnnounces ==
  ASSUME TypeOK, SemUp
  PROVE  sem' > 0
<1>1. sem \in Nat /\ MaxSem \in Nat \ {0}
  BY BoundsAssumption DEF TypeOK
<1>2. QED
  BY <1>1 DEF SemUp

\* innerClose wakes doWrite in its first step.
LEMMA BeginCloseAnnounces ==
  ASSUME TypeOK, NEW a \in Actors, BeginClose(a)
  PROVE  QueuedIsAnnounced'
  BY SemUpAnnounces DEF BeginClose, QueuedIsAnnounced

\* A step that leaves queue, permits and callers alone.
LEMMA SameAnnounced ==
  ASSUME QueuedIsAnnounced, UNCHANGED <<queue, sem, rq>>
  PROVE  QueuedIsAnnounced'
  BY DEF QueuedIsAnnounced

\* The steps of request(): who finds the queue empty goes on to wake doWrite, and
\* leaves that place with the permit made.
LEMMA CallAnnounced ==
  ASSUME TypeOK, QueuedIsAnnounced, NEW r \in Requests, Call(r) \/ Late(r)
  PROVE  QueuedIsAnnounced'
<1> USE DEF Calls, GoQ, stream
<1>1. CASE Enqueue(r)
  <2>1. CASE queue = <<>>
    <3>1. rq' = [rq EXCEPT ![r] = "notify"]
      BY <1>1, <2>1 DEF Enqueue
    <3>2. rq'[r] = "notify"
      BY <3>1 DEF TypeOK
    <3>3. QED
      BY <3>2 DEF QueuedIsAnnounced
  <2>2. CASE queue # <<>>
    <3>1. sem > 0 \/ \E x \in Requests : rq[x] = "notify"
      BY <2>2 DEF QueuedIsAnnounced
    <3>2. sem' = sem /\ \A x \in Requests \ {r} : rq'[x] = rq[x]
      BY <1>1 DEF Enqueue, TypeOK
    <3>3. rq[r] # "notify"
      BY <1>1 DEF Enqueue
    <3>4. QED
      BY <3>1, <3>2, <3>3 DEF QueuedIsAnnounced
  <2>3. QED
    BY <2>1, <2>2
<1>2. CASE EnqueueNotifies(r)
  BY <1>2, SemUpAnnounces DEF EnqueueNotifies, QueuedIsAnnounced
<1>3. CASE \/ Request(r) \/ RequestUnconnected(r) \/ AddCtx(r) \/ ArmTimer(r) \/ RequestReturns(r)
  <2>1. UNCHANGED <<queue, sem>> /\ rq[r] # "notify" /\ \A x \in Requests \ {r} : rq'[x] = rq[x]
    BY <1>3 DEF Request, RequestUnconnected, AddCtx, ArmTimer, RequestReturns, TypeOK
  <2>2. QED
    BY <2>1 DEF QueuedIsAnnounced
<1>4. CASE Late(r)
  <2>1. UNCHANGED <<queue, sem, rq>>
    BY <1>4 DEF Late, TimeOut, TimeOutMarks, TimeOutAnswers
  <2>2. QED
    BY <2>1, SameAnnounced
<1>5. QED
  BY <1>1, <1>2, <1>3, <1>4 DEF Call

\* The steps of doWrite: it takes the whole queue for its permit.
LEMMA WriteAnnounced ==
  ASSUME TypeOK, QueuedIsAnnounced, NEW s \in Sessions, Write(s) \/ SendFails(s)
  PROVE  QueuedIsAnnounced'
<1>1. CASE WriteTakes(s) \/ WriteClears(s)
  BY <1>1 DEF WriteTakes, WriteClears, QueuedIsAnnounced
<1>2. CASE SendFails(s)
  BY <1>2, BeginCloseAnnounces DEF SendFails, Actors
<1>3. CASE WriteLoop(s) \/ Send(s) \/ SendDone(s) \/ WriteReleases(s)
  <2>1. UNCHANGED <<queue, sem, rq>>
    BY <1>3 DEF WriteLoop, Send, SendDone, WriteReleases, stream, ctx
  <2>2. QED
    BY <2>1, SameAnnounced
<1>4. QED
  BY <1>1, <1>2, <1>3 DEF Write

\* The steps of start() and doRead: they touch the permits only to wake doWrite.
LEMMA SessionAnnounced ==
  ASSUME TypeOK, QueuedIsAnnounced, NEW s \in Sessions, Start(s) \/ Read(s) \/ ReceiveFails(s)
  PROVE  QueuedIsAnnounced'
<1>1. CASE StartFails(s)
  BY <1>1, BeginCloseAnnounces DEF StartFails, Actors
<1>2. CASE ReadEnds(s)
  BY <1>2, BeginCloseAnnounces DEF ReadEnds, Actors
<1>3. CASE ReceiveFails(s)
  BY <1>3, BeginCloseAnnounces DEF ReceiveFails, Actors
<1>4. CASE \/ StartWaits(s) \/ StartChecks(s) \/ Reconnect(s) \/ StartRuns(s) \/ StartGivesUp(s) \/ StartArms(s)
  <2>1. UNCHANGED <<queue, sem, rq>>
    BY <1>4 DEF StartWaits, StartChecks, Reconnect, StartRuns, StartGivesUp, StartArms, stream, ctx
  <2>2. QED
    BY <2>1, SameAnnounced
<1>5. CASE \/ Receive(s) \/ FillResult(s) \/ FillResponse(s) \/ Respond(s)
           \/ ReadReleases(s) \/ ReadRestarts(s) \/ ReadArms(s)
  <2>1. UNCHANGED <<queue, sem, rq>>
    BY <1>5 DEF Receive, FillResult, FillResponse, Respond, ReadReleases, ReadRestarts, ReadArms, stream, ctx
  <2>2. QED
    BY <2>1, SameAnnounced
<1>6. QED
  BY <1>1, <1>2, <1>3, <1>4, <1>5 DEF Start, Read

\* No wake-up is lost between enqueue and doWrite, for any number of callers and
\* across any number of reconnects (AsyncSocketStream::enqueue, doWrite, innerClose).
THEOREM Announcements == Spec => []QueuedIsAnnounced
<1>1. Init => QueuedIsAnnounced
  BY DEF Init, QueuedIsAnnounced
<1>2. TypeOK /\ QueuedIsAnnounced /\ [Next]_vars => QueuedIsAnnounced'
  <2> SUFFICES ASSUME TypeOK, QueuedIsAnnounced, [Next]_vars PROVE QueuedIsAnnounced'
    OBVIOUS
  <2>1. ASSUME NEW a \in Actors, Close(a)
        PROVE  QueuedIsAnnounced'
    <3>1. CASE CloseClear(a)
      BY <3>1 DEF CloseClear, QueuedIsAnnounced
    <3>2. CASE CloseSwap(a) \/ CloseFail(a) \/ CloseDone(a)
      <4>1. UNCHANGED <<queue, sem, rq>>
        BY <3>2 DEF CloseSwap, CloseFail, CloseDone, stream, ctx
      <4>2. QED
        BY <4>1, SameAnnounced
    <3>3. QED
      BY <2>1, <3>1, <3>2 DEF Close
  <2>2. CASE TimerStarts \/ Serve \/ CloseFlag \/ CloseSocket \/ UNCHANGED vars
    <3>1. UNCHANGED <<queue, sem, rq>>
      BY <2>2 DEF TimerStarts, Serve, CloseFlag, CloseSocket, vars, stream, ctx
    <3>2. QED
      BY <3>1, SameAnnounced
  <2>3. QED
    BY <2>1, <2>2, SessionAnnounced, WriteAnnounced, CallAnnounced DEF Next
<1>3. QED
  BY <1>1, <1>2, Types, PTL DEF Spec

---------------------------------------------------------------------------
(* After close() *)

\* The starts that have not yet tried to connect, or will arm a timer, and the
\* doReads that will.
Tried == {"off", "callback", "fail"}
S3 == Beyond(sp, Tried)
Unarmed == {"off", "loop", "result", "response", "rsp", "release", "again"}
R3 == Beyond(rp, Unarmed)

\* Fewer sessions are outside a larger set of places.
LEMMA BeyondFewer ==
  ASSUME NEW f, NEW A, NEW B, A \subseteq B
  PROVE  Beyond(f, B) \in Nat /\ Beyond(f, B) <= Beyond(f, A)
<1> DEFINE F == {s \in Sessions : f[s] \notin A}
           G == {s \in Sessions : f[s] \notin B}
<1>1. IsFiniteSet(F)
  BY SessionsAssumption, FS_Subset
<1>2. G \subseteq F
  OBVIOUS
<1>3. Cardinality(G) <= Cardinality(F) /\ IsFiniteSet(G)
  BY <1>1, <1>2, FS_Subset
<1>4. Cardinality(G) \in Nat
  BY <1>3, FS_CardinalityType
<1>5. QED
  BY <1>3, <1>4 DEF Beyond

\* They are among those under way.
LEMMA Trying == S3 \in Nat /\ S3 <= S0 /\ R3 \in Nat /\ R3 <= R0
<1>1. {"off"} \subseteq Tried /\ {"off"} \subseteq Unarmed
  BY DEF Tried, Unarmed
<1>2. QED
  BY <1>1, BeyondFewer DEF S0, S3, R0, R3

\* A start() that goes from one place to another.
LEMMA TryingMoves ==
  ASSUME TypeOK, NEW s \in Sessions, NEW place, sp' = [sp EXCEPT ![s] = place]
  PROVE  /\ sp[s] \in Tried /\ place \in Tried => S3' = S3
         /\ sp[s] \notin Tried /\ place \notin Tried => S3' = S3
         /\ sp[s] \in Tried /\ place \notin Tried => S3' = S3 + 1
         /\ sp[s] \notin Tried /\ place \in Tried => S3' = S3 - 1
<1> DEFINE f == sp
           g == sp'
<1>1. g[s] = place /\ \A x \in Sessions \ {s} : g[x] = f[x]
  BY DEF TypeOK
<1>2. S3' = Beyond(g, Tried) /\ S3 = Beyond(f, Tried)
  BY DEF S3, Tried
<1>3. f[s] = sp[s]
  OBVIOUS
<1> HIDE DEF f, g
<1>4. /\ f[s] \in Tried /\ g[s] \in Tried => Beyond(g, Tried) = Beyond(f, Tried)
      /\ f[s] \notin Tried /\ g[s] \notin Tried => Beyond(g, Tried) = Beyond(f, Tried)
      /\ f[s] \in Tried /\ g[s] \notin Tried => Beyond(g, Tried) = Beyond(f, Tried) + 1
      /\ f[s] \notin Tried /\ g[s] \in Tried => Beyond(g, Tried) = Beyond(f, Tried) - 1
  BY <1>1, BeyondMoves
<1>5. QED
  BY <1>1, <1>2, <1>3, <1>4

\* A doRead that goes from one place to another.
LEMMA ArmingMoves ==
  ASSUME TypeOK, NEW s \in Sessions, NEW place, rp' = [rp EXCEPT ![s] = place]
  PROVE  /\ rp[s] \in Unarmed /\ place \in Unarmed => R3' = R3
         /\ rp[s] \notin Unarmed /\ place \in Unarmed => R3' = R3 - 1
<1> DEFINE f == rp
           g == rp'
<1>1. g[s] = place /\ \A x \in Sessions \ {s} : g[x] = f[x]
  BY DEF TypeOK
<1>2. R3' = Beyond(g, Unarmed) /\ R3 = Beyond(f, Unarmed)
  BY DEF R3, Unarmed
<1>3. f[s] = rp[s]
  OBVIOUS
<1> HIDE DEF f, g
<1>4. /\ f[s] \in Unarmed /\ g[s] \in Unarmed => Beyond(g, Unarmed) = Beyond(f, Unarmed)
      /\ f[s] \notin Unarmed /\ g[s] \notin Unarmed => Beyond(g, Unarmed) = Beyond(f, Unarmed)
      /\ f[s] \in Unarmed /\ g[s] \notin Unarmed => Beyond(g, Unarmed) = Beyond(f, Unarmed) + 1
      /\ f[s] \notin Unarmed /\ g[s] \in Unarmed => Beyond(g, Unarmed) = Beyond(f, Unarmed) - 1
  BY <1>1, BeyondMoves
<1>5. QED
  BY <1>1, <1>2, <1>3, <1>4

\* Which places of start() are counted.
LEMMA Places ==
  /\ "off" \in Tried /\ "callback" \in Tried /\ "fail" \in Tried /\ "arm" \notin Tried
  /\ "wait1" \notin Tried /\ "wait2" \notin Tried /\ "connect" \notin Tried /\ "reconnect" \notin Tried
BY DEF Tried

\* The number of openers, and what a step may do to it once close() was called.
Opened == Openers' <= Openers /\ (connects' # connects => Openers > 0 /\ Openers' = 0)

\* The openers are a timer that was armed at once or after a failure, and such
\* starts and doReads.
LEMMA Sum ==
  ASSUME NEW a \in Int, NEW b \in Int, NEW c \in Int, NEW d \in Int,
         NEW x \in Int, NEW y \in Int, NEW z \in Int, NEW u \in Int,
         soon = a, T0 = b, S3 = c, R3 = d, soon' = x, T0' = y, S3' = z, R3' = u
  PROVE  Openers = a + b + c + d /\ Openers' = x + y + z + u
<1>1. Openers = soon + T0 + S3 + R3
  BY DEF Openers, T0, S3, R3, Tried, Unarmed
<1>2. Openers' = soon' + T0' + S3' + R3'
  BY DEF Openers, T0, S3, R3, Tried, Unarmed
<1>3. QED
  BY <1>1, <1>2

\* Their number does not grow, and nothing connects.
LEMMA NoMore ==
  ASSUME NEW a \in Int, NEW b \in Int, NEW c \in Int, NEW d \in Int,
         NEW x \in Int, NEW y \in Int, NEW z \in Int, NEW u \in Int,
         soon = a, T0 = b, S3 = c, R3 = d, soon' = x, T0' = y, S3' = z, R3' = u,
         x + y + z + u <= a + b + c + d, connects' = connects
  PROVE  Opened
<1>1. Openers = a + b + c + d /\ Openers' = x + y + z + u
  BY Sum
<1>2. QED
  BY <1>1 DEF Opened

\* The four numbers, by name.
LEMMA Numbers ==
  ASSUME TypeOK
  PROVE  /\ \E a \in Nat, b \in Nat, c \in Nat, d \in Nat : a = soon /\ b = T0 /\ c = S3 /\ d = R3
         /\ UNCHANGED retry => UNCHANGED T0
         /\ UNCHANGED rp => UNCHANGED R3
         /\ UNCHANGED sp => UNCHANGED S3
<1>1. soon \in Nat /\ T0 \in Nat /\ S3 \in Nat /\ R3 \in Nat
  BY CountTypes, Trying
<1>2. QED
  BY <1>1 DEF T0, S3, R3, Tried, Unarmed

\* A step that touches no place at most cancels the timer of start().
LEMMA SameOpened ==
  ASSUME TypeOK, UNCHANGED <<sp, rp, connects>>, soon' = soon,
         retry' = retry \/ retry' = FALSE
  PROVE  Opened
<1>1. PICK a \in Nat, b \in Nat, c \in Nat, d \in Nat : a = soon /\ b = T0 /\ c = S3 /\ d = R3
  BY Numbers
<1>2. soon' = a /\ S3' = c /\ R3' = d
  BY <1>1, Numbers
<1>3. CASE retry' = retry
  BY <1>1, <1>2, <1>3, Numbers, NoMore
<1>4. CASE retry' = FALSE
  <2>1. T0' = 0 /\ a + 0 + c + d <= a + b + c + d
    BY <1>4 DEF T0
  <2>2. QED
    BY <1>1, <1>2, <2>1, NoMore
<1>5. QED
  BY <1>3, <1>4

\* A step of start() after close().
LEMMA StartOpened ==
  ASSUME TypeOK, Counts, ~autoConnect, NEW s \in Sessions, Start(s)
  PROVE  Opened
<1>1. PICK a \in Nat, b \in Nat, c \in Nat, d \in Nat : a = soon /\ b = T0 /\ c = S3 /\ d = R3
  BY Numbers
<1>2. CASE StartWaits(s)
  <2>1. /\ UNCHANGED <<rp, retry, soon, connects>> /\ sp[s] \in {"wait1", "wait2"}
        /\ \E p \in {"wait2", "connect"} : sp' = [sp EXCEPT ![s] = p]
    BY <1>2 DEF StartWaits, At, GoS
  <2>2. S3' = S3
    BY <2>1, TryingMoves, Places
  <2>3. QED
    BY <1>1, <2>1, <2>2, Numbers, NoMore
<1>3. CASE StartChecks(s)
  <2>1. /\ UNCHANGED <<rp, soon, connects>> /\ T0' = 0 /\ sp[s] = "connect"
        /\ sp' = [sp EXCEPT ![s] = "callback"] \/ sp' = [sp EXCEPT ![s] = "reconnect"]
    BY <1>3 DEF StartChecks, At, GoS, T0
  <2>2. S3' = c \/ S3' = c - 1
    BY <1>1, <2>1, TryingMoves, Places
  <2>3. a + 0 + c + d <= a + b + c + d /\ a + 0 + (c - 1) + d <= a + b + c + d
    OBVIOUS
  <2>4. soon' = a /\ R3' = d
    BY <1>1, <2>1, Numbers
  <2>5. QED
    BY <1>1, <2>1, <2>2, <2>3, <2>4, NoMore
<1>4. CASE Reconnect(s)
  <2>1. /\ UNCHANGED <<rp, soon, retry>> /\ sp[s] = "reconnect" /\ sp' = [sp EXCEPT ![s] = "callback"]
    BY <1>4 DEF Reconnect, At, GoS
  <2>2. S3' = c - 1
    BY <1>1, <2>1, TryingMoves, Places
  <2>3. c >= 1
    <3>1. Beyond(sp, Tried) >= 1
      BY <2>1, BeyondHas, Places
    <3>2. QED
      BY <1>1, <3>1 DEF S3
  <2>4. soon' = a /\ T0' = b /\ R3' = d
    BY <1>1, <2>1, Numbers
  <2>5. a + b + c + d <= 1
    <3>1. PICK e \in Nat, h \in Nat : e = S0 /\ h = R0
      BY CountTypes
    <3>2. a + b + e + h <= 1
      BY <1>1, <3>1 DEF Counts
    <3>3. c <= e /\ d <= h
      BY <1>1, <3>1, Trying
    <3>4. QED
      BY <3>2, <3>3
  <2>6. Openers = a + b + c + d /\ Openers' = a + b + (c - 1) + d
    BY <1>1, <2>2, <2>4, Sum
  <2>7. QED
    BY <2>3, <2>5, <2>6 DEF Opened
<1>5. CASE StartFails(s)
  <2>1. /\ UNCHANGED <<rp, soon, retry, connects>> /\ sp[s] \in {"reconnect", "callback"}
        /\ sp' = [sp EXCEPT ![s] = "fail"]
    BY <1>5 DEF StartFails, At, GoS
  <2>2. S3' = c \/ S3' = c - 1
    BY <1>1, <2>1, TryingMoves, Places
  <2>3. a + b + (c - 1) + d <= a + b + c + d
    OBVIOUS
  <2>4. soon' = a /\ T0' = b /\ R3' = d
    BY <1>1, <2>1, Numbers
  <2>5. QED
    BY <1>1, <2>1, <2>2, <2>3, <2>4, NoMore
<1>6. CASE StartRuns(s)
  <2>1. /\ UNCHANGED <<soon, retry, connects>> /\ sp[s] = "callback" /\ sp' = [sp EXCEPT ![s] = "off"]
        /\ rp' = [rp EXCEPT ![s] = "loop"]
    BY <1>6 DEF StartRuns, At, GoS, stream
  <2>2. S3' = S3
    BY <2>1, TryingMoves, Places
  <2>3. rp[s] = "off"
    <3>1. Beyond(sp, {"off"}) >= 1
      BY <2>1, BeyondHas
    <3>2. rp[s] # "off" => Beyond(rp, {"off"}) >= 1
      BY BeyondHas
    <3>3. soon + T0 + S0 + R0 <= 1 /\ soon \in Nat /\ T0 \in Nat /\ S0 \in Nat /\ R0 \in Nat
      BY CountTypes DEF Counts
    <3>4. QED
      BY <3>1, <3>2, <3>3 DEF S0, R0
  <2>4. R3' = R3
    <3>1. rp[s] \in Unarmed /\ "loop" \in Unarmed
      BY <2>3 DEF Unarmed
    <3>2. QED
      BY <2>1, <3>1, ArmingMoves
  <2>5. QED
    BY <1>1, <2>1, <2>2, <2>4, Numbers, NoMore
<1>7. CASE StartGivesUp(s)
  <2>1. /\ UNCHANGED <<rp, soon, retry, connects>> /\ sp[s] = "fail" /\ sp' = [sp EXCEPT ![s] = "off"]
    BY <1>7 DEF StartGivesUp, At, GoS
  <2>2. S3' = S3
    BY <2>1, TryingMoves, Places
  <2>3. QED
    BY <1>1, <2>1, <2>2, Numbers, NoMore
<1>8. CASE StartArms(s)
  <2>1. /\ UNCHANGED <<rp, soon, connects>> /\ T0' = 1 /\ sp[s] = "arm" /\ sp' = [sp EXCEPT ![s] = "off"]
    BY <1>8 DEF StartArms, At, GoS, T0
  <2>2. S3' = c - 1
    BY <1>1, <2>1, TryingMoves, Places
  <2>3. a + 1 + (c - 1) + d <= a + b + c + d
    OBVIOUS
  <2>4. soon' = a /\ R3' = d
    BY <1>1, <2>1, Numbers
  <2>5. QED
    BY <1>1, <2>1, <2>2, <2>3, <2>4, NoMore
<1>9. QED
  BY <1>2, <1>3, <1>4, <1>5, <1>6, <1>7, <1>8 DEF Start

\* A step of doRead after close().
LEMMA ReadOpened ==
  ASSUME TypeOK, ~autoConnect, NEW s \in Sessions, Read(s) \/ ReceiveFails(s)
  PROVE  Opened
<1>1. PICK a \in Nat, b \in Nat, c \in Nat, d \in Nat : a = soon /\ b = T0 /\ c = S3 /\ d = R3
  BY Numbers
<1>2. CASE ReadArms(s)
  <2>1. UNCHANGED <<sp, retry, connects>> /\ soon' = a + 1 /\ rp[s] = "arm" /\ rp' = [rp EXCEPT ![s] = "off"]
    BY <1>1, <1>2 DEF ReadArms, Reads, GoR
  <2>2. R3' = d - 1
    <3>1. "arm" \notin Unarmed /\ "off" \in Unarmed
      BY DEF Unarmed
    <3>2. QED
      BY <1>1, <2>1, <3>1, ArmingMoves
  <2>3. (a + 1) + b + c + (d - 1) <= a + b + c + d
    OBVIOUS
  <2>4. T0' = b /\ S3' = c
    BY <1>1, <2>1, Numbers
  <2>5. QED
    BY <1>1, <2>1, <2>2, <2>3, <2>4, NoMore
<1>3. CASE \/ Receive(s) \/ FillResult(s) \/ FillResponse(s) \/ Respond(s)
           \/ ReadEnds(s) \/ ReadReleases(s) \/ ReadRestarts(s) \/ ReceiveFails(s)
  <2> DEFINE Within == UNCHANGED rp \/ \E p \in Unarmed : rp[s] \in Unarmed /\ rp' = [rp EXCEPT ![s] = p]
  <2>1. UNCHANGED <<sp, connects, soon, retry>> /\ Within
    <3>1. CASE Receive(s)
      BY <3>1 DEF Receive, Reads, GoR, Unarmed, stream
    <3>2. CASE FillResult(s)
      BY <3>2 DEF FillResult, Reads, GoR, Unarmed, stream
    <3>3. CASE FillResponse(s)
      BY <3>3 DEF FillResponse, Reads, GoR, Unarmed, stream
    <3>4. CASE Respond(s)
      BY <3>4 DEF Respond, Reads, GoR, Unarmed, stream
    <3>5. CASE ReadEnds(s)
      BY <3>5 DEF ReadEnds, Reads, GoR, Unarmed, stream
    <3>6. CASE ReadReleases(s)
      BY <3>6 DEF ReadReleases, Reads, GoR, Unarmed, stream
    <3>7. CASE ReadRestarts(s)
      BY <3>7 DEF ReadRestarts, Reads, GoR, Unarmed, stream
    <3>8. CASE ReceiveFails(s)
      BY <3>8 DEF ReceiveFails, session
    <3>9. QED
      BY <1>3, <3>1, <3>2, <3>3, <3>4, <3>5, <3>6, <3>7, <3>8
  <2>2. R3' = R3
    BY <2>1, ArmingMoves, Numbers
  <2>3. QED
    BY <1>1, <2>1, <2>2, Numbers, NoMore
<1>4. QED
  BY <1>2, <1>3 DEF Read

\* A timer that calls start() gives its place to it.
LEMMA TimerOpened ==
  ASSUME TypeOK, TimerStarts
  PROVE  Opened
<1>1. PICK a \in Nat, b \in Nat, c \in Nat, d \in Nat : a = soon /\ b = T0 /\ c = S3 /\ d = R3
  BY Numbers
<1>2. PICK s \in Sessions : sp[s] = "off" /\ sp' = [sp EXCEPT ![s] = "wait1"]
  BY DEF TimerStarts, Free, GoS
<1>3. S3' = c + 1
  BY <1>1, <1>2, TryingMoves, Places
<1>4. UNCHANGED <<rp, connects>> /\ R3' = d
  BY <1>1, Numbers DEF TimerStarts
<1>5. CASE retry /\ retry' = FALSE /\ soon' = soon
  <2>1. b = 1 /\ T0' = 0 /\ soon' = a
    BY <1>1, <1>5 DEF T0
  <2>2. a + 0 + (c + 1) + d <= a + b + c + d
    BY <2>1
  <2>3. QED
    BY <1>1, <1>3, <1>4, <2>1, <2>2, NoMore
<1>6. CASE soon > 0 /\ soon' = soon - 1 /\ retry' = retry
  <2>1. T0' = b /\ soon' = a - 1
    BY <1>1, <1>6, Numbers
  <2>2. (a - 1) + b + (c + 1) + d <= a + b + c + d
    OBVIOUS
  <2>3. QED
    BY <1>1, <1>3, <1>4, <2>1, <2>2, NoMore
<1>7. QED
  BY <1>5, <1>6 DEF TimerStarts

\* close() leaves at most one start() that opens the connection again, and none
\* once it has, on any number of threads, after any number of reconnects
\* (AsyncSocketStream::close, start, doRead): from OneRestart.
THEOREM LastOpening == Spec => ReopenedOnce
<1>1. ASSUME IInv, [Next]_vars
      PROVE  [~autoConnect => Opened]_vars
  <2> SUFFICES ASSUME ~autoConnect, Next PROVE Opened
    BY <1>1
  <2>1. TypeOK /\ Counts
    BY <1>1, CountsMean DEF IInv
  <2>2. ASSUME NEW s \in Sessions, Start(s)
        PROVE  Opened
    BY <2>1, <2>2, StartOpened
  <2>3. CASE TimerStarts
    BY <2>1, <2>3, TimerOpened
  <2>4. ASSUME NEW s \in Sessions, Read(s) \/ ReceiveFails(s)
        PROVE  Opened
    BY <2>1, <2>4, ReadOpened
  <2>5. ASSUME NEW s \in Sessions, Write(s) \/ SendFails(s)
        PROVE  Opened
    <3>1. UNCHANGED <<sp, rp, connects, soon, retry>>
      BY <2>5 DEF Write, WriteLoop, WriteTakes, Send, SendDone, WriteClears, WriteReleases, SendFails, stream, session
    <3>2. QED
      BY <2>1, <3>1, SameOpened
  <2>6. ASSUME NEW a \in Actors, Close(a)
        PROVE  Opened
    <3>1. UNCHANGED <<sp, rp, connects, soon, retry>>
      BY <2>6 DEF Close, CloseSwap, CloseClear, CloseFail, CloseDone, stream, session
    <3>2. QED
      BY <2>1, <3>1, SameOpened
  <2>7. ASSUME NEW r \in Requests, Call(r) \/ Late(r)
        PROVE  Opened
    <3>1. UNCHANGED <<sp, rp, connects, soon, retry>>
      BY <2>7 DEF Call, Late, Request, RequestUnconnected, AddCtx, ArmTimer, Enqueue, EnqueueNotifies, RequestReturns,
                  TimeOut, TimeOutMarks, TimeOutAnswers, stream, session
    <3>2. QED
      BY <2>1, <3>1, SameOpened
  <2>8. CASE Serve \/ CloseFlag \/ CloseSocket
    <3>1. UNCHANGED <<sp, rp, connects, soon>> /\ (retry' = retry \/ retry' = FALSE)
      BY <2>8 DEF Serve, CloseFlag, CloseSocket, stream, session
    <3>2. QED
      BY <2>1, <3>1, SameOpened
  <2>9. QED
    BY <2>2, <2>3, <2>4, <2>5, <2>6, <2>7, <2>8 DEF Next
<1>2. [~autoConnect => Opened]_vars
        => [~autoConnect => /\ Openers' <= Openers
                            /\ connects' # connects => Openers > 0 /\ Openers' = 0]_vars
  BY DEF Opened
<1>3. QED
  BY <1>1, <1>2, InductiveInvariant, PTL DEF Spec, ReopenedOnce
=============================================================================
