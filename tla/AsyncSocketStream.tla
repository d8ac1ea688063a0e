------------------------- MODULE AsyncSocketStream -------------------------
(***************************************************************************)
(* One client connection of the rock RPC protocol: AsyncSocketStream       *)
(* (src/ancfl/streams/async_socket_stream.{h,cc}) with the request and     *)
(* receive paths of RockStream (src/ancfl/rock/rock_stream.cc).            *)
(*                                                                         *)
(* The actors are fibers of one IOManager: the fibers that call request(), *)
(* the timeouts of those requests, and for each call of start() (a session) *)
(* the fibers of start(), doRead and doWrite.  A FiberSemaphore is a       *)
(* counter one waits for.                                                  *)
(*                                                                         *)
(* With OneThread the IOManager has one thread, and a fiber runs from one  *)
(* yield to its next without another in between.                           *)
(***************************************************************************)
EXTENDS Integers, Sequences, FiniteSets

CONSTANTS
  Requests,   \* requests, each with a sequence number of its own
  Sessions,   \* ids for the calls of start()
  MaxSem,     \* bound at which m_sem saturates (a further permit only makes
              \* doWrite swap an empty queue once more)
  MaxConnect, \* bound on successful reconnects
  OneThread,  \* the IOManager runs on one thread
  UserCloses, \* somebody calls close()
  None        \* doRead holds no context

ASSUME SessionsAssumption == IsFiniteSet(Sessions) /\ Sessions # {}
ASSUME BoundsAssumption   == MaxSem \in Nat \ {0} /\ MaxConnect \in Nat
ASSUME SwitchesAssumption == OneThread \in BOOLEAN /\ UserCloses \in BOOLEAN
ASSUME NoneAssumption     == None \notin Requests

VARIABLES
  connected,   \* the socket is connected
  connects,    \* successful reconnects so far
  autoConnect, \* m_autoConnect
  retry,       \* m_timer is armed: start() in two seconds
  soon,        \* timers armed by doRead: start() in ten milliseconds
  waitSem,     \* m_waitSem
  sem,         \* m_sem
  queue,       \* m_queue
  ctxs,        \* m_ctxs, the requests that await a response
  sp, rp, wp,  \* per session: where start, doRead and doWrite are
  batch,       \* what doWrite has swapped out of the queue
  hand,        \* the context doRead holds
  ic,          \* per actor: where its innerClose is
  closing,     \* the contexts that innerClose still has to fail
  rq,          \* per request: where request() is
  open,        \* Ctx::scheduler is set: nobody has answered yet
  timed, result, response, timer, \* the other fields of Ctx
  tp,          \* where onTimeOut is
  woken,       \* how often the fiber was scheduled
  srv,         \* requests the server works on
  wire,        \* responses under way
  up           \* where the caller of close() is

stream  == <<connected, connects, autoConnect, retry, soon, waitSem, sem, queue, ctxs>>
closes  == <<ic, closing>>
session == <<sp, rp, wp, batch, hand>>
ctx     == <<rq, open, timed, result, response, timer, tp, woken>>
peer    == <<srv, wire, up>>
vars    == <<stream, closes, session, ctx, peer>>

Results == {"OK", "TIMEOUT", "IO_ERROR", "NOT_CONNECT"}
Actors  == Sessions \X {"start", "read", "write"}

Init ==
  /\ connected = TRUE /\ connects = 0 /\ autoConnect = TRUE
  /\ retry = FALSE /\ soon = 0 /\ waitSem = 2 /\ sem = 0
  /\ queue = <<>> /\ ctxs = {}
  /\ \E s \in Sessions : sp = [x \in Sessions |-> IF x = s THEN "wait1" ELSE "off"]
  /\ rp = [s \in Sessions |-> "off"] /\ wp = [s \in Sessions |-> "off"]
  /\ batch = [s \in Sessions |-> <<>>] /\ hand = [s \in Sessions |-> None]
  /\ ic = [a \in Actors |-> "no"] /\ closing = [a \in Actors |-> {}]
  /\ rq = [r \in Requests |-> "idle"] /\ open = [r \in Requests |-> FALSE]
  /\ timed = [r \in Requests |-> FALSE] /\ result = [r \in Requests |-> "OK"]
  /\ response = [r \in Requests |-> FALSE] /\ timer = [r \in Requests |-> "unset"]
  /\ tp = [r \in Requests |-> "off"] /\ woken = [r \in Requests |-> 0]
  /\ srv = {} /\ wire = {}
  /\ up = IF UserCloses THEN "ready" ELSE "never"

\* Fibers between two yields.
Mid == {a \in Actors : ic[a] # "no"}
       \cup {<<s, "start">> : s \in {x \in Sessions : sp[x] \in {"connect", "fail", "arm"}}}
       \cup {<<s, "read">> : s \in {x \in Sessions : rp[x] \notin {"off", "loop"}}}
       \cup {<<s, "write">> : s \in {x \in Sessions : wp[x] \in {"exit", "release"}}}
       \cup {<<r, "call">> : r \in {x \in Requests : rq[x] \in {"add", "arm", "enqueue", "notify"}}}
       \cup {<<r, "timeout">> : r \in {x \in Requests : tp[x] # "off"}}

MayRun(x) == OneThread => Mid \subseteq {x}

SemUp == sem' = IF sem < MaxSem THEN sem + 1 ELSE sem

---------------------------------------------------------------------------
(* Ctx::doRsp: the swap of Ctx::scheduler lets one caller through, who     *)
(* cancels the timer and schedules the fiber.  (The swap and what follows  *)
(* are one step: what the others do in between they can do before.)        *)

\* Variant: no swap, every caller schedules the fiber.
DoRspAlways(r, res) ==
  /\ open' = [open EXCEPT ![r] = FALSE]
  /\ timer' = [timer EXCEPT ![r] = IF @ = "armed" THEN "cancelled" ELSE @]
  /\ result' = [result EXCEPT ![r] = IF timed[r] THEN "TIMEOUT" ELSE res]
  /\ woken' = [woken EXCEPT ![r] = @ + 1]

DoRsp(r, res) ==
  /\ open' = [open EXCEPT ![r] = FALSE]
  /\ IF open[r]
     THEN /\ timer' = [timer EXCEPT ![r] = IF @ = "armed" THEN "cancelled" ELSE @]
          /\ result' = [result EXCEPT ![r] = IF timed[r] THEN "TIMEOUT" ELSE res]
          /\ woken' = [woken EXCEPT ![r] = @ + 1]
     ELSE /\ result' = [result EXCEPT ![r] = res]
          /\ UNCHANGED <<timer, woken>>

---------------------------------------------------------------------------
(* innerClose *)

\* Variant: doWrite is not woken.
BeginCloseSilent(a) ==
  /\ ic' = [ic EXCEPT ![a] = "swap"]
  /\ connected' = FALSE
  /\ srv' = {} /\ wire' = {}
  /\ UNCHANGED sem

\* The socket is closed and doWrite woken.  What was under way is lost.
BeginClose(a) ==
  /\ ic' = [ic EXCEPT ![a] = "swap"]
  /\ connected' = FALSE
  /\ srv' = {} /\ wire' = {}
  /\ SemUp

CloseSwap(a) ==
  /\ ic[a] = "swap" /\ MayRun(a)
  /\ closing' = [closing EXCEPT ![a] = ctxs]
  /\ ctxs' = {}
  /\ ic' = [ic EXCEPT ![a] = "clear"]
  /\ UNCHANGED <<connected, connects, autoConnect, retry, soon, waitSem, sem, queue,
                 session, ctx, peer>>

CloseClear(a) ==
  /\ ic[a] = "clear" /\ MayRun(a)
  /\ queue' = <<>>
  /\ ic' = [ic EXCEPT ![a] = "fail"]
  /\ UNCHANGED <<connected, connects, autoConnect, retry, soon, waitSem, sem, ctxs,
                 closing, session, ctx, peer>>

CloseFail(a) ==
  /\ ic[a] = "fail" /\ MayRun(a)
  /\ \E r \in closing[a] : /\ closing' = [closing EXCEPT ![a] = @ \ {r}]
                           /\ DoRsp(r, "IO_ERROR")
  /\ UNCHANGED <<stream, ic, session, rq, timed, response, tp, peer>>

CloseDone(a) ==
  /\ ic[a] = "fail" /\ closing[a] = {} /\ MayRun(a)
  /\ ic' = [ic EXCEPT ![a] = "no"]
  /\ UNCHANGED <<stream, closing, session, ctx, peer>>

---------------------------------------------------------------------------
(* start *)

At(s, place)  == sp[s] = place /\ ic[<<s, "start">>] = "no" /\ MayRun(<<s, "start">>)
GoS(s, place) == sp' = [sp EXCEPT ![s] = place]

Free(s) == sp[s] = "off" /\ rp[s] = "off" /\ wp[s] = "off"

\* A timer calls start().
TimerStarts ==
  /\ \/ retry /\ retry' = FALSE /\ UNCHANGED soon
     \/ soon > 0 /\ soon' = soon - 1 /\ UNCHANGED retry
  /\ \E s \in Sessions : Free(s) /\ GoS(s, "wait1") /\ MayRun(<<s, "start">>)
  /\ UNCHANGED <<connected, connects, autoConnect, waitSem, sem, queue, ctxs, closes,
                 rp, wp, batch, hand, ctx, peer>>

\* Variant: start() waits for one permit.
StartWaitsOnce(s) ==
  /\ At(s, "wait1") /\ GoS(s, "connect")
  /\ waitSem > 0 /\ waitSem' = waitSem - 1
  /\ UNCHANGED <<connected, connects, autoConnect, retry, soon, sem, queue, ctxs, closes,
                 rp, wp, batch, hand, ctx, peer>>

\* waitFiber: both permits, that is, the last doRead and doWrite have ended
StartWaits(s) ==
  /\ \/ At(s, "wait1") /\ GoS(s, "wait2")
     \/ At(s, "wait2") /\ GoS(s, "connect")
  /\ waitSem > 0 /\ waitSem' = waitSem - 1
  /\ UNCHANGED <<connected, connects, autoConnect, retry, soon, sem, queue, ctxs, closes,
                 rp, wp, batch, hand, ctx, peer>>

StartChecks(s) ==
  /\ At(s, "connect")
  /\ retry' = FALSE
  /\ GoS(s, IF connected THEN "callback" ELSE "reconnect")
  /\ UNCHANGED <<connected, connects, autoConnect, soon, waitSem, sem, queue, ctxs, closes,
                 rp, wp, batch, hand, ctx, peer>>

Reconnect(s) ==
  /\ At(s, "reconnect")
  /\ connects < MaxConnect
  /\ connects' = connects + 1
  /\ connected' = TRUE
  /\ GoS(s, "callback")
  /\ UNCHANGED <<autoConnect, retry, soon, waitSem, sem, queue, ctxs, closes,
                 rp, wp, batch, hand, ctx, peer>>

\* The connection or the callback fails.
StartFails(s) ==
  /\ At(s, "reconnect") \/ At(s, "callback")
  /\ BeginClose(<<s, "start">>)
  /\ GoS(s, "fail")
  /\ UNCHANGED <<connects, autoConnect, retry, soon, waitSem, queue, ctxs, closing,
                 rp, wp, batch, hand, ctx, up>>

\* startRead and startWrite
StartRuns(s) ==
  /\ At(s, "callback")
  /\ GoS(s, "off")
  /\ rp' = [rp EXCEPT ![s] = "loop"]
  /\ wp' = [wp EXCEPT ![s] = "loop"]
  /\ UNCHANGED <<stream, closes, batch, hand, ctx, peer>>

\* Variant: a start() that fails gives one permit back.
StartGivesUpOne(s) ==
  /\ At(s, "fail")
  /\ waitSem' = waitSem + 1
  /\ GoS(s, IF autoConnect THEN "arm" ELSE "off")
  /\ UNCHANGED <<connected, connects, autoConnect, retry, soon, sem, queue, ctxs, closes,
                 rp, wp, batch, hand, ctx, peer>>

\* Both permits are given back and m_autoConnect is looked at ...
StartGivesUp(s) ==
  /\ At(s, "fail")
  /\ waitSem' = waitSem + 2
  /\ GoS(s, IF autoConnect THEN "arm" ELSE "off")
  /\ UNCHANGED <<connected, connects, autoConnect, retry, soon, sem, queue, ctxs, closes,
                 rp, wp, batch, hand, ctx, peer>>

\* ... and m_timer armed, whatever close() has done since
StartArms(s) ==
  /\ At(s, "arm")
  /\ retry' = TRUE
  /\ GoS(s, "off")
  /\ UNCHANGED <<connected, connects, autoConnect, soon, waitSem, sem, queue, ctxs, closes,
                 rp, wp, batch, hand, ctx, peer>>

---------------------------------------------------------------------------
(* doRead *)

Reads(s, place) == rp[s] = place /\ ic[<<s, "read">>] = "no" /\ MayRun(<<s, "read">>)
GoR(s, place)   == rp' = [rp EXCEPT ![s] = place]

\* Variant: getCtx, which leaves the context in the map.
ReceiveKeeps(s) ==
  /\ Reads(s, "loop") /\ connected
  /\ \E r \in wire :
       /\ wire' = wire \ {r}
       /\ IF r \in ctxs
          THEN GoR(s, "result") /\ hand' = [hand EXCEPT ![s] = r]
          ELSE UNCHANGED <<rp, hand>>
  /\ UNCHANGED <<stream, closes, sp, wp, batch, ctx, srv, up>>

\* RockStream::doRecv: a response; its context leaves the map
Receive(s) ==
  /\ Reads(s, "loop") /\ connected
  /\ \E r \in wire :
       /\ wire' = wire \ {r}
       /\ ctxs' = ctxs \ {r}
       /\ IF r \in ctxs
          THEN GoR(s, "result") /\ hand' = [hand EXCEPT ![s] = r]
          ELSE UNCHANGED <<rp, hand>>
  /\ UNCHANGED <<connected, connects, autoConnect, retry, soon, waitSem, sem, queue,
                 closes, sp, wp, batch, ctx, srv, up>>

\* ... its fields are filled in
FillResult(s) ==
  /\ Reads(s, "result")
  /\ result' = [result EXCEPT ![hand[s]] = "OK"]
  /\ GoR(s, "response")
  /\ UNCHANGED <<stream, closes, sp, wp, batch, hand, rq, open, timed, response, timer,
                 tp, woken, peer>>

FillResponse(s) ==
  /\ Reads(s, "response")
  /\ response' = [response EXCEPT ![hand[s]] = TRUE]
  /\ GoR(s, "rsp")
  /\ UNCHANGED <<stream, closes, sp, wp, batch, hand, rq, open, timed, result, timer,
                 tp, woken, peer>>

\* Variant: doRead keeps the context it has answered.
RespondKeeps(s) ==
  /\ Reads(s, "rsp")
  /\ DoRsp(hand[s], result[hand[s]])
  /\ GoR(s, "loop")
  /\ UNCHANGED <<stream, closes, sp, wp, batch, hand, rq, timed, response, tp, peer>>

Respond(s) ==
  /\ Reads(s, "rsp")
  /\ DoRsp(hand[s], result[hand[s]])
  /\ hand' = [hand EXCEPT ![s] = None]
  /\ GoR(s, "loop")
  /\ UNCHANGED <<stream, closes, sp, wp, batch, rq, timed, response, tp, peer>>

\* Nothing could be read: the peer closed, an error, a broken message.
ReceiveFails(s) ==
  /\ Reads(s, "loop") /\ connected
  /\ BeginClose(<<s, "read">>)
  /\ UNCHANGED <<connects, autoConnect, retry, soon, waitSem, queue, ctxs, closing,
                 session, ctx, up>>

ReadEnds(s) ==
  /\ Reads(s, "loop") /\ ~connected
  /\ BeginClose(<<s, "read">>)
  /\ GoR(s, "release")
  /\ UNCHANGED <<connects, autoConnect, retry, soon, waitSem, queue, ctxs, closing,
                 sp, wp, batch, hand, ctx, up>>

ReadReleases(s) ==
  /\ Reads(s, "release")
  /\ waitSem' = waitSem + 1
  /\ GoR(s, "again")
  /\ UNCHANGED <<connected, connects, autoConnect, retry, soon, sem, queue, ctxs, closes,
                 sp, wp, batch, hand, ctx, peer>>

\* Variant: the timer is armed whatever m_autoConnect says.
ReadRestartsAlways(s) ==
  /\ Reads(s, "again")
  /\ GoR(s, "arm")
  /\ UNCHANGED <<stream, closes, sp, wp, batch, hand, ctx, peer>>

\* m_autoConnect is looked at ...
ReadRestarts(s) ==
  /\ Reads(s, "again")
  /\ GoR(s, IF autoConnect THEN "arm" ELSE "off")
  /\ UNCHANGED <<stream, closes, sp, wp, batch, hand, ctx, peer>>

\* ... and a timer armed that will call start() in ten milliseconds
ReadArms(s) ==
  /\ Reads(s, "arm")
  /\ soon' = soon + 1
  /\ GoR(s, "off")
  /\ UNCHANGED <<connected, connects, autoConnect, retry, waitSem, sem, queue, ctxs, closes,
                 sp, wp, batch, hand, ctx, peer>>

---------------------------------------------------------------------------
(* doWrite *)

Writes(s, place) == wp[s] = place /\ ic[<<s, "write">>] = "no" /\ MayRun(<<s, "write">>)
GoW(s, place)    == wp' = [wp EXCEPT ![s] = place]

WriteLoop(s) ==
  /\ Writes(s, "loop")
  /\ GoW(s, IF connected THEN "wait" ELSE "exit")
  /\ UNCHANGED <<stream, closes, sp, rp, batch, hand, ctx, peer>>

\* Variant: doWrite takes the first message only.
WriteTakesFirst(s) ==
  /\ Writes(s, "wait")
  /\ sem > 0 /\ sem' = sem - 1
  /\ batch' = [batch EXCEPT ![s] = IF queue = <<>> THEN <<>> ELSE <<Head(queue)>>]
  /\ queue' = IF queue = <<>> THEN <<>> ELSE Tail(queue)
  /\ GoW(s, "send")
  /\ UNCHANGED <<connected, connects, autoConnect, retry, soon, waitSem, ctxs, closes,
                 sp, rp, hand, ctx, peer>>

WriteTakes(s) ==
  /\ Writes(s, "wait")
  /\ sem > 0 /\ sem' = sem - 1
  /\ batch' = [batch EXCEPT ![s] = queue]
  /\ queue' = <<>>
  /\ GoW(s, "send")
  /\ UNCHANGED <<connected, connects, autoConnect, retry, soon, waitSem, ctxs, closes,
                 sp, rp, hand, ctx, peer>>

Send(s) ==
  /\ Writes(s, "send") /\ batch[s] # <<>> /\ connected
  /\ srv' = srv \cup {Head(batch[s])}
  /\ batch' = [batch EXCEPT ![s] = Tail(@)]
  /\ UNCHANGED <<stream, closes, sp, rp, wp, hand, ctx, wire, up>>

SendFails(s) ==
  /\ Writes(s, "send") /\ batch[s] # <<>>
  /\ BeginClose(<<s, "write">>)
  /\ batch' = [batch EXCEPT ![s] = <<>>]
  /\ UNCHANGED <<connects, autoConnect, retry, soon, waitSem, queue, ctxs, closing,
                 sp, rp, wp, hand, ctx, up>>

SendDone(s) ==
  /\ Writes(s, "send") /\ batch[s] = <<>>
  /\ GoW(s, "loop")
  /\ UNCHANGED <<stream, closes, sp, rp, batch, hand, ctx, peer>>

WriteClears(s) ==
  /\ Writes(s, "exit")
  /\ queue' = <<>>
  /\ GoW(s, "release")
  /\ UNCHANGED <<connected, connects, autoConnect, retry, soon, waitSem, sem, ctxs, closes,
                 sp, rp, batch, hand, ctx, peer>>

\* Variant: doWrite arms a timer for start() as doRead does.
WriteRestarts(s) ==
  /\ Writes(s, "release")
  /\ waitSem' = waitSem + 1
  /\ soon' = IF autoConnect THEN soon + 1 ELSE soon
  /\ GoW(s, "off")
  /\ UNCHANGED <<connected, connects, autoConnect, retry, sem, queue, ctxs, closes,
                 sp, rp, batch, hand, ctx, peer>>

WriteReleases(s) ==
  /\ Writes(s, "release")
  /\ waitSem' = waitSem + 1
  /\ GoW(s, "off")
  /\ UNCHANGED <<connected, connects, autoConnect, retry, soon, sem, queue, ctxs, closes,
                 sp, rp, batch, hand, ctx, peer>>

---------------------------------------------------------------------------
(* RockStream::request and its timeout *)

Calls(r, place) == rq[r] = place /\ MayRun(<<r, "call">>)
GoQ(r, place)   == rq' = [rq EXCEPT ![r] = place]

Request(r) ==
  /\ Calls(r, "idle") /\ connected
  /\ GoQ(r, "add")
  /\ open' = [open EXCEPT ![r] = TRUE]
  /\ UNCHANGED <<stream, closes, session, timed, result, response, timer, tp, woken, peer>>

RequestUnconnected(r) ==
  /\ Calls(r, "idle") /\ ~connected
  /\ GoQ(r, "done")
  /\ result' = [result EXCEPT ![r] = "NOT_CONNECT"]
  /\ UNCHANGED <<stream, closes, session, open, timed, response, timer, tp, woken, peer>>

AddCtx(r) ==
  /\ Calls(r, "add")
  /\ ctxs' = ctxs \cup {r}
  /\ GoQ(r, "arm")
  /\ UNCHANGED <<connected, connects, autoConnect, retry, soon, waitSem, sem, queue,
                 closes, session, open, timed, result, response, timer, tp, woken, peer>>

\* Variant: no timer.
ArmNothing(r) ==
  /\ Calls(r, "arm")
  /\ GoQ(r, "enqueue")
  /\ UNCHANGED <<stream, closes, session, open, timed, result, response, timer, tp, woken, peer>>

ArmTimer(r) ==
  /\ Calls(r, "arm")
  /\ timer' = [timer EXCEPT ![r] = "armed"]
  /\ GoQ(r, "enqueue")
  /\ UNCHANGED <<stream, closes, session, open, timed, result, response, tp, woken, peer>>

\* enqueue wakes doWrite only when the queue was empty.
Enqueue(r) ==
  /\ Calls(r, "enqueue")
  /\ queue' = Append(queue, r)
  /\ GoQ(r, IF queue = <<>> THEN "notify" ELSE "yield")
  /\ UNCHANGED <<connected, connects, autoConnect, retry, soon, waitSem, sem, ctxs,
                 closes, session, open, timed, result, response, timer, tp, woken, peer>>

EnqueueNotifies(r) ==
  /\ Calls(r, "notify")
  /\ SemUp
  /\ GoQ(r, "yield")
  /\ UNCHANGED <<connected, connects, autoConnect, retry, soon, waitSem, queue, ctxs,
                 closes, session, open, timed, result, response, timer, tp, woken, peer>>

RequestReturns(r) ==
  /\ Calls(r, "yield") /\ woken[r] > 0
  /\ GoQ(r, "done")
  /\ UNCHANGED <<stream, closes, session, open, timed, result, response, timer, tp, woken, peer>>

\* Variant: the context is not marked.
TimeOutUnmarked(r) ==
  /\ tp[r] = "mark" /\ MayRun(<<r, "timeout">>)
  /\ tp' = [tp EXCEPT ![r] = "rsp"]
  /\ UNCHANGED <<stream, closes, session, rq, open, timed, result, response, timer, woken, peer>>

\* onTimeOut: forget the context, mark it, answer it
TimeOut(r) ==
  /\ timer[r] = "armed" /\ MayRun(<<r, "timeout">>)
  /\ timer' = [timer EXCEPT ![r] = "fired"]
  /\ ctxs' = ctxs \ {r}
  /\ tp' = [tp EXCEPT ![r] = "mark"]
  /\ UNCHANGED <<connected, connects, autoConnect, retry, soon, waitSem, sem, queue,
                 closes, session, rq, open, timed, result, response, woken, peer>>

TimeOutMarks(r) ==
  /\ tp[r] = "mark" /\ MayRun(<<r, "timeout">>)
  /\ timed' = [timed EXCEPT ![r] = TRUE]
  /\ tp' = [tp EXCEPT ![r] = "rsp"]
  /\ UNCHANGED <<stream, closes, session, rq, open, result, response, timer, woken, peer>>

TimeOutAnswers(r) ==
  /\ tp[r] = "rsp" /\ MayRun(<<r, "timeout">>)
  /\ DoRsp(r, result[r])
  /\ tp' = [tp EXCEPT ![r] = "off"]
  /\ UNCHANGED <<stream, closes, session, rq, timed, response, peer>>

---------------------------------------------------------------------------
(* The server, and the caller of close() *)

Serve ==
  /\ \E r \in srv : srv' = srv \ {r} /\ wire' = wire \cup {r}
  /\ UNCHANGED <<stream, closes, session, ctx, up>>

CloseFlag ==
  /\ up = "ready" /\ up' = "switch"
  /\ autoConnect' = FALSE
  /\ UNCHANGED <<connected, connects, retry, soon, waitSem, sem, queue, ctxs, closes,
                 session, ctx, srv, wire>>

\* ... on the IOManager of the stream: m_timer is cancelled, the socket closed
CloseSocket ==
  /\ up = "switch" /\ up' = "closed" /\ MayRun(<<None, "closer">>)
  /\ retry' = FALSE
  /\ connected' = FALSE /\ srv' = {} /\ wire' = {}
  /\ UNCHANGED <<connects, autoConnect, soon, waitSem, sem, queue, ctxs, closes, session, ctx>>

---------------------------------------------------------------------------
Start(s) == \/ StartWaits(s) \/ StartChecks(s) \/ Reconnect(s) \/ StartFails(s)
            \/ StartRuns(s) \/ StartGivesUp(s) \/ StartArms(s)
Read(s)  == \/ Receive(s) \/ FillResult(s) \/ FillResponse(s) \/ Respond(s)
            \/ ReadEnds(s) \/ ReadReleases(s) \/ ReadRestarts(s) \/ ReadArms(s)
Write(s) == \/ WriteLoop(s) \/ WriteTakes(s) \/ Send(s) \/ SendDone(s)
            \/ WriteClears(s) \/ WriteReleases(s)
Close(a) == CloseSwap(a) \/ CloseClear(a) \/ CloseFail(a) \/ CloseDone(a)
Call(r)  == \/ Request(r) \/ RequestUnconnected(r) \/ AddCtx(r) \/ ArmTimer(r)
            \/ Enqueue(r) \/ EnqueueNotifies(r) \/ RequestReturns(r)
Late(r)  == TimeOut(r) \/ TimeOutMarks(r) \/ TimeOutAnswers(r)

Next ==
  \/ \E s \in Sessions : Start(s) \/ Read(s) \/ Write(s) \/ ReceiveFails(s) \/ SendFails(s)
  \/ \E a \in Actors : Close(a)
  \/ \E r \in Requests : Call(r) \/ Late(r)
  \/ TimerStarts \/ Serve \/ CloseFlag \/ CloseSocket

Spec == Init /\ [][Next]_vars

\* Threads run, timers fire.  On one thread a request whose fiber is ready
\* again and again is resumed: the queue of the IOManager is served in order
\* (ScheduledRuns of FiberScheduler).  Nothing is assumed of the peer or the
\* network.
Fairness ==
  /\ \A s \in Sessions : WF_vars(Start(s)) /\ WF_vars(Read(s)) /\ WF_vars(Write(s) \/ SendFails(s))
  /\ \A a \in Actors : WF_vars(Close(a))
  /\ \A r \in Requests : SF_vars(Call(r)) /\ SF_vars(Late(r))
  /\ WF_vars(TimerStarts)

FairSpec == Spec /\ Fairness

---------------------------------------------------------------------------
(* Properties *)

TypeOK ==
  /\ connected \in BOOLEAN /\ autoConnect \in BOOLEAN /\ retry \in BOOLEAN
  /\ connects \in 0..MaxConnect /\ soon \in Nat /\ waitSem \in Nat /\ sem \in 0..MaxSem
  /\ queue \in Seq(Requests) /\ ctxs \subseteq Requests
  /\ sp \in [Sessions -> {"off", "wait1", "wait2", "connect", "reconnect", "callback", "fail", "arm"}]
  /\ rp \in [Sessions -> {"off", "loop", "result", "response", "rsp", "release", "again", "arm"}]
  /\ wp \in [Sessions -> {"off", "loop", "wait", "send", "exit", "release"}]
  /\ batch \in [Sessions -> Seq(Requests)]
  /\ hand \in [Sessions -> Requests \cup {None}]
  /\ \A s \in Sessions : hand[s] = None <=> rp[s] \notin {"result", "response", "rsp"}
  /\ ic \in [Actors -> {"no", "swap", "clear", "fail"}]
  /\ closing \in [Actors -> SUBSET Requests]
  /\ rq \in [Requests -> {"idle", "add", "arm", "enqueue", "notify", "yield", "done"}]
  /\ open \in [Requests -> BOOLEAN] /\ timed \in [Requests -> BOOLEAN]
  /\ response \in [Requests -> BOOLEAN] /\ result \in [Requests -> Results]
  /\ timer \in [Requests -> {"unset", "armed", "fired", "cancelled"}]
  /\ tp \in [Requests -> {"off", "mark", "rsp"}] /\ woken \in [Requests -> Nat]
  /\ srv \subseteq Requests /\ wire \subseteq Requests
  /\ up \in {"never", "ready", "switch", "closed"}

\* The fiber of a request is scheduled at most once, though its response, its
\* timeout and the loss of the connection may race for it: a second time it
\* would be resumed out of whatever it does after request() returned.  Who answers
\* has taken the context out of the map before.
AnsweredOnce == \A r \in Requests : woken[r] <= 1 /\ (r \in ctxs => open[r] /\ woken[r] = 0)

\* How many sessions are somewhere else than at these places.
Beyond(f, places) == Cardinality({s \in Sessions : f[s] \notin places})

\* The two permits of m_waitSem: one for each of doRead and doWrite that runs,
\* both while start() connects; none is lost and none made up, on no path.
PermitsConserved ==
  waitSem + Beyond(sp, {"off", "wait1", "arm"}) + Beyond(sp, {"off", "wait1", "wait2", "arm"})
          + Beyond(rp, {"off", "again", "arm"}) + Beyond(wp, {"off"}) = 2

\* At most one doRead reads and one doWrite writes the socket: a start() waits
\* for those of the connection before.
OneReaderWriter == Beyond(rp, {"off", "again", "arm"}) <= 1 /\ Beyond(wp, {"off"}) <= 1

\* There is at most one cause for a further start(): an armed timer, a start()
\* under way or a doRead that will arm one when it ends.  Reconnects cannot
\* multiply.
OneRestart == soon + (IF retry THEN 1 ELSE 0) + Beyond(sp, {"off"}) + Beyond(rp, {"off"}) <= 1

\* No wake-up is lost between enqueue and doWrite: a queue that is not empty has
\* a permit of m_sem waiting for doWrite, or the request that found it empty is
\* about to make one.  enqueue stays silent when the queue is not empty; that is
\* right only as doWrite takes the whole queue for one permit.
QueuedIsAnnounced == queue # <<>> => sem > 0 \/ \E r \in Requests : rq[r] = "notify"

\* What may still open the connection: a timer that will call start(), a start()
\* that has not yet tried to connect, or one of them or of doRead that found
\* m_autoConnect set and is about to arm a timer.
Openers == soon + (IF retry THEN 1 ELSE 0) + Beyond(sp, {"off", "callback", "fail"})
                + Beyond(rp, {"off", "loop", "result", "response", "rsp", "release", "again"})

\* close() does not recall a start() that is on its way, which opens the
\* connection once more (async_socket_stream.cc:226); but once m_autoConnect is
\* cleared no path adds a further cause, so that connection is the last.
ReopenedOnce ==
  [][~autoConnect => /\ Openers' <= Openers
                     /\ connects' # connects => Openers > 0 /\ Openers' = 0]_vars

\* request() as its callers see it.  A request counts as ended from the moment
\* its fiber is scheduled: what the context holds then is what is returned.
Phase(r) == CASE rq[r] = "idle" -> "idle"
              [] rq[r] = "done" -> "done"
              [] rq[r] \notin {"idle", "done"} /\ woken[r] > 0 -> "ended"
              [] OTHER -> "pending"
Ended(r) == Phase(r) \in {"ended", "done"}

Service == INSTANCE RequestService WITH
  phase <- [r \in Requests |-> Phase(r)],
  outcome <- [r \in Requests |-> IF Ended(r) THEN result[r] ELSE "none"],
  answered <- [r \in Requests |-> Ended(r) /\ response[r]]

\* On one thread the stream implements that service: each request is ended once,
\* its result is final from then on, OK has a response, and every accepted
\* request returns, however response, timeout and the loss of the connection
\* race for it.
ImplementsService == Service!Spec

\* doWrite does not sleep on a closed connection: the doRead or start() that
\* closed it has woken it.
WriterWakes == \A s \in Sessions : wp[s] = "wait" /\ ~connected ~> wp[s] # "wait" \/ connected
============================================================================
