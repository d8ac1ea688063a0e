------------------------ MODULE RequestServiceProofs ------------------------
(***************************************************************************)
(* On one thread every step of AsyncSocketStream is a step of              *)
(* RequestService, or changes nothing of what the callers of request() see.*)
(***************************************************************************)
EXTENDS AsyncSocketStreamProofs

\* What a context holds agrees with how far its request is.
ResultInv ==
  /\ \A r \in Requests :
       /\ rq[r] = "idle" => result[r] = "OK" /\ ~ response[r]
       /\ rq[r] = "done" => ~ open[r]
       /\ open[r] => result[r] # "NOT_CONNECT"
       /\ tp[r] = "rsp" => timed[r]
  /\ \A s \in Sessions : rp[s] = "rsp" => response[hand[s]]

\* One fiber at most is between two yields.
Single == \A x \in Mid, y \in Mid : x = y

\* A context that somebody is about to answer, or that is on its way into the
\* map, is open: nobody else runs in between.
OpenInv ==
  /\ \A a \in Actors : closing[a] # {} => ic[a] # "no"
  /\ \A s \in Sessions : rp[s] \in {"result", "response", "rsp"} => ic[<<s, "read">>] = "no"
  /\ \A r \in Requests : Held(r) \/ rq[r] \in {"add", "arm"} \/ timer[r] = "armed" => open[r]

Inv == IInv /\ ResultInv /\ Single /\ OpenInv
\* The invariant holds at the start.
LEMMA InitInv == Init => Inv
<1> SUFFICES ASSUME Init PROVE Inv
  OBVIOUS
<1>1. ResultInv
  BY DEF Init, ResultInv
<1>2. Mid = {}
  <2>1. ic = [a \in Actors |-> "no"] /\ \A s \in Sessions : sp[s] \in {"wait1", "off"}
    BY DEF Init
  <2>2. QED
    BY <2>1 DEF Init, Mid
<1>3. OpenInv
  BY NoneAssumption DEF Init, OpenInv, Held
<1>4. QED
  BY <1>1, <1>2, <1>3, InitIInv DEF Inv, Single

---------------------------------------------------------------------------
(* Results *)

\* doRsp, by somebody who has the context in hand.
LEMMA DoRspResults ==
  ASSUME IInv, ResultInv, NEW r \in Requests, NEW res, Held(r), DoRsp(r, res), UNCHANGED <<rq, response, timed>>,
         \A x \in Requests : tp'[x] = tp[x] \/ tp'[x] = "off",
         \A s \in Sessions : rp'[s] = "rsp" => rp[s] = "rsp" /\ hand'[s] = hand[s]
  PROVE  ResultInv'
<1>1. rq[r] # "idle"
  BY DEF IInv, AnswerInv
<1>2. \A x \in Requests \ {r} : open'[x] = open[x] /\ result'[x] = result[x]
  BY DEF DoRsp, IInv, TypeOK
<1>3. open'[r] = FALSE
  BY DEF DoRsp, IInv, TypeOK
<1>4. QED
  BY <1>1, <1>2, <1>3 DEF ResultInv

\* Every step keeps what contexts hold in agreement with their requests.
LEMMA ResultsKept ==
  ASSUME IInv, ResultInv, [Next]_vars
  PROVE  ResultInv'
<1> USE DEF stream, closes, session, ctx
<1>1. CASE UNCHANGED <<rq, open, result, response, timed, tp, rp, hand>>
  BY <1>1 DEF ResultInv
<1>2. ASSUME NEW s \in Sessions, Start(s) \/ Write(s) \/ ReceiveFails(s) \/ SendFails(s), ~ StartRuns(s)
      PROVE UNCHANGED <<rq, open, result, response, timed, tp, rp, hand>>
  BY <1>2 DEF Start, StartWaits, StartChecks, Reconnect, StartFails, StartGivesUp, StartArms, ReceiveFails, SendFails,
              Write, WriteLoop, WriteTakes, Send, SendDone, WriteClears, WriteReleases
<1>3. ASSUME NEW s \in Sessions, StartRuns(s) \/ Receive(s) \/ ReadEnds(s) \/ ReadReleases(s) \/ ReadRestarts(s) \/ ReadArms(s) PROVE ResultInv'
  <2>1. /\ UNCHANGED <<rq, open, result, response, timed, tp>>
        /\ \A x \in Sessions \ {s} : hand'[x] = hand[x] /\ rp'[x] = rp[x]
        /\ rp'[s] # "rsp"
    BY <1>3 DEF StartRuns, Receive, ReadEnds, ReadReleases, ReadRestarts, ReadArms, Reads, GoR, IInv, TypeOK
  <2>2. QED
    BY <2>1 DEF ResultInv
<1>4. ASSUME NEW s \in Sessions, FillResult(s) PROVE ResultInv'
  <2>1. hand[s] \in Requests /\ rq[hand[s]] # "idle"
    BY <1>4 DEF FillResult, Reads, IInv, TypeOK, AnswerInv, Held
  <2>2. /\ UNCHANGED <<rq, open, response, timed, tp, hand>>
        /\ result' = [result EXCEPT ![hand[s]] = "OK"] /\ rp' = [rp EXCEPT ![s] = "response"]
    BY <1>4 DEF FillResult, GoR
  <2>3. QED
    BY <2>1, <2>2 DEF ResultInv, IInv, TypeOK
<1>5. ASSUME NEW s \in Sessions, FillResponse(s) PROVE ResultInv'
  <2>1. hand[s] \in Requests /\ rq[hand[s]] # "idle"
    BY <1>5 DEF FillResponse, Reads, IInv, TypeOK, AnswerInv, Held
  <2>2. /\ UNCHANGED <<rq, open, result, timed, tp, hand>>
        /\ response' = [response EXCEPT ![hand[s]] = TRUE] /\ rp' = [rp EXCEPT ![s] = "rsp"]
    BY <1>5 DEF FillResponse, GoR
  <2>3. \A x \in Requests : response[x] => response'[x]
    BY <2>2 DEF IInv, TypeOK
  <2>4. \A x \in Sessions : rp[x] = "rsp" => hand[x] \in Requests
    BY DEF IInv, TypeOK
  <2>5. \A x \in Sessions : rp'[x] = "rsp" => response'[hand[x]]
    BY <2>1, <2>2, <2>3, <2>4 DEF ResultInv, IInv, TypeOK
  <2>6. \A x \in Requests : rq[x] = "idle" => response'[x] = response[x]
    BY <2>1, <2>2 DEF IInv, TypeOK
  <2>7. QED
    BY <2>2, <2>5, <2>6 DEF ResultInv
<1>6. ASSUME NEW s \in Sessions, Respond(s) PROVE ResultInv'
  <2>1. hand[s] \in Requests /\ Held(hand[s])
    BY <1>6 DEF Respond, Reads, IInv, TypeOK, Held
  <2>2. \A x \in Sessions : rp'[x] = "rsp" => rp[x] = "rsp" /\ hand'[x] = hand[x]
    BY <1>6 DEF Respond, GoR, IInv, TypeOK
  <2>3. QED
    BY <1>6, <2>1, <2>2, DoRspResults DEF Respond
<1>7. ASSUME NEW a \in Actors, CloseFail(a) PROVE ResultInv'
  <2>1. PICK r \in closing[a] : DoRsp(r, "IO_ERROR")
    BY <1>7 DEF CloseFail
  <2>2. r \in Requests /\ Held(r)
    BY <2>1 DEF IInv, TypeOK, Held
  <2>3. QED
    BY <1>7, <2>1, <2>2, DoRspResults DEF CloseFail
<1>8. ASSUME NEW r \in Requests, Request(r) \/ RequestUnconnected(r) PROVE ResultInv'
  <2>1. \A s \in Sessions : rp[s] = "rsp" => hand[s] \in Requests
    BY DEF IInv, TypeOK
  <2>2. CASE Request(r)
    BY <1>8, <2>2 DEF Request, Calls, GoQ, ResultInv, IInv, TypeOK
  <2>3. CASE RequestUnconnected(r)
    BY <1>8, <2>3 DEF RequestUnconnected, Calls, GoQ, ResultInv, IInv, TypeOK, AnswerInv
  <2>4. QED
    BY <1>8, <2>2, <2>3
<1>9. ASSUME NEW r \in Requests, AddCtx(r) \/ ArmTimer(r) \/ Enqueue(r) \/ EnqueueNotifies(r) PROVE ResultInv'
  <2>1. /\ UNCHANGED <<open, result, response, timed, tp, rp, hand>>
        /\ \A x \in Requests : rq'[x] = rq[x] \/ rq'[x] \notin {"idle", "done"}
    BY <1>9 DEF AddCtx, ArmTimer, Enqueue, EnqueueNotifies, GoQ, IInv, TypeOK
  <2>2. QED
    BY <2>1 DEF ResultInv
<1>10. ASSUME NEW r \in Requests, RequestReturns(r) PROVE ResultInv'
  BY <1>10 DEF RequestReturns, GoQ, ResultInv, IInv, TypeOK, AnswerInv
<1>11. ASSUME NEW r \in Requests, TimeOut(r) \/ TimeOutMarks(r) PROVE ResultInv'
  BY <1>11 DEF TimeOut, TimeOutMarks, ResultInv, IInv, TypeOK
<1>12. ASSUME NEW r \in Requests, TimeOutAnswers(r) PROVE ResultInv'
  <2>1. Held(r)
    BY <1>12 DEF TimeOutAnswers, Held
  <2>2. \A x \in Requests : tp'[x] = tp[x] \/ tp'[x] = "off"
    BY <1>12 DEF TimeOutAnswers, IInv, TypeOK
  <2>3. QED
    BY <1>12, <2>1, <2>2, DoRspResults DEF TimeOutAnswers
<1>13. CASE TimerStarts \/ Serve \/ CloseFlag \/ CloseSocket \/ UNCHANGED vars
  BY <1>1, <1>13 DEF TimerStarts, Serve, CloseFlag, CloseSocket, vars
<1>14. ASSUME NEW a \in Actors, Close(a), ~ CloseFail(a) PROVE UNCHANGED <<rq, open, result, response, timed, tp, rp, hand>>
  BY <1>14 DEF Close, CloseSwap, CloseClear, CloseDone
<1>15. QED
  BY <1>1, <1>2, <1>3, <1>4, <1>5, <1>6, <1>7, <1>8, <1>9, <1>10, <1>11, <1>12, <1>13, <1>14 DEF Next, Read, Call, Late
---------------------------------------------------------------------------
(* One fiber at a time *)

\* A step of x on one thread, which changes no other's place but to a yield,
\* leaves x alone between two yields.
LEMMA OneMoves ==
  ASSUME OneThread, NEW x, MayRun(x),
         \A a \in Actors : a # x => ic'[a] = ic[a],
         \A s \in Sessions : <<s, "start">> # x => sp'[s] = sp[s] \/ sp'[s] \notin {"connect", "fail", "arm"},
         \A s \in Sessions : <<s, "read">> # x => rp'[s] = rp[s] \/ rp'[s] \in {"off", "loop"},
         \A s \in Sessions : <<s, "write">> # x => wp'[s] = wp[s] \/ wp'[s] \notin {"exit", "release"},
         \A r \in Requests : <<r, "call">> # x => rq'[r] = rq[r],
         \A r \in Requests : <<r, "timeout">> # x => tp'[r] = tp[r]
  PROVE  Single'
<1>1. Mid \subseteq {x}
  BY DEF MayRun
<1>2. ASSUME NEW y \in Mid' PROVE y = x
  <2>1. CASE y \in Actors /\ ic'[y] # "no"
    BY <1>1, <2>1 DEF Mid
  <2>2. ASSUME NEW s \in Sessions, y = <<s, "start">>, sp'[s] \in {"connect", "fail", "arm"} PROVE y = x
    BY <1>1, <2>2 DEF Mid
  <2>3. ASSUME NEW s \in Sessions, y = <<s, "read">>, rp'[s] \notin {"off", "loop"} PROVE y = x
    BY <1>1, <2>3 DEF Mid
  <2>4. ASSUME NEW s \in Sessions, y = <<s, "write">>, wp'[s] \in {"exit", "release"} PROVE y = x
    BY <1>1, <2>4 DEF Mid
  <2>5. ASSUME NEW r \in Requests, y = <<r, "call">>, rq'[r] \in {"add", "arm", "enqueue", "notify"} PROVE y = x
    BY <1>1, <2>5 DEF Mid
  <2>6. ASSUME NEW r \in Requests, y = <<r, "timeout">>, tp'[r] # "off" PROVE y = x
    BY <1>1, <2>6 DEF Mid
  <2>7. QED
    BY <1>2, <2>1, <2>2, <2>3, <2>4, <2>5, <2>6 DEF Mid
<1>3. QED
  BY <1>2 DEF Single

\* Every step leaves one fiber at most between two yields.
LEMMA SingleKept ==
  ASSUME OneThread, IInv, Single, [Next]_vars
  PROVE  Single'
<1> USE DEF stream, closes, session, ctx
<1>1. ASSUME NEW s \in Sessions, Start(s) PROVE Single'
  <2>1. MayRun(<<s, "start">>)
    BY <1>1 DEF Start, StartWaits, StartChecks, Reconnect, StartFails, StartRuns, StartGivesUp, StartArms, At
  <2>2. UNCHANGED <<rq, tp>> /\ \A x \in Sessions \ {s} : sp'[x] = sp[x]
    BY <1>1 DEF Start, StartWaits, StartChecks, Reconnect, StartFails, StartRuns, StartGivesUp, StartArms, GoS, IInv, TypeOK
  <2>3. \A a \in Actors : a # <<s, "start">> => ic'[a] = ic[a]
    BY <1>1 DEF Start, StartWaits, StartChecks, Reconnect, StartFails, StartRuns, StartGivesUp, StartArms, BeginClose, IInv, TypeOK
  <2>4. /\ \A x \in Sessions : rp'[x] = rp[x] \/ rp'[x] = "loop"
        /\ \A x \in Sessions : wp'[x] = wp[x] \/ wp'[x] = "loop"
    BY <1>1 DEF Start, StartWaits, StartChecks, Reconnect, StartFails, StartRuns, StartGivesUp, StartArms, IInv, TypeOK
  <2>5. QED
    BY <2>1, <2>2, <2>3, <2>4, OneMoves
<1>2. ASSUME NEW s \in Sessions, Read(s) \/ ReceiveFails(s) PROVE Single'
  <2>1. MayRun(<<s, "read">>)
    BY <1>2 DEF Read, ReceiveFails, Receive, FillResult, FillResponse, Respond, ReadEnds, ReadReleases, ReadRestarts, ReadArms, Reads
  <2>2. UNCHANGED <<rq, tp, sp, wp>>
    BY <1>2 DEF Read, ReceiveFails, Receive, FillResult, FillResponse, Respond, ReadEnds, ReadReleases, ReadRestarts, ReadArms
  <2>3. \A x \in Sessions \ {s} : rp'[x] = rp[x]
    BY <1>2 DEF Read, ReceiveFails, Receive, FillResult, FillResponse, Respond, ReadEnds, ReadReleases, ReadRestarts, ReadArms, GoR, IInv, TypeOK
  <2>4. \A a \in Actors : a # <<s, "read">> => ic'[a] = ic[a]
    BY <1>2 DEF Read, ReceiveFails, Receive, FillResult, FillResponse, Respond, ReadEnds, ReadReleases, ReadRestarts, ReadArms, BeginClose, IInv, TypeOK
  <2>5. QED
    BY <2>1, <2>2, <2>3, <2>4, OneMoves
<1>3. ASSUME NEW s \in Sessions, Write(s) \/ SendFails(s) PROVE Single'
  <2>1. MayRun(<<s, "write">>)
    BY <1>3 DEF Write, SendFails, WriteLoop, WriteTakes, Send, SendDone, WriteClears, WriteReleases, Writes
  <2>2. UNCHANGED <<rq, tp, sp, rp>>
    BY <1>3 DEF Write, SendFails, WriteLoop, WriteTakes, Send, SendDone, WriteClears, WriteReleases
  <2>3. \A x \in Sessions \ {s} : wp'[x] = wp[x]
    BY <1>3 DEF Write, SendFails, WriteLoop, WriteTakes, Send, SendDone, WriteClears, WriteReleases, GoW, IInv, TypeOK
  <2>4. \A a \in Actors : a # <<s, "write">> => ic'[a] = ic[a]
    BY <1>3 DEF Write, SendFails, WriteLoop, WriteTakes, Send, SendDone, WriteClears, WriteReleases, BeginClose, IInv, TypeOK
  <2>5. QED
    BY <2>1, <2>2, <2>3, <2>4, OneMoves
<1>4. ASSUME NEW a \in Actors, Close(a) PROVE Single'
  <2>1. MayRun(a) /\ UNCHANGED <<rq, tp, sp, rp, wp>>
    BY <1>4 DEF Close, CloseSwap, CloseClear, CloseFail, CloseDone
  <2>2. \A x \in Actors : x # a => ic'[x] = ic[x]
    BY <1>4 DEF Close, CloseSwap, CloseClear, CloseFail, CloseDone, IInv, TypeOK
  <2>3. QED
    BY <2>1, <2>2, OneMoves
<1>5. ASSUME NEW r \in Requests, Call(r) PROVE Single'
  <2>1. MayRun(<<r, "call">>) /\ UNCHANGED <<ic, tp, sp, rp, wp>>
    BY <1>5 DEF Call, Request, RequestUnconnected, AddCtx, ArmTimer, Enqueue, EnqueueNotifies, RequestReturns, Calls
  <2>2. \A x \in Requests \ {r} : rq'[x] = rq[x]
    BY <1>5 DEF Call, Request, RequestUnconnected, AddCtx, ArmTimer, Enqueue, EnqueueNotifies, RequestReturns, GoQ, IInv, TypeOK
  <2>3. QED
    BY <2>1, <2>2, OneMoves
<1>6. ASSUME NEW r \in Requests, Late(r) PROVE Single'
  <2>1. MayRun(<<r, "timeout">>) /\ UNCHANGED <<ic, rq, sp, rp, wp>>
    BY <1>6 DEF Late, TimeOut, TimeOutMarks, TimeOutAnswers
  <2>2. \A x \in Requests \ {r} : tp'[x] = tp[x]
    BY <1>6 DEF Late, TimeOut, TimeOutMarks, TimeOutAnswers, IInv, TypeOK
  <2>3. QED
    BY <2>1, <2>2, OneMoves
<1>7. CASE TimerStarts
  <2>1. PICK s \in Sessions : GoS(s, "wait1")
    BY <1>7 DEF TimerStarts
  <2>2. UNCHANGED <<ic, rq, tp, rp, wp>>
    BY <1>7 DEF TimerStarts
  <2>3. \A x \in Sessions : sp'[x] = sp[x] \/ sp'[x] = "wait1"
    BY <2>1 DEF GoS, IInv, TypeOK
  <2>4. Mid' \subseteq Mid
    BY <2>2, <2>3 DEF Mid
  <2>5. QED
    BY <2>4 DEF Single
<1>8. CASE Serve \/ CloseFlag \/ CloseSocket \/ UNCHANGED vars
  <2>1. UNCHANGED <<ic, rq, tp, sp, rp, wp>>
    BY <1>8 DEF Serve, CloseFlag, CloseSocket, vars
  <2>2. Mid' = Mid
    BY <2>1 DEF Mid
  <2>3. QED
    BY <2>2 DEF Single
<1>9. QED
  BY <1>1, <1>2, <1>3, <1>4, <1>5, <1>6, <1>7, <1>8 DEF Next
---------------------------------------------------------------------------
(* Who holds a context has it to itself *)

\* When x may run, what anybody holds is x's.
LEMMA Alone ==
  ASSUME OneThread, IInv, OpenInv, NEW x, MayRun(x)
  PROVE  /\ \A a \in Actors : ic[a] # "no" => a = x
         /\ \A a \in Actors : closing[a] # {} => a = x
         /\ \A s \in Sessions : hand[s] # None => <<s, "read">> = x /\ ic[<<s, "read">>] = "no"
         /\ \A r \in Requests : rq[r] \in {"add", "arm"} => <<r, "call">> = x
         /\ \A r \in Requests : tp[r] # "off" => <<r, "timeout">> = x
<1>1. Mid \subseteq {x}
  BY DEF MayRun
<1>2. \A a \in Actors : ic[a] # "no" => a = x
  BY <1>1 DEF Mid
<1>3. \A s \in Sessions : hand[s] # None => rp[s] \in {"result", "response", "rsp"}
  BY DEF IInv, TypeOK
<1>4. \A s \in Sessions : rp[s] \in {"result", "response", "rsp"} => <<s, "read">> = x
  <2>1. ASSUME NEW s \in Sessions, rp[s] \in {"result", "response", "rsp"} PROVE <<s, "read">> = x
    <3>1. <<s, "read">> \in Mid
      BY <2>1 DEF Mid
    <3>2. QED
      BY <1>1, <3>1
  <2>2. QED
    BY <2>1
<1>5. \A r \in Requests : rq[r] \in {"add", "arm"} => <<r, "call">> = x
  <2>1. ASSUME NEW r \in Requests, rq[r] \in {"add", "arm"} PROVE <<r, "call">> = x
    <3>1. <<r, "call">> \in Mid
      BY <2>1 DEF Mid
    <3>2. QED
      BY <1>1, <3>1
  <2>2. QED
    BY <2>1
<1>6. \A r \in Requests : tp[r] # "off" => <<r, "timeout">> = x
  BY <1>1 DEF Mid
<1>7. QED
  BY <1>2, <1>3, <1>4, <1>5, <1>6 DEF OpenInv

\* Contexts that nobody answers stay open.
LEMMA NobodyEnds ==
  ASSUME OpenInv, UNCHANGED <<open, timer>>,
         \A a \in Actors : closing'[a] # {} => ic'[a] # "no",
         \A s \in Sessions : rp'[s] \in {"result", "response", "rsp"} => ic'[<<s, "read">>] = "no",
         \A r \in Requests : Held(r)' => Held(r) \/ open[r],
         \A r \in Requests : rq'[r] \in {"add", "arm"} => open[r]
  PROVE  OpenInv'
  BY DEF OpenInv

\* Who answers a context leaves it with nobody.
LEMMA OneEnds ==
  ASSUME IInv, OpenInv, NEW r \in Requests, NEW res, Held(r), DoRsp(r, res), UNCHANGED <<ic, rq>>,
         \A a \in Actors : closing'[a] # {} => closing[a] # {},
         \A s \in Sessions : rp'[s] \in {"result", "response", "rsp"} => rp'[s] = rp[s],
         \A x \in Requests : Held(x)' => Held(x) /\ x # r,
         rq[r] \notin {"add", "arm"}
  PROVE  OpenInv'
<1>1. \A x \in Requests \ {r} : open'[x] = open[x] /\ timer'[x] = timer[x]
  BY DEF DoRsp, IInv, TypeOK
<1>2. timer'[r] # "armed"
  BY DEF DoRsp, IInv, TypeOK, OpenInv
<1>3. QED
  BY <1>1, <1>2 DEF OpenInv

\* Every step of a fiber that runs alone leaves contexts open until they are
\* answered.
LEMMA OpenKept ==
  ASSUME OneThread, IInv, ResultInv, OpenInv, [Next]_vars
  PROVE  OpenInv'
<1> USE DEF stream, closes, session, ctx
<1>1. ASSUME NEW s \in Sessions, Start(s) \/ Write(s) PROVE OpenInv'
  <2>1. UNCHANGED <<ctx, closing, hand>>
    BY <1>1 DEF Start, StartWaits, StartChecks, Reconnect, StartFails, StartRuns, StartGivesUp, StartArms,
                Write, WriteLoop, WriteTakes, Send, SendDone, WriteClears, WriteReleases
  <2>2. \A x \in Sessions : rp'[x] = rp[x] \/ rp'[x] = "loop"
    <3>1. rp' = rp \/ rp' = [rp EXCEPT ![s] = "loop"]
      BY <1>1 DEF Start, StartWaits, StartChecks, Reconnect, StartFails, StartRuns, StartGivesUp, StartArms,
                  Write, WriteLoop, WriteTakes, Send, SendDone, WriteClears, WriteReleases
    <3>2. QED
      BY <3>1 DEF IInv, TypeOK
  <2>3. \A a \in Actors : ic'[a] = ic[a] \/ (a = <<s, "start">> /\ ic'[a] = "swap")
    <3>1. ic' = ic \/ ic' = [ic EXCEPT ![<<s, "start">>] = "swap"]
      BY <1>1 DEF Start, StartWaits, StartChecks, Reconnect, StartFails, StartRuns, StartGivesUp, StartArms, BeginClose,
                  Write, WriteLoop, WriteTakes, Send, SendDone, WriteClears, WriteReleases
    <3>2. DOMAIN ic = Actors
      BY DEF IInv, TypeOK
    <3>3. QED
      BY <3>1, <3>2
  <2>4. \A x \in Sessions : <<x, "read">> \in Actors /\ <<x, "read">> # <<s, "start">>
    BY DEF Actors
  <2>5. QED
    BY <2>1, <2>2, <2>3, <2>4, NobodyEnds DEF Held, OpenInv
<1>2. ASSUME NEW s \in Sessions, SendFails(s) PROVE OpenInv'
  <2>1. UNCHANGED <<ctx, closing, hand, rp>>
    BY <1>2 DEF SendFails
  <2>2. \A a \in Actors : ic'[a] = ic[a] \/ (a = <<s, "write">> /\ ic'[a] = "swap")
    <3>1. ic' = [ic EXCEPT ![<<s, "write">>] = "swap"]
      BY <1>2 DEF SendFails, BeginClose
    <3>2. DOMAIN ic = Actors
      BY DEF IInv, TypeOK
    <3>3. QED
      BY <3>1, <3>2
  <2>3. \A x \in Sessions : <<x, "read">> \in Actors /\ <<x, "read">> # <<s, "write">>
    BY DEF Actors
  <2>4. QED
    BY <2>1, <2>2, <2>3, NobodyEnds DEF Held, OpenInv
<1>3. ASSUME NEW s \in Sessions, ReceiveFails(s) \/ ReadEnds(s) PROVE OpenInv'
  <2>1. UNCHANGED <<ctx, closing, hand>>
    BY <1>3 DEF ReceiveFails, ReadEnds
  <2>2. /\ \A x \in Sessions \ {s} : rp'[x] = rp[x]
        /\ rp'[s] \in {"loop", "release"}
    BY <1>3 DEF ReceiveFails, ReadEnds, Reads, GoR, IInv, TypeOK
  <2>3. \A a \in Actors : ic'[a] = ic[a] \/ (a = <<s, "read">> /\ ic'[a] = "swap")
    <3>1. ic' = [ic EXCEPT ![<<s, "read">>] = "swap"]
      BY <1>3 DEF ReceiveFails, ReadEnds, BeginClose
    <3>2. DOMAIN ic = Actors
      BY DEF IInv, TypeOK
    <3>3. QED
      BY <3>1, <3>2
  <2>4. \A x \in Sessions : <<x, "read">> \in Actors /\ (<<x, "read">> = <<s, "read">> => x = s)
    BY DEF Actors
  <2>5. QED
    BY <2>1, <2>2, <2>3, <2>4, NobodyEnds DEF Held, OpenInv
<1>4. ASSUME NEW s \in Sessions, FillResult(s) \/ FillResponse(s) \/ ReadReleases(s) \/ ReadRestarts(s) \/ ReadArms(s) PROVE OpenInv'
  <2>1. UNCHANGED <<open, timer, rq, tp, closes, hand>>
    BY <1>4 DEF FillResult, FillResponse, ReadReleases, ReadRestarts, ReadArms
  <2>2. \A x \in Sessions : rp'[x] \in {"result", "response", "rsp"} => rp[x] \in {"result", "response", "rsp"}
    BY <1>4 DEF FillResult, FillResponse, ReadReleases, ReadRestarts, ReadArms, Reads, GoR, IInv, TypeOK
  <2>3. QED
    BY <2>1, <2>2, NobodyEnds DEF Held, OpenInv
<1>5. ASSUME NEW s \in Sessions, Receive(s) PROVE OpenInv'
  <2>1. PICK r \in wire : IF r \in ctxs THEN GoR(s, "result") /\ hand' = [hand EXCEPT ![s] = r]
                          ELSE UNCHANGED <<rp, hand>>
    BY <1>5 DEF Receive
  <2>2. UNCHANGED <<ctx, closes>> /\ ic[<<s, "read">>] = "no"
    BY <1>5 DEF Receive, Reads
  <2>3. \A x \in Sessions : rp'[x] = rp[x] \/ x = s
    BY <2>1 DEF GoR, IInv, TypeOK
  <2>4. \A x \in Sessions : hand'[x] = hand[x] \/ (hand'[x] = r /\ r \in ctxs)
    BY <2>1 DEF IInv, TypeOK
  <2>5. \A x \in Requests : Held(x)' => Held(x) \/ open[x]
    BY <2>2, <2>4 DEF Held, IInv, AnswerInv
  <2>6. QED
    BY <2>2, <2>3, <2>5, NobodyEnds DEF OpenInv
<1>6. ASSUME NEW s \in Sessions, Respond(s) PROVE OpenInv'
  <2>1. MayRun(<<s, "read">>) /\ UNCHANGED <<closes, rq, tp>> /\ ic[<<s, "read">>] = "no"
    BY <1>6 DEF Respond, Reads
  <2>2. hand[s] \in Requests /\ Held(hand[s])
    BY <1>6 DEF Respond, Reads, IInv, TypeOK, Held
  <2>3. /\ \A x \in Sessions \ {s} : rp'[x] = rp[x] /\ hand'[x] = hand[x]
        /\ rp'[s] = "loop" /\ hand'[s] = None
    BY <1>6 DEF Respond, GoR, IInv, TypeOK
  <2>4. /\ \A a \in Actors : closing[a] = {}
        /\ \A x \in Sessions \ {s} : hand[x] = None
        /\ \A r \in Requests : rq[r] \notin {"add", "arm"} /\ tp[r] = "off"
    <3>1. \A x \in Sessions \ {s} : <<x, "read">> # <<s, "read">>
      OBVIOUS
    <3>2. \A r \in Requests : <<r, "call">> # <<s, "read">> /\ <<r, "timeout">> # <<s, "read">>
      OBVIOUS
    <3>3. QED
      BY <2>1, <3>1, <3>2, Alone DEF OpenInv
  <2>5. \A x \in Requests : ~ Held(x)'
    BY <2>1, <2>3, <2>4, NoneAssumption DEF Held
  <2>6. QED
    BY <1>6, <2>1, <2>2, <2>3, <2>4, <2>5, OneEnds DEF Respond
<1>7. ASSUME NEW a \in Actors, CloseSwap(a) \/ CloseClear(a) \/ CloseDone(a) PROVE OpenInv'
  <2>1. UNCHANGED <<ctx, session>>
    BY <1>7 DEF CloseSwap, CloseClear, CloseDone
  <2>2. \A x \in Actors : closing'[x] = closing[x] \/ closing'[x] = ctxs
    BY <1>7 DEF CloseSwap, CloseClear, CloseDone, IInv, TypeOK
  <2>3. /\ \A x \in Actors \ {a} : ic'[x] = ic[x] /\ closing'[x] = closing[x]
        /\ ic[a] # "no"
        /\ closing'[a] # {} => ic'[a] # "no"
    BY <1>7 DEF CloseSwap, CloseClear, CloseDone, IInv, TypeOK
  <2>4. \A x \in Requests : Held(x)' => Held(x) \/ open[x]
    BY <2>1, <2>2 DEF Held, IInv, AnswerInv
  <2>5. \A x \in Sessions : <<x, "read">> \in Actors
    BY DEF Actors
  <2>6. QED
    BY <2>1, <2>3, <2>4, <2>5, NobodyEnds DEF OpenInv
<1>8. ASSUME NEW a \in Actors, CloseFail(a) PROVE OpenInv'
  <2>1. PICK r \in closing[a] : closing' = [closing EXCEPT ![a] = @ \ {r}] /\ DoRsp(r, "IO_ERROR")
    BY <1>8 DEF CloseFail
  <2>2. MayRun(a) /\ UNCHANGED <<ic, session, rq, tp>> /\ ic[a] # "no"
    BY <1>8 DEF CloseFail
  <2>3. r \in Requests /\ Held(r)
    BY <2>1 DEF IInv, TypeOK, Held
  <2>4. /\ \A x \in Actors \ {a} : closing[x] = {}
        /\ \A s \in Sessions : hand[s] = None
        /\ \A q \in Requests : rq[q] \notin {"add", "arm"} /\ tp[q] = "off"
    <3>1. \A q \in Requests : <<q, "call">> # a /\ <<q, "timeout">> # a
      BY DEF Actors
    <3>2. QED
      BY <2>2, <3>1, Alone
  <2>5. /\ closing'[a] = closing[a] \ {r}
        /\ \A x \in Actors \ {a} : closing'[x] = closing[x]
    BY <2>1 DEF IInv, TypeOK
  <2>6. \A x \in Requests : Held(x)' => Held(x) /\ x # r
    BY <2>2, <2>4, <2>5, NoneAssumption DEF Held
  <2>7. QED
    BY <2>1, <2>2, <2>3, <2>4, <2>5, <2>6, OneEnds
<1>9. ASSUME NEW r \in Requests, Request(r) PROVE OpenInv'
  <2>1. /\ UNCHANGED <<closes, session, tp, timer>>
        /\ open' = [open EXCEPT ![r] = TRUE] /\ rq' = [rq EXCEPT ![r] = "add"]
    BY <1>9 DEF Request, GoQ
  <2>2. QED
    BY <2>1 DEF OpenInv, Held, IInv, TypeOK
<1>10. ASSUME NEW r \in Requests, RequestUnconnected(r) \/ AddCtx(r) \/ Enqueue(r) \/ EnqueueNotifies(r) \/ RequestReturns(r)
       PROVE OpenInv'
  <2>1. UNCHANGED <<closes, session, tp, timer, open>>
    BY <1>10 DEF RequestUnconnected, AddCtx, Enqueue, EnqueueNotifies, RequestReturns
  <2>2. \A x \in Requests : rq'[x] \in {"add", "arm"} => rq[x] \in {"add", "arm"}
    BY <1>10 DEF RequestUnconnected, AddCtx, Enqueue, EnqueueNotifies, RequestReturns, Calls, GoQ, IInv, TypeOK
  <2>3. QED
    BY <2>1, <2>2, NobodyEnds DEF OpenInv, Held
<1>11. ASSUME NEW r \in Requests, ArmTimer(r) PROVE OpenInv'
  <2>1. /\ UNCHANGED <<closes, session, tp, open>> /\ rq[r] = "arm"
        /\ timer' = [timer EXCEPT ![r] = "armed"] /\ rq' = [rq EXCEPT ![r] = "enqueue"]
    BY <1>11 DEF ArmTimer, GoQ, Calls
  <2>2. QED
    BY <2>1 DEF OpenInv, Held, IInv, TypeOK
<1>12. ASSUME NEW r \in Requests, TimeOut(r) \/ TimeOutMarks(r) PROVE OpenInv'
  <2>1. UNCHANGED <<closes, session, open, rq>>
    BY <1>12 DEF TimeOut, TimeOutMarks
  <2>2. /\ \A x \in Requests \ {r} : tp'[x] = tp[x] /\ timer'[x] = timer[x]
        /\ timer'[r] = "armed" => timer[r] = "armed"
        /\ timer[r] = "armed" \/ tp[r] # "off"
    BY <1>12 DEF TimeOut, TimeOutMarks, IInv, TypeOK
  <2>3. open[r]
    BY <2>2 DEF OpenInv, Held
  <2>4. \A x \in Requests : Held(x)' => Held(x) \/ open[x]
    BY <2>1, <2>2, <2>3 DEF Held
  <2>5. QED
    BY <2>1, <2>2, <2>4 DEF OpenInv
<1>13. ASSUME NEW r \in Requests, TimeOutAnswers(r) PROVE OpenInv'
  <2>1. MayRun(<<r, "timeout">>) /\ UNCHANGED <<closes, session, rq>> /\ Held(r)
    BY <1>13 DEF TimeOutAnswers, Held
  <2>2. \A x \in Requests \ {r} : tp'[x] = tp[x]
    BY <1>13 DEF TimeOutAnswers, IInv, TypeOK
  <2>3. tp'[r] = "off"
    BY <1>13 DEF TimeOutAnswers, IInv, TypeOK
  <2>4. /\ \A a \in Actors : closing[a] = {}
        /\ \A s \in Sessions : hand[s] = None
        /\ \A q \in Requests : rq[q] \notin {"add", "arm"}
    <3>1. \A a \in Actors : a # <<r, "timeout">>
      BY DEF Actors
    <3>2. \A s \in Sessions : <<s, "read">> # <<r, "timeout">>
      OBVIOUS
    <3>3. \A q \in Requests : <<q, "call">> # <<r, "timeout">>
      OBVIOUS
    <3>4. QED
      BY <2>1, <3>1, <3>2, <3>3, Alone
  <2>5. \A x \in Requests : Held(x)' => Held(x) /\ x # r
    BY <2>1, <2>2, <2>3, <2>4, NoneAssumption DEF Held
  <2>6. QED
    BY <1>13, <2>1, <2>4, <2>5, OneEnds DEF TimeOutAnswers
<1>14. CASE TimerStarts \/ Serve \/ CloseFlag \/ CloseSocket \/ UNCHANGED vars
  <2>1. UNCHANGED <<closes, hand, rp, ctx>>
    BY <1>14 DEF TimerStarts, Serve, CloseFlag, CloseSocket, vars
  <2>2. QED
    BY <2>1 DEF OpenInv, Held
<1>15. QED
  BY <1>1, <1>2, <1>3, <1>4, <1>5, <1>6, <1>7, <1>8, <1>9, <1>10, <1>11, <1>12, <1>13, <1>14
  DEF Next, Read, Call, Late, Close
---------------------------------------------------------------------------
(* The refinement *)

\* A step that the callers of request() do not see.
LEMMA ServiceStutters ==
  ASSUME \A q \in Requests : Phase(q)' = Phase(q),
         \A q \in Requests : Ended(q) => result'[q] = result[q] /\ response'[q] = response[q]
  PROVE  UNCHANGED Service!vars
<1>1. \A q \in Requests : Ended(q)' = Ended(q)
  BY DEF Ended
<1>2. QED
  BY <1>1 DEF Service!vars

\* A step that they see, of one request.
LEMMA ServiceMoves ==
  ASSUME NEW r \in Requests,
         \A q \in Requests \ {r} : Phase(q)' = Phase(q) /\ result'[q] = result[q] /\ response'[q] = response[q],
         \/ Phase(r) = "idle" /\ Phase(r)' = "done" /\ result'[r] = "NOT_CONNECT" /\ response'[r] = FALSE
         \/ Phase(r) = "idle" /\ Phase(r)' = "pending"
         \/ /\ Phase(r) = "pending" /\ Phase(r)' = "ended"
            /\ result'[r] \in {"OK", "TIMEOUT", "IO_ERROR"} /\ response'[r] \in BOOLEAN
            /\ result'[r] = "OK" => response'[r]
         \/ /\ Phase(r) = "ended" /\ Phase(r)' = "done"
            /\ result'[r] = result[r] /\ response'[r] = response[r]
  PROVE  Service!Next
<1>1. \A q \in Requests \ {r} : Ended(q)' = Ended(q)
  BY DEF Ended
<1>2. CASE Phase(r) = "idle" /\ Phase(r)' = "done" /\ result'[r] = "NOT_CONNECT" /\ response'[r] = FALSE
  <2>1. Service!Refuse(r)
    BY <1>1, <1>2 DEF Service!Refuse, Ended
  <2>2. QED
    BY <2>1 DEF Service!Next
<1>3. CASE Phase(r) = "idle" /\ Phase(r)' = "pending"
  <2>1. Service!Accept(r)
    BY <1>1, <1>3 DEF Service!Accept, Ended
  <2>2. QED
    BY <2>1 DEF Service!Next
<1>4. CASE /\ Phase(r) = "pending" /\ Phase(r)' = "ended"
           /\ result'[r] \in {"OK", "TIMEOUT", "IO_ERROR"} /\ response'[r] \in BOOLEAN
           /\ result'[r] = "OK" => response'[r]
  <2>1. Service!End(r)
    BY <1>1, <1>4 DEF Service!End, Ended
  <2>2. QED
    BY <2>1 DEF Service!Next
<1>5. CASE /\ Phase(r) = "ended" /\ Phase(r)' = "done"
           /\ result'[r] = result[r] /\ response'[r] = response[r]
  <2>1. Service!Return(r)
    BY <1>1, <1>5 DEF Service!Return, Ended
  <2>2. QED
    BY <2>1 DEF Service!Next
<1>6. QED
  BY <1>2, <1>3, <1>4, <1>5

\* doRsp ends a request.
LEMMA DoRspEnds ==
  ASSUME Inv, NEW r \in Requests, NEW res \in {"OK", "TIMEOUT", "IO_ERROR"}, Held(r), DoRsp(r, res), UNCHANGED <<rq, response>>,
         res = "OK" => timed[r] \/ response[r]
  PROVE  Service!Next
<1>1. open[r] /\ rq[r] \notin {"idle", "done"} /\ woken[r] = 0
  BY DEF Inv, OpenInv, ResultInv, IInv, AnswerInv
<1>2. /\ \A q \in Requests \ {r} : woken'[q] = woken[q] /\ result'[q] = result[q]
      /\ woken'[r] = 1
      /\ result'[r] = IF timed[r] THEN "TIMEOUT" ELSE res
  BY <1>1 DEF DoRsp, Inv, IInv, TypeOK
<1>3. \A q \in Requests \ {r} : Phase(q)' = Phase(q)
  BY <1>2 DEF Phase
<1>4. Phase(r) = "pending" /\ Phase(r)' = "ended"
  BY <1>1, <1>2 DEF Phase
<1>5. response[r] \in BOOLEAN
  BY DEF Inv, IInv, TypeOK
<1>6. QED
  BY <1>2, <1>3, <1>4, <1>5, ServiceMoves
\* Every step is one of the service, or unseen.
LEMMA StepsServe ==
  ASSUME Inv, [Next]_vars
  PROVE  [Service!Next]_(Service!vars)
<1> USE DEF stream, closes, session, ctx
<1>1. CASE UNCHANGED <<rq, woken, result, response>>
  BY <1>1, ServiceStutters DEF Phase
<1>2. ASSUME NEW s \in Sessions, Start(s) \/ Write(s) \/ ReceiveFails(s) \/ SendFails(s) PROVE UNCHANGED <<rq, woken, result, response>>
  BY <1>2 DEF Start, StartWaits, StartChecks, Reconnect, StartFails, StartRuns, StartGivesUp, StartArms, ReceiveFails, SendFails,
              Write, WriteLoop, WriteTakes, Send, SendDone, WriteClears, WriteReleases
<1>3. ASSUME NEW s \in Sessions, Receive(s) \/ ReadEnds(s) \/ ReadReleases(s) \/ ReadRestarts(s) \/ ReadArms(s)
      PROVE UNCHANGED <<rq, woken, result, response>>
  BY <1>3 DEF Receive, ReadEnds, ReadReleases, ReadRestarts, ReadArms
<1>4. ASSUME NEW s \in Sessions, FillResult(s) \/ FillResponse(s) PROVE UNCHANGED Service!vars
  <2>1. hand[s] \in Requests /\ Held(hand[s])
    BY <1>4 DEF FillResult, FillResponse, Reads, Inv, IInv, TypeOK, Held
  <2>2. woken[hand[s]] = 0 /\ rq[hand[s]] # "done"
    BY <2>1 DEF Inv, OpenInv, ResultInv, IInv, AnswerInv
  <2>3. ~ Ended(hand[s])
    BY <2>2 DEF Ended, Phase
  <2>4. /\ UNCHANGED <<rq, woken>>
        /\ \A q \in Requests \ {hand[s]} : result'[q] = result[q] /\ response'[q] = response[q]
    BY <1>4 DEF FillResult, FillResponse, Inv, IInv, TypeOK
  <2>5. QED
    BY <2>3, <2>4, ServiceStutters DEF Phase
<1>5. ASSUME NEW s \in Sessions, Respond(s) PROVE Service!Next
  <2>1. hand[s] \in Requests /\ Held(hand[s]) /\ response[hand[s]]
    BY <1>5 DEF Respond, Reads, Inv, IInv, TypeOK, Held, ResultInv
  <2>2. result[hand[s]] \in {"OK", "TIMEOUT", "IO_ERROR"}
    BY <2>1 DEF Inv, OpenInv, ResultInv, IInv, TypeOK, Results
  <2>3. QED
    BY <1>5, <2>1, <2>2, DoRspEnds DEF Respond
<1>6. ASSUME NEW a \in Actors, CloseFail(a) PROVE Service!Next
  <2>1. PICK r \in closing[a] : DoRsp(r, "IO_ERROR")
    BY <1>6 DEF CloseFail
  <2>2. r \in Requests /\ Held(r)
    BY <2>1 DEF Inv, IInv, TypeOK, Held
  <2>3. QED
    BY <1>6, <2>1, <2>2, DoRspEnds DEF CloseFail
<1>7. ASSUME NEW a \in Actors, CloseSwap(a) \/ CloseClear(a) \/ CloseDone(a) PROVE UNCHANGED <<rq, woken, result, response>>
  BY <1>7 DEF CloseSwap, CloseClear, CloseDone
<1>8. ASSUME NEW r \in Requests, Request(r) \/ RequestUnconnected(r) \/ RequestReturns(r) PROVE Service!Next
  <2>1. \A q \in Requests \ {r} : rq'[q] = rq[q] /\ woken'[q] = woken[q] /\ result'[q] = result[q] /\ response'[q] = response[q]
    BY <1>8 DEF Request, RequestUnconnected, RequestReturns, GoQ, Inv, IInv, TypeOK
  <2>2. \A q \in Requests \ {r} : Phase(q)' = Phase(q)
    BY <2>1 DEF Phase
  <2>3. CASE Request(r)
    <3>1. rq[r] = "idle" /\ rq'[r] = "add" /\ woken'[r] = 0
      BY <2>3 DEF Request, Calls, GoQ, Inv, IInv, TypeOK, AnswerInv
    <3>2. Phase(r) = "idle" /\ Phase(r)' = "pending"
      BY <3>1 DEF Phase
    <3>3. QED
      BY <2>1, <2>2, <3>2, ServiceMoves
  <2>4. CASE RequestUnconnected(r)
    <3>1. rq[r] = "idle" /\ rq'[r] = "done" /\ result'[r] = "NOT_CONNECT"
      BY <2>4 DEF RequestUnconnected, Calls, GoQ, Inv, IInv, TypeOK
    <3>2. response'[r] = FALSE
      BY <2>4, <3>1 DEF RequestUnconnected, Inv, ResultInv, IInv, TypeOK
    <3>3. Phase(r) = "idle" /\ Phase(r)' = "done"
      BY <3>1 DEF Phase
    <3>4. QED
      BY <2>1, <2>2, <3>1, <3>2, <3>3, ServiceMoves
  <2>5. CASE RequestReturns(r)
    <3>1. rq[r] = "yield" /\ rq'[r] = "done" /\ woken[r] > 0 /\ result'[r] = result[r] /\ response'[r] = response[r]
      BY <2>5 DEF RequestReturns, Calls, GoQ, Inv, IInv, TypeOK
    <3>2. Phase(r) = "ended" /\ Phase(r)' = "done"
      BY <3>1 DEF Phase
    <3>3. QED
      BY <2>1, <2>2, <3>1, <3>2, ServiceMoves
  <2>6. QED
    BY <1>8, <2>3, <2>4, <2>5
<1>9. ASSUME NEW r \in Requests, AddCtx(r) \/ ArmTimer(r) \/ Enqueue(r) \/ EnqueueNotifies(r) PROVE UNCHANGED Service!vars
  <2>1. UNCHANGED <<woken, result, response>>
    BY <1>9 DEF AddCtx, ArmTimer, Enqueue, EnqueueNotifies
  <2>2. \A q \in Requests : rq'[q] = rq[q] \/ (rq[q] \notin {"idle", "done"} /\ rq'[q] \notin {"idle", "done"})
    BY <1>9 DEF AddCtx, ArmTimer, Enqueue, EnqueueNotifies, Calls, GoQ, Inv, IInv, TypeOK
  <2>3. \A q \in Requests : Phase(q)' = Phase(q)
    BY <2>1, <2>2 DEF Phase
  <2>4. QED
    BY <2>1, <2>3, ServiceStutters
<1>10. ASSUME NEW r \in Requests, TimeOut(r) \/ TimeOutMarks(r) PROVE UNCHANGED <<rq, woken, result, response>>
  BY <1>10 DEF TimeOut, TimeOutMarks
<1>11. ASSUME NEW r \in Requests, TimeOutAnswers(r) PROVE Service!Next
  <2>1. Held(r) /\ timed[r]
    BY <1>11 DEF TimeOutAnswers, Held, Inv, ResultInv
  <2>2. result[r] \in {"OK", "TIMEOUT", "IO_ERROR"}
    BY <2>1 DEF Inv, OpenInv, ResultInv, IInv, TypeOK, Results
  <2>3. QED
    BY <1>11, <2>1, <2>2, DoRspEnds DEF TimeOutAnswers
<1>12. CASE TimerStarts \/ Serve \/ CloseFlag \/ CloseSocket \/ UNCHANGED vars
  BY <1>1, <1>12 DEF TimerStarts, Serve, CloseFlag, CloseSocket, vars
<1>13. QED
  BY <1>1, <1>2, <1>3, <1>4, <1>5, <1>6, <1>7, <1>8, <1>9, <1>10, <1>11, <1>12 DEF Next, Read, Call, Late, Close

\* On one thread a step that runs is alone, and the invariant is inductive.
LEMMA InductiveOnOneThread == OneThread => (Spec => []Inv)
<1> SUFFICES ASSUME OneThread PROVE Spec => []Inv
  OBVIOUS
<1>1. Inv /\ IInv' /\ [Next]_vars => Inv'
  BY ResultsKept, SingleKept, OpenKept DEF Inv
<1>2. QED
  BY InitInv, InductiveInvariant, <1>1, PTL DEF Spec

\* On one thread request() does what RequestService says, but for what must
\* happen in the end: however its response, its timeout and the loss of the
\* connection race, a request is ended once, its result is final from then on,
\* and OK comes with a response.
THEOREM Serves == OneThread => (Spec => Service!Init /\ [][Service!Next]_(Service!vars))
<1> SUFFICES ASSUME OneThread PROVE Spec => Service!Init /\ [][Service!Next]_(Service!vars)
  OBVIOUS
<1>1. Init => Service!Init
  <2> SUFFICES ASSUME Init PROVE Service!Init
    OBVIOUS
  <2>1. \A r \in Requests : rq[r] = "idle"
    BY DEF Init
  <2>2. \A r \in Requests : Phase(r) = "idle" /\ ~ Ended(r)
    BY <2>1 DEF Phase, Ended
  <2>3. QED
    BY <2>2 DEF Service!Init
<1>2. Inv /\ [Next]_vars => [Service!Next]_(Service!vars)
  BY StepsServe
<1>3. QED
  BY <1>1, <1>2, InductiveOnOneThread, PTL DEF Spec
=============================================================================
