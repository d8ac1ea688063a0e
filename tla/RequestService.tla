--------------------------- MODULE RequestService ---------------------------
(***************************************************************************)
(* What a caller of RockStream::request is promised, without connections,  *)
(* coroutines and timers: a request is refused at once or accepted; an     *)
(* accepted one is ended once, by whatever comes first, with a result that *)
(* is final from then on; and the caller gets it.  AsyncSocketStream       *)
(* implements this specification.                                          *)
(***************************************************************************)
CONSTANT Requests

VARIABLES
  phase,     \* per request: idle, pending, ended (the caller is scheduled), done
  outcome,   \* what request() returns, "none" before the end
  answered   \* the response the caller finds in the context

vars == <<phase, outcome, answered>>

Init ==
  /\ phase = [r \in Requests |-> "idle"]
  /\ outcome = [r \in Requests |-> "none"]
  /\ answered = [r \in Requests |-> FALSE]

Refuse(r) ==
  /\ phase[r] = "idle"
  /\ phase' = [phase EXCEPT ![r] = "done"]
  /\ outcome' = [outcome EXCEPT ![r] = "NOT_CONNECT"]
  /\ UNCHANGED answered

Accept(r) ==
  /\ phase[r] = "idle"
  /\ phase' = [phase EXCEPT ![r] = "pending"]
  /\ UNCHANGED <<outcome, answered>>

\* A response that lost the race against the timeout may still be there, but
\* success comes with its response.
End(r) ==
  /\ phase[r] = "pending"
  /\ phase' = [phase EXCEPT ![r] = "ended"]
  /\ \E res \in {"OK", "TIMEOUT", "IO_ERROR"}, has \in BOOLEAN :
       /\ res = "OK" => has
       /\ outcome' = [outcome EXCEPT ![r] = res]
       /\ answered' = [answered EXCEPT ![r] = has]

Return(r) ==
  /\ phase[r] = "ended"
  /\ phase' = [phase EXCEPT ![r] = "done"]
  /\ UNCHANGED <<outcome, answered>>

Next == \E r \in Requests : Refuse(r) \/ Accept(r) \/ End(r) \/ Return(r)

Spec ==
  /\ Init /\ [][Next]_vars
  /\ \A r \in Requests : WF_vars(End(r)) /\ WF_vars(Return(r))
=============================================================================
