------------------------------- MODULE FanOut -------------------------------
(***************************************************************************)
(* fan_out_operation (fanout.py): one operation sent to many peers at the  *)
(* same time, by FederationClient.send_operation over a shared pool of     *)
(* connections.  A call is what _call_one awaits; the wire is what becomes *)
(* of its request, which goes on when the call is given up: the peer may   *)
(* execute what is reported as failed.                                     *)
(***************************************************************************)
EXTENDS Integers, FiniteSets, Functions

CONSTANTS
  Peers,
  PoolSize    \* connections httpx opens at the same time

ASSUME FanOutAssumption == PoolSize \in Nat \ {0}

VARIABLES
  fan,       \* where fan_out_operation is, whether its calls are timed, the calls
  wire,      \* the request to each peer and its answer
  executed   \* the peers that have executed the operation

fanVars == <<fan, wire, executed>>

(* The timeout of the caller: None, 0, or more; "if timeout" asks whether  *)
(* it is true, so one of 0 is no timeout.                                  *)
Timeouts == {"none", "zero", "seconds"}
IsTimed(timeout) == timeout = "seconds"

Answers == {"good", "unsigned", "malformed", "http_error"}

(* Fault: an HTTP error is reported by the name of its class. *)
ReasonUnmapped ==
  [good |-> "ok", unsigned |-> "bad_signature", malformed |-> "malformed_response",
   http_error |-> "HTTPStatusError"]

(* _failure_reason, with transport_failure_reason of reasons.py, for what  *)
(* send_operation raises on an answer                                      *)
Reason == [good |-> "ok", unsigned |-> "bad_signature", malformed |-> "malformed_response",
           http_error |-> "http_error"]
CallOutcomes == {"ok", "bad_signature", "malformed_response", "http_error", "timeout", "transport_error"}

FanType ==
  /\ fan \in [pc : {"idle", "calls", "returned"}, timed : BOOLEAN,
              call : [Peers -> {"none", "queued", "sent"} \cup CallOutcomes]]
  /\ wire \in [Peers -> {"none", "request", "trickle"} \cup Answers]
  /\ executed \subseteq Peers

NothingSent == [p \in Peers |-> "none"]
NoCalls == [p \in Peers |-> "none"]
FanIdle == [pc |-> "idle", timed |-> FALSE, call |-> NoCalls]

FanInit == fan = FanIdle /\ wire = NothingSent /\ executed = {}

(* asyncio.gather over the targets *)
FanOutCalled(targets) ==
  /\ fan.pc = "idle"
  /\ \E timeout \in Timeouts :
       fan' = [pc |-> "calls", timed |-> IsTimed(timeout),
               call |-> [p \in Peers |-> IF p \in targets THEN "queued" ELSE "none"]]
  /\ UNCHANGED <<wire, executed>>

(* Peer p's call ends with o. *)
Ends(p, o) == fan' = [fan EXCEPT !.call[p] = o] /\ UNCHANGED <<wire, executed>>

Connected == {p \in Peers : fan.call[p] = "sent"}

(* The request leaves as soon as the pool has a connection. *)
Send(p) ==
  /\ fan.call[p] = "queued" /\ Cardinality(Connected) < PoolSize
  /\ fan' = [fan EXCEPT !.call[p] = "sent"]
  /\ wire' = [wire EXCEPT ![p] = "request"]
  /\ UNCHANGED executed

(* The host of the peer executes the operation and answers; what its       *)
(* answer says about the operation is the business of the hosts.           *)
Execute(p) ==
  /\ wire[p] = "request"
  /\ executed' = executed \cup {p}
  /\ \E a \in Answers \cup {"trickle"} : wire' = [wire EXCEPT ![p] = a]
  /\ UNCHANGED fan

(* It refuses the request, and says so by an HTTP status. *)
Refuse(p) ==
  /\ wire[p] = "request"
  /\ wire' = [wire EXCEPT ![p] = "http_error"]
  /\ UNCHANGED <<fan, executed>>

(* Fault: an HTTP error is not raised. *)
ReceiveAnything(p) ==
  /\ fan.call[p] = "sent" /\ wire[p] \in Answers
  /\ fan' = [fan EXCEPT !.call[p] = "ok"]
  /\ wire' = [wire EXCEPT ![p] = "none"]
  /\ UNCHANGED executed

(* send_operation returns, or raises what it makes of the answer. *)
Receive(p) ==
  /\ fan.call[p] = "sent" /\ wire[p] \in Answers
  /\ fan' = [fan EXCEPT !.call[p] = Reason[wire[p]]]
  /\ wire' = [wire EXCEPT ![p] = "none"]
  /\ UNCHANGED executed

(* The connection breaks; the request may have arrived. *)
Disconnect(p) == fan.call[p] = "sent" /\ Ends(p, "transport_error")

(* httpx gives up: no connection of the pool became free, or the peer was  *)
(* silent.  One that sends a byte now and then is waited for.              *)
ClientTimesOut(p) ==
  /\ fan.call[p] = "queued" \/ (fan.call[p] = "sent" /\ wire[p] = "request")
  /\ Ends(p, "timeout")

(* Fault: the timeout bounds the time to the first byte only. *)
FirstByteTimesOut(p) ==
  /\ fan.timed /\ fan.call[p] \in {"queued", "sent"} /\ wire[p] \in {"none", "request"}
  /\ Ends(p, "timeout")

(* asyncio.wait_for gives up; a timeout of 0 is false and sets no limit. *)
TimesOut(p) ==
  /\ fan.timed /\ fan.call[p] \in {"queued", "sent"}
  /\ Ends(p, "timeout")

(* Fault: the report is made once a call has ended. *)
FanOutReturnsFirst ==
  /\ fan.pc = "calls"
  /\ Range(fan.call) \cap CallOutcomes # {} \/ Range(fan.call) = {"none"}
  /\ fan' = [fan EXCEPT !.pc = "returned"]
  /\ wire' = NothingSent /\ UNCHANGED executed

(* The requests still on the wire are not followed any further. *)
FanOutReturns ==
  /\ fan.pc = "calls"
  /\ \A p \in Peers : fan.call[p] \notin {"queued", "sent"}
  /\ fan' = [fan EXCEPT !.pc = "returned"]
  /\ wire' = NothingSent /\ UNCHANGED executed

FanOutTaken ==
  /\ fan.pc = "returned"
  /\ fan' = FanIdle /\ executed' = {}
  /\ UNCHANGED wire

(* What the event loop and its timers do about a call, and what is up to   *)
(* the peer and the network                                                *)
CallStep(p) == Send(p) \/ Receive(p) \/ ClientTimesOut(p) \/ TimesOut(p)
PeerStep(p) == Execute(p) \/ Refuse(p) \/ Disconnect(p)

FanNext ==
  \/ \E targets \in SUBSET Peers : FanOutCalled(targets)
  \/ \E p \in Peers : CallStep(p) \/ PeerStep(p)
  \/ FanOutReturns \/ FanOutTaken

FanSpec == FanInit /\ [][FanNext]_fanVars
----------------------------------------------------------------------------
(* Properties *)

(* Who is listed in `succeeded' has executed the operation, whatever was   *)
(* late, lost, refused or garbled.  (Who is listed in `failed' may have    *)
(* executed it as well.)                                                   *)
SucceededHasExecuted == \A p \in Peers : fan.call[p] = "ok" => p \in executed

(* "bounds each individual call": a fan-out with a timeout returns, however*)
(* the peers behave; without one, or with one of 0, a peer that sends its  *)
(* answer a byte at a time can hold up the report about all.               *)
FanOutEnds ==
  fan.pc = "calls" ~>
    fan.pc # "calls" \/ (~fan.timed /\ \E p \in Peers : wire[p] = "trickle")

FanReport == INSTANCE Reports WITH
  Items <- Peers, Outcomes <- CallOutcomes, Sources <- {}, MayRaise <- FALSE,
  phase <- IF fan.pc = "calls" THEN "running" ELSE fan.pc,
  batch <- {p \in Peers : fan.call[p] # "none"},
  outcome <- [p \in Peers |-> IF fan.call[p] \in {"queued", "sent"} THEN "none" ELSE fan.call[p]]

(* "Never raises for a peer failure -- every target lands in `succeeded`   *)
(* or `failed`" (fan_out_operation).                                       *)
FanImplementsReports == FanReport!Spec
=============================================================================
