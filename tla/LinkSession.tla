----------------------------- MODULE LinkSession -----------------------------
(* The two stateful decoders of the resident link                          *)
(* (packages/gateway-protocol/src/session.ts) as functions on their state:  *)
(* which frame a session accepts, and what it remembers.  A refusal throws  *)
(* a fatal GatewayProtocolError and ends the link.                          *)
(*                                                                          *)
(* A request id is a fresh random name used once, so a request is named by  *)
(* its operation and its viewer: a viewer id is fresh for every selection   *)
(* and opens, asks for its snapshot, reads its media and closes at most     *)
(* once.  Both peers of this repository offer console, media and identity,  *)
(* so the capability checks always pass; the limit of 128 pending requests  *)
(* and the history of 4096 request ids are not reached by the instances.    *)
EXTENDS Naturals, FiniteSets

CONSTANT MaxViewers        \* LIMITS.viewersPerConnection

Operations == {"viewer.open", "viewer.close", "viewer.snapshot"}

Request(op, v)      == [op |-> op, viewer |-> v]
Busy(pending, v)    == \E q \in pending : q.viewer = v /\ q.op \in Operations

NewGatewaySession  == [hello |-> FALSE, next |-> 1, out |-> 1, pending |-> {}, viewers |-> {}]
NewResidentSession == [ack |-> FALSE, next |-> 1, out |-> 2, pending |-> {}, viewers |-> {}]

(***************************** the Gateway's side ****************************)

CanRegister(g, op, v) ==
  /\ g.hello
  /\ Request(op, v) \notin g.pending
  /\ op \in Operations => ~Busy(g.pending, v)
  /\ op = "viewer.open" => v \notin g.viewers /\ Cardinality(g.viewers) < MaxViewers
  /\ op \in Operations \ {"viewer.open"} => v \in g.viewers

\* Mutant: the viewer is forgotten when its close is asked for, not when it is answered.
registerRequestEager(g, op, v) ==
  [g EXCEPT !.pending = @ \cup {Request(op, v)},
            !.viewers = IF op = "viewer.open" THEN @ \cup {v}
                        ELSE IF op = "viewer.close" THEN @ \ {v} ELSE @]

registerRequest(g, op, v) ==
  [g EXCEPT !.pending = @ \cup {Request(op, v)},
            !.viewers = IF op = "viewer.open" THEN @ \cup {v} ELSE @]

GatewayAccepts(g, f) ==
  /\ f.seq = g.next
  /\ g.hello = (f.type # "hello")
  /\ f.type = "console.output"   => f.viewer \in g.viewers
  /\ f.type = "operation.result" => Request(f.op, f.viewer) \in g.pending
  /\ f.type = "media.result"     => Request("media.get", f.viewer) \in g.pending

\* What a result answers.
Answered(f) ==
  CASE f.type = "operation.result" -> {Request(f.op, f.viewer)}
    [] f.type = "media.result"     -> {Request("media.get", f.viewer)}
    [] OTHER                       -> {}

\* A failed open and a successful close forget the viewer; a failed close does not.
Forgotten(f) ==
  IF /\ f.type = "operation.result"
     /\ \/ f.op = "viewer.open" /\ ~f.ok
        \/ f.op = "viewer.close" /\ f.ok
  THEN {f.viewer} ELSE {}

GatewayReceived(g, f) ==
  [g EXCEPT !.hello = TRUE, !.next = @ + 1,
            !.pending = @ \ Answered(f), !.viewers = @ \ Forgotten(f)]

(**************************** the resident's side ****************************)

Opening(pending) == {q \in pending : q.op = "viewer.open"}

ResidentAccepts(r, f) ==
  /\ f.seq = r.next
  /\ ~r.ack => f.type \in {"hello.ack", "error"}
  /\ r.ack  => f.type # "hello.ack"
  /\ f.type \in Operations => ~Busy(r.pending, f.viewer)
  /\ f.type = "viewer.open" =>
       /\ f.viewer \notin r.viewers
       /\ Cardinality(r.viewers) + Cardinality(Opening(r.pending)) < MaxViewers
  /\ f.type \in (Operations \ {"viewer.open"}) \cup {"console.input"} => f.viewer \in r.viewers

ResidentReceived(r, f) ==
  [r EXCEPT !.ack = @ \/ f.type = "hello.ack", !.next = @ + 1,
            !.pending = IF f.type \in Operations \cup {"media.get"}
                        THEN @ \cup {Request(f.type, f.viewer)} ELSE @]

\* The effects the resident may build, and the session after building one.
CanEmit(r, f) ==
  /\ r.ack
  /\ f.type = "console.output" => f.viewer \in r.viewers
  /\ Answered(f) \subseteq r.pending

Emitted(r, f) ==
  [r EXCEPT !.out = @ + 1, !.pending = @ \ Answered(f),
            !.viewers = IF f.type = "operation.result" /\ f.op = "viewer.open" /\ f.ok
                        THEN @ \cup {f.viewer} ELSE @ \ Forgotten(f)]
=============================================================================
