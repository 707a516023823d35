---------------------------- MODULE ResidentLink ----------------------------
(* Browsers that watch residents through the Gateway, end to end:           *)
(*   browser -- relay and broker (packages/gateway/src/browser-relay.ts,     *)
(*   selected-viewer-broker.ts) -- registry (resident-link-registry.ts) --   *)
(*   socket -- controller (src/gateway-link.ts, gateway-link-runtime.ts) --  *)
(*   bridge (gateway-console-bridge.ts) -- the Console hub (console/hub.ts). *)
(* The sessions at the two ends of the socket are in LinkSession.            *)
(*                                                                           *)
(* The Gateway and each resident are Node processes: one callback runs to    *)
(* its end before the next, so an action is one callback with everything it  *)
(* calls.  A handler is written as a function from a state (the record Now)  *)
(* to the state it leaves, because one callback may walk through several     *)
(* components: a full browser socket makes the broker close the viewer, for  *)
(* which a full resident socket makes the registry drop the link, of which   *)
(* every other broker is told.                                               *)
(*                                                                           *)
(* A WebSocket delivers in order or not at all; a break loses any suffix of  *)
(* both directions.  Payloads are what the Console shows: the number of      *)
(* messages in a snapshot, or the number of one message.                     *)
EXTENDS LinkSession, Sequences, SequencesExt

CONSTANTS
  Residents, Browsers,
  MaxConn,      \* sockets that exist at the same time
  MaxLinks,     \* the registry's maxLinks
  MaxSel,       \* selections of one browser
  MaxMsg,       \* messages of one hub
  MaxAsk,       \* inputs and media requests of one selection, together
  MaxBuffer,    \* maxSnapshotBufferFrames
  MaxFaults     \* stalls, breaks, timeouts, refusals, failed reads, stops

VARIABLES
  conn,         \* the sockets: both ends, both directions, both sessions
  link,         \* GatewayResidentLinkRegistry #links, by resident
  relay,        \* GatewayBrowserRelayConnection with its broker, by browser
  ctl,          \* GatewayLinkController: status and #live
  hub,          \* the Console: messages, the bridge's clients in order, snapshots being built
  enrolled,     \* store.read() is active or rotating
  faults

vars == <<conn, link, relay, ctl, hub, enrolled, faults>>

Conns   == 1 .. MaxConn
NoConn  == 0
Viewers == Browsers \X (1 .. MaxSel)

Opened == [type |-> "open", seq |-> 0]     \* the socket's events, in its stream
Closed == [type |-> "close", seq |-> 0]

Unused == [r |-> "none", g |-> "none", owner |-> CHOOSE r \in Residents : TRUE,
           toG |-> <<>>, toR |-> <<>>, gs |-> NewGatewaySession, rs |-> NewResidentSession]

NoSel  == [conn |-> NoConn, viewer |-> <<>>, phase |-> "idle", busy |-> FALSE,
           asked |-> 0, buf |-> <<>>]
NoView == [viewer |-> <<>>, n |-> 0]

Init ==
  /\ conn = [c \in Conns |-> Unused]
  /\ link = [r \in Residents |-> NoConn]
  /\ relay = [b \in Browsers |->
       [up |-> FALSE, gen |-> 0, sel |-> NoSel, pend |-> {}, shown |-> NoView]]
  /\ ctl = [r \in Residents |-> [status |-> "idle", live |-> NoConn]]
  /\ hub = [r \in Residents |-> [count |-> 0, clients |-> <<>>, snaps |-> {}]]
  /\ enrolled \in [Residents -> BOOLEAN]
  /\ faults = 0

Now == [conn |-> conn, link |-> link, relay |-> relay, ctl |-> ctl, hub |-> hub]

\* A socket that both ends have left is gone; its name is used again.
Tidy(k) == IF k.r = "gone" /\ k.g = "gone" THEN Unused
           ELSE [k EXCEPT !.toR = IF k.r = "gone" THEN <<>> ELSE @,
                          !.toG = IF k.g = "gone" THEN <<>> ELSE @]

Becomes(s) ==
  /\ \E t \in {s} :
       /\ conn' = [c \in Conns |-> Tidy(t.conn[c])]
       /\ link' = t.link /\ relay' = t.relay /\ ctl' = t.ctl /\ hub' = t.hub
  /\ UNCHANGED enrolled

Fault(happens) ==
  /\ happens => faults < MaxFaults
  /\ faults' = faults + (IF happens THEN 1 ELSE 0)

(****************************** the registry *********************************)

Live(s, c) == c # NoConn /\ s.conn[c].g \in {"hello", "ready"} /\ s.link[s.conn[c].owner] = c

\* Mutant: the broker forgets the requests of the link, and keeps the selection.
DropLinkHalf(y, c) == [y EXCEPT !.pend = {q \in @ : q.conn # c}]

\* Every broker is told that the link is gone.
DropLink(y, c) ==
  [y EXCEPT !.sel = IF @.conn = c THEN NoSel ELSE @,
            !.pend = {q \in @ : q.conn # c}]

remove(s, c) ==
  [s EXCEPT !.link[s.conn[c].owner] = NoConn, !.conn[c].g = "gone",
            !.relay = [b \in Browsers |-> DropLink(s.relay[b], c)]]

terminate(s, c) ==
  IF Live(s, c) THEN [remove(s, c) EXCEPT !.conn[c].toR = Append(@, Closed)] ELSE s

ToResident(s, c, f) ==
  [s EXCEPT !.conn[c].toR = Append(@, f @@ [seq |-> s.conn[c].gs.out]),
            !.conn[c].gs.out = @ + 1]

\* out: the socket takes the frame, its buffer is full, or it is not open any more.
Outs == {"sent", "full", "dead"}

sendEffect(s, c, f, out) ==
  LET asks == f.type \in Operations \cup {"media.get"}
      known == IF asks THEN [s EXCEPT !.conn[c].gs = registerRequest(@, f.type, f.viewer)] ELSE s
  IN CASE \/ ~Live(s, c) \/ s.conn[c].g # "ready" \/ out = "full"
          \/ asks /\ ~CanRegister(s.conn[c].gs, f.type, f.viewer) -> [ok |-> FALSE, s |-> s]
       [] OTHER -> IF out = "dead" THEN [ok |-> FALSE, s |-> terminate(known, c)]
                   ELSE [ok |-> TRUE, s |-> ToResident(known, c, f)]

(******************************* the broker **********************************)

Frame(type, v) == [type |-> type, viewer |-> v]

Pending(y, op, v, c) == [y EXCEPT !.pend = @ \cup {[op |-> op, viewer |-> v, conn |-> c]}]

\* #retire and #fail: forget the selection, then close its viewer; while an
\* operation is outstanding no close may be sent, and the link is dropped.
Release(s, b, out) ==
  LET x == s.relay[b].sel
      left == [s EXCEPT !.relay[b].sel = NoSel,
                        !.relay[b].pend = {q \in @ : q.viewer # x.viewer}]
      asked == [left EXCEPT !.relay[b] = Pending(@, "viewer.close", x.viewer, x.conn)]
      close == sendEffect(asked, x.conn, Frame("viewer.close", x.viewer), out)
  IN IF x = NoSel THEN s
     ELSE IF x.busy THEN terminate(left, x.conn)
     ELSE IF close.ok THEN close.s ELSE terminate(close.s, x.conn)

disconnect(s, b, out) ==
  [Release(s, b, out) EXCEPT !.relay[b].up = FALSE, !.relay[b].sel = NoSel,
                             !.relay[b].pend = {}, !.relay[b].shown = NoView]

\* A browser socket that cannot take a frame ends the relay after the callback.
AfterSend(s, b, room, out) == IF room THEN s ELSE disconnect(s, b, out)

\* Start an operation of the selected viewer.
Operate(s, b, op, out) ==
  LET x == s.relay[b].sel
      asked == [s EXCEPT !.relay[b] = Pending([@ EXCEPT !.sel.busy = TRUE], op, x.viewer, x.conn)]
      sent == sendEffect(asked, x.conn, Frame(op, x.viewer), out)
  IN IF sent.ok THEN sent.s ELSE Release(sent.s, b, out)

beginSnapshot(s, b, out) ==
  Operate([s EXCEPT !.relay[b].sel.phase = "snapshotting", !.relay[b].sel.buf = <<>>],
          b, "viewer.snapshot", out)

\* What the browser shows after a console frame.
Show(view, f) ==
  CASE f.what = "snapshot" -> [viewer |-> f.viewer, n |-> f.n]
    [] f.what = "message" /\ view.viewer = f.viewer /\ f.n = view.n + 1 -> [view EXCEPT !.n = @ + 1]
    [] OTHER -> view

completeSnapshot(s, b, room, out) ==
  LET x == s.relay[b].sel IN
  IF x.buf # <<>> /\ ~room THEN Release(s, b, out)
  ELSE [s EXCEPT !.relay[b].shown = FoldLeft(Show, @, x.buf),
                 !.relay[b].sel.buf = <<>>, !.relay[b].sel.phase = "ready"]

console(s, b, c, f, room, out) ==
  LET x == s.relay[b].sel IN
  CASE x.viewer # f.viewer \/ x.conn # c \/ x.phase = "opening" -> s
    [] x.phase = "snapshotting" /\ Len(x.buf) >= MaxBuffer -> Release(s, b, out)
    [] x.phase = "snapshotting" -> [s EXCEPT !.relay[b].sel.buf = Append(@, f)]
    [] OTHER -> IF room THEN [s EXCEPT !.relay[b].shown = Show(@, f)] ELSE Release(s, b, out)

OperationResult(s, b, f, room, out) ==
  LET idle == [s EXCEPT !.relay[b].sel.busy = FALSE] IN
  CASE s.relay[b].sel.viewer # f.viewer -> s
    [] ~f.ok -> IF f.op = "viewer.open" THEN [s EXCEPT !.relay[b].sel = NoSel]
                ELSE Release(idle, b, out)
    [] f.op = "viewer.open" -> beginSnapshot(idle, b, out)
    [] OTHER -> completeSnapshot(idle, b, room, out)

mediaResult(s, b, f, room, out) ==
  IF s.relay[b].sel.viewer = f.viewer /\ ~room THEN Release(s, b, out) ELSE s

\* The frame reaches the broker whose browser made the viewer; a result whose
\* request the broker has forgotten is dropped.
handleResidentFrame(s, c, f, room, out) ==
  LET b == f.viewer[1]
      q == {[op |-> a.op, viewer |-> a.viewer, conn |-> c] : a \in Answered(f)}
      took == [s EXCEPT !.relay[b].pend = @ \ q]
  IN CASE ~s.relay[b].up -> s
       [] f.type = "console.output" -> console(s, b, c, f, room, out)
       [] ~(q \subseteq s.relay[b].pend) -> s
       [] f.type = "operation.result" -> OperationResult(took, b, f, room, out)
       [] OTHER -> mediaResult(took, b, f, room, out)

(************************** the Gateway's callbacks **************************)

\* A new browser socket gets a relay with a fresh broker.
OpenRelay(b) ==
  /\ ~relay[b].up /\ relay[b].gen < MaxSel
  /\ Fault(FALSE)
  /\ Becomes([Now EXCEPT !.relay[b].up = TRUE])

\* viewer.select: only a link that is ready; another selection is retired first.
select(b, r) == \E room \in BOOLEAN, old, out \in Outs :
  LET c == link[r]
      v == <<b, relay[b].gen + 1>>
      left == Release(Now, b, old)
      new == [left EXCEPT !.relay[b].gen = @ + 1,
                !.relay[b].sel = [NoSel EXCEPT !.conn = c, !.viewer = v, !.phase = "opening"]]
  IN /\ relay[b].up /\ relay[b].gen < MaxSel
     /\ c # NoConn /\ conn[c].g = "ready" /\ relay[b].sel.conn # c
     /\ old = "sent" \/ (relay[b].sel # NoSel /\ out = "sent")
     /\ Fault(~room \/ old # "sent" \/ out # "sent")
     /\ Becomes(AfterSend(Operate(new, b, "viewer.open", out), b, room, out))

deselect(b) == \E room \in BOOLEAN, out \in Outs :
  /\ relay[b].sel # NoSel
  /\ Fault(~room \/ out # "sent")
  /\ Becomes(AfterSend(Release(Now, b, out), b, room, out))

\* console.input of the browser, once its snapshot is complete.
input(b) == \E out \in Outs :
  LET x == relay[b].sel
      sent == sendEffect(Now, x.conn, Frame("console.input", x.viewer), out)
  IN /\ x.phase = "ready" /\ x.asked < MaxAsk
     /\ Fault(out # "sent")
     /\ Becomes(IF sent.ok THEN [sent.s EXCEPT !.relay[b].sel.asked = @ + 1]
                ELSE Release(sent.s, b, out))

media(b) == \E out \in Outs :
  LET x == relay[b].sel
      asked == [Now EXCEPT !.relay[b] = Pending([@ EXCEPT !.sel.asked = @ + 1],
                                                "media.get", x.viewer, x.conn)]
      sent == sendEffect(asked, x.conn, Frame("media.get", x.viewer), out)
  IN /\ x.phase = "ready" /\ x.asked < MaxAsk
     /\ Fault(out # "sent")
     /\ Becomes(IF sent.ok THEN sent.s ELSE Release(sent.s, b, out))

\* The browser's socket ends.
Leave(b) == \E out \in Outs :
  /\ relay[b].up
  /\ Fault(out # "sent")
  /\ Becomes(disconnect(Now, b, out))

\* The upgrade: authentication and rate limit may refuse it; the registry
\* refuses a second link of a resident and links over its capacity.
Registered == {r \in Residents : link[r] # NoConn}

admissionRejection(r) == link[r] # NoConn \/ Cardinality(Registered) >= MaxLinks

handleUpgrade(c) == \E refused \in BOOLEAN :
  LET r == conn[c].owner
      no == refused \/ admissionRejection(r)
  IN /\ conn[c].g = "none" /\ conn[c].r # "none"
     /\ Fault(refused)
     /\ Becomes(IF no THEN [Now EXCEPT !.conn[c].g = "gone", !.conn[c].toR = <<Closed>>]
                ELSE [Now EXCEPT !.conn[c].g = "hello", !.conn[c].toR = <<Opened>>,
                                 !.link[r] = c])

\* A protocol failure: a fatal error frame, then the close.
fatal(s, c) == terminate(ToResident(s, c, [type |-> "error"]), c)

greeted(s, c, out) ==
  IF out = "sent" THEN [ToResident(s, c, [type |-> "hello.ack"]) EXCEPT !.conn[c].g = "ready"]
  ELSE terminate(s, c)

receiveText(c) == \E room \in BOOLEAN, out \in Outs :
  LET f == Head(conn[c].toG)
      took == [Now EXCEPT !.conn[c].toG = Tail(@), !.conn[c].gs = GatewayReceived(@, f)]
  IN /\ Live(Now, c) /\ conn[c].toG # <<>> /\ f # Closed
     /\ Fault(~room \/ out # "sent")
     /\ Becomes(IF ~GatewayAccepts(conn[c].gs, f) THEN fatal(Now, c)
                ELSE IF f.type = "hello" THEN greeted(took, c, out)
                ELSE AfterSend(handleResidentFrame(took, c, f, room, out), f.viewer[1], room, out))

\* Mutant: the socket is gone, its registration stays.
peerClosedForgotten(c) ==
  /\ Live(Now, c) /\ conn[c].toG # <<>> /\ Head(conn[c].toG) = Closed
  /\ Fault(FALSE)
  /\ Becomes([remove(Now, c) EXCEPT !.link[conn[c].owner] = c])

peerClosed(c) ==
  /\ Live(Now, c) /\ conn[c].toG # <<>> /\ Head(conn[c].toG) = Closed
  /\ Fault(FALSE)
  /\ Becomes(remove(Now, c))

\* The resident's hello is late.
handshakeTimeout(c) ==
  /\ conn[c].g = "hello"
  /\ Fault(TRUE)
  /\ Becomes(fatal(Now, c))

\* The service stops (relays first, then the registry) and is started again.
StopRelay(s, b) == disconnect(s, b, "sent")
StopLink(s, r) == IF s.link[r] = NoConn THEN s ELSE terminate(s, s.link[r])

GatewayRestarts == \E order \in SetToSeqs(Browsers) :
  /\ Fault(TRUE)
  /\ Becomes(FoldLeft(StopLink, FoldLeft(StopRelay, Now, order), SetToSeq(Residents)))

(************************* the resident's callbacks **************************)

\* Mutant: the bridge is not told that the attempt ended.
attemptFailedAttached(s, r) ==
  LET c == s.ctl[r].live IN
  [s EXCEPT !.conn[c].r = "gone", !.conn[c].toG = Append(@, Closed),
            !.ctl[r] = [status |-> "backoff", live |-> NoConn]]

\* #attemptFailed: the bridge detaches every viewer when the status leaves ready.
attemptFailed(s, r) ==
  LET c == s.ctl[r].live IN
  [s EXCEPT !.conn[c].r = "gone", !.conn[c].toG = Append(@, Closed),
            !.ctl[r] = [status |-> "backoff", live |-> NoConn],
            !.hub[r].clients = <<>>, !.hub[r].snaps = {}]

\* #writeEffect: the session numbers the frame, then the socket takes it or the
\* attempt fails.
writeEffect(s, r, f, room) ==
  LET c == s.ctl[r].live IN
  IF c = NoConn \/ ~CanEmit(s.conn[c].rs, f) THEN s
  ELSE IF room THEN [s EXCEPT !.conn[c].toG = Append(@, f @@ [seq |-> s.conn[c].rs.out]),
                              !.conn[c].rs = Emitted(@, f)]
  ELSE attemptFailed(s, r)

Result(op, v, ok) == [type |-> "operation.result", op |-> op, viewer |-> v, ok |-> ok]
Output(v, what, n) == [type |-> "console.output", viewer |-> v, what |-> what, n |-> n]

\* start(), and the controller's timer: a new attempt, when the store is enrolled.
drive(r) == \E local \in BOOLEAN :
  LET free == {c \in Conns : conn[c] = Unused}
      c == CHOOSE c \in free : \A d \in free : c <= d
  IN /\ ctl[r].status \in {"idle", "waiting_for_enrollment", "backoff"}
     /\ enrolled[r] => free # {}
     /\ Fault(local)
     /\ Becomes(CASE local -> [Now EXCEPT !.ctl[r].status = "faulted"]
                  [] ~local /\ ~enrolled[r] -> [Now EXCEPT !.ctl[r].status = "waiting_for_enrollment"]
                  [] ~local /\ enrolled[r] ->
                       [Now EXCEPT !.ctl[r] = [status |-> "connecting", live |-> c],
                                   !.conn[c].r = "dialing", !.conn[c].owner = r])

\* External: the enrollment completes (GatewayCredentials).
Enroll(r) ==
  /\ ~enrolled[r]
  /\ enrolled' = [enrolled EXCEPT ![r] = TRUE]
  /\ UNCHANGED <<conn, link, relay, ctl, hub, faults>>

opened(c) == \E room \in BOOLEAN :
  LET r == conn[c].owner
      up == [Now EXCEPT !.conn[c].r = "open", !.conn[c].toR = Tail(@),
                        !.ctl[r].status = "handshaking"]
  IN /\ conn[c].r = "dialing" /\ conn[c].toR # <<>> /\ Head(conn[c].toR) = Opened
     /\ Fault(~room)
     /\ Becomes(IF room THEN [up EXCEPT !.conn[c].toG = Append(@, [type |-> "hello", seq |-> 1])]
                ELSE attemptFailed(up, r))

\* The socket ends, or the upgrade is refused.
transportEnded(c) ==
  /\ conn[c].r \in {"dialing", "open"} /\ conn[c].toR # <<>>
  /\ Head(conn[c].toR) = Closed
  /\ Fault(FALSE)
  /\ Becomes(attemptFailed(Now, conn[c].owner))

LinkTimeout(r) ==
  /\ ctl[r].status \in {"connecting", "handshaking"}
  /\ Fault(TRUE)
  /\ Becomes(attemptFailed(Now, r))

\* GatewayConsoleBridge.handleFrame and the hub behind it.
Detached(s, r, v) == [s EXCEPT !.hub[r].clients = Remove(@, v), !.hub[r].snaps = {x \in @ : x.viewer # v}]

bridgeOpen(s, r, v, room) ==
  LET told == writeEffect(s, r, Result("viewer.open", v, TRUE), room) IN
  IF ~room THEN told
  ELSE [told EXCEPT !.hub[r].clients = Append(@, v),
                    !.hub[r].snaps = @ \cup {[viewer |-> v, stage |-> "attach"]}]

bridgeClose(s, r, v, room) ==
  writeEffect(Detached(s, r, v), r, Result("viewer.close", v, v \in Range(s.hub[r].clients)), room)

\* Mutant: the result does not wait for the snapshot it reports.
bridgeSnapshotEarly(s, r, v, room) ==
  writeEffect(s, r, Result("viewer.snapshot", v, v \in Range(s.hub[r].clients)), room)

\* The explicit snapshot supersedes the one that addClient started.
bridgeSnapshot(s, r, v, room) ==
  IF v \in Range(s.hub[r].clients)
  THEN [s EXCEPT !.hub[r].snaps = {x \in @ : x.viewer # v} \cup {[viewer |-> v, stage |-> "asked"]}]
  ELSE writeEffect(s, r, Result("viewer.snapshot", v, FALSE), room)

\* The hub's answer to an input frame (a page of history) goes to its client only.
bridgeInput(s, r, v, room) ==
  IF v \in Range(s.hub[r].clients) THEN writeEffect(s, r, Output(v, "history", 0), room) ELSE s

handleFrame(s, r, f, room) ==
  CASE f.type = "hello.ack"       -> [s EXCEPT !.ctl[r].status = "ready"]
    [] f.type = "viewer.open"     -> bridgeOpen(s, r, f.viewer, room)
    [] f.type = "viewer.close"    -> bridgeClose(s, r, f.viewer, room)
    [] f.type = "viewer.snapshot" -> bridgeSnapshot(s, r, f.viewer, room)
    [] f.type = "console.input"   -> bridgeInput(s, r, f.viewer, room)
    [] f.type = "media.get"       -> s

message(c) == \E room \in BOOLEAN :
  LET r == conn[c].owner
      f == Head(conn[c].toR)
      took == [Now EXCEPT !.conn[c].toR = Tail(@), !.conn[c].rs = ResidentReceived(@, f)]
      fails == f.type = "error" \/ ~ResidentAccepts(conn[c].rs, f)
  IN /\ conn[c].r = "open" /\ conn[c].toR # <<>> /\ f # Closed
     /\ Fault(~room)
     /\ Becomes(IF fails THEN attemptFailed(Now, r) ELSE handleFrame(took, r, f, room))

\* sendSnapshot after its awaits.  The write succeeds, or the link has no room,
\* or the payload is over its limit and the client is dropped, or a source of the
\* snapshot throws.
sendSnapshot(r, x) == \E how \in {"sent", "stalls", "oversize", "throws"} :
  LET v == x.viewer
      built == [Now EXCEPT !.hub[r].snaps = @ \ {x}]
      then(stage) == IF x.stage = "attach" THEN {} ELSE {[viewer |-> v, stage |-> stage]}
  IN /\ x \in hub[r].snaps /\ x.stage \in {"attach", "asked"}
     /\ Fault(how # "sent")
     /\ Becomes(CASE how = "sent" ->
                       [writeEffect(built, r, Output(v, "snapshot", hub[r].count), TRUE)
                          EXCEPT !.hub[r].snaps = @ \cup then("told")]
                  [] how = "stalls" -> attemptFailed(built, r)
                  [] how = "oversize" -> Detached(built, r, v)
                  [] how = "throws" -> [Detached(built, r, v)
                                          EXCEPT !.hub[r].snaps = @ \cup then("failed")])

\* The bridge's continuation: the result follows the snapshot it reports.  A
\* client dropped in between has taken the continuation's entry with it.
snapshotResult(r, x) == \E room \in BOOLEAN :
  LET v == x.viewer
      done == [Now EXCEPT !.hub[r].snaps = @ \ {x}]
  IN /\ x \in hub[r].snaps /\ x.stage \in {"told", "failed"}
     /\ Fault(~room)
     /\ Becomes(writeEffect(done, r, Result("viewer.snapshot", v, x.stage = "told"), room))

\* A message reaches the history: every client is sent it.
messageAppended(r) == \E how \in {"sent", "stalls", "oversize"} :
  LET next == [Now EXCEPT !.hub[r].count = @ + 1]
      tell(s, v) == writeEffect(s, r, Output(v, "message", next.hub[r].count), TRUE)
      drop(s, v) == Detached(s, r, v)
  IN /\ hub[r].count < MaxMsg
     /\ how # "sent" => hub[r].clients # <<>>
     /\ Fault(how # "sent")
     /\ Becomes(CASE how = "sent"     -> FoldLeft(tell, next, hub[r].clients)
                  [] how = "stalls"   -> attemptFailed(next, r)
                  [] how = "oversize" -> FoldLeft(drop, next, hub[r].clients))

readMedia(r, v) == \E room \in BOOLEAN :
  /\ ctl[r].live # NoConn /\ Request("media.get", v) \in conn[ctl[r].live].rs.pending
  /\ Fault(~room)
  /\ Becomes(writeEffect(Now, r, [type |-> "media.result", viewer |-> v], room))

stop(r) ==
  /\ ctl[r].status # "stopped"
  /\ Fault(TRUE)
  /\ LET s == IF ctl[r].live = NoConn THEN Now ELSE attemptFailed(Now, r)
     IN Becomes([s EXCEPT !.ctl[r].status = "stopped"])

(******************************** the network ********************************)

\* Each direction loses what it holds, or delivers it first.  (A break that
\* delivers a part is one that comes after that part was received.)
Cut(q, n) == Append(SubSeq(q, 1, n), Closed)

Break(c) ==
  /\ conn[c].r \in {"dialing", "open"} /\ conn[c].g \in {"hello", "ready"}
  /\ Fault(TRUE)
  /\ \E n \in {0, Len(conn[c].toG)}, m \in {0, Len(conn[c].toR)} :
       Becomes([Now EXCEPT !.conn[c].toG = Cut(@, n), !.conn[c].toR = Cut(@, m)])

(****************************** specification ********************************)

BrowserStep(b)  == OpenRelay(b) \/ deselect(b) \/ input(b) \/ media(b) \/ Leave(b)
                   \/ \E r \in Residents : select(b, r)
SocketStep(c)   == handleUpgrade(c) \/ receiveText(c) \/ peerClosed(c)
                   \/ opened(c) \/ message(c) \/ transportEnded(c)
HubStep(r)      == \/ \E x \in hub[r].snaps : sendSnapshot(r, x) \/ snapshotResult(r, x)
                   \/ \E v \in Viewers : readMedia(r, v)
ResidentStep(r) == drive(r) \/ Enroll(r) \/ LinkTimeout(r) \/ stop(r) \/ messageAppended(r)

Next ==
  \/ \E b \in Browsers : BrowserStep(b)
  \/ \E c \in Conns : SocketStep(c) \/ handshakeTimeout(c) \/ Break(c)
  \/ \E r \in Residents : HubStep(r) \/ ResidentStep(r)
  \/ GatewayRestarts

Spec == Init /\ [][Next]_vars

\* The event loops run their ready callbacks, timers fire and reads end; no
\* browser, user, message or fault need ever come.  Each condition follows from
\* the weak fairness of a callback: while there is something for it to do it
\* does not stay undone.
Idle(r) == ctl[r].status \in {"idle", "waiting_for_enrollment", "backoff"} /\ enrolled[r]
           /\ \E c \in Conns : conn[c] = Unused

Fairness ==
  /\ \A c \in Conns :
       /\ \/ []<>~(conn[c].g = "none" /\ conn[c].r # "none")
          \/ []<><<conn'[c].g # conn[c].g>>_vars
       /\ \/ []<>~(Live(Now, c) /\ conn[c].toG # <<>>)
          \/ []<><<<<conn[c].g, conn[c].gs.next>>' # <<conn[c].g, conn[c].gs.next>>>>_vars
       /\ \/ []<>~(conn[c].r \in {"dialing", "open"} /\ conn[c].toR # <<>>)
          \/ []<><<<<conn[c].r, conn[c].rs.next>>' # <<conn[c].r, conn[c].rs.next>>>>_vars
  /\ \A r \in Residents :
       /\ []<>~Idle(r) \/ []<><<ctl'[r].status # ctl[r].status>>_vars
       /\ []<>(hub[r].snaps = {}) \/ []<><<hub'[r].snaps # hub[r].snaps>>_vars

FairSpec == Spec /\ Fairness

(******************************** properties *********************************)

TypeOK ==
  /\ \A c \in Conns : /\ conn[c].r \in {"none", "dialing", "open", "gone"}
                       /\ conn[c].g \in {"none", "hello", "ready", "gone"}
                       /\ conn[c].gs.viewers \cup conn[c].rs.viewers \subseteq Viewers
  /\ link \in [Residents -> {NoConn} \cup Conns]
  /\ \A b \in Browsers : relay[b].sel.phase \in {"idle", "opening", "snapshotting", "ready"}
  /\ \A r \in Residents : Range(hub[r].clients) \subseteq Viewers
  /\ faults \in 0 .. MaxFaults

Waiting(q) == q # <<>> /\ Head(q) # Closed

\* session.ts: whatever the two ends, the browsers and the network do, the next
\* frame of a live socket is one its receiver's session accepts (sequence
\* number, handshake state, correlation, viewer set): no fatal protocol error.
NextFrameAccepted == \A c \in Conns :
  /\ Live(Now, c) /\ Waiting(conn[c].toG) => GatewayAccepts(conn[c].gs, Head(conn[c].toG))
  /\ conn[c].r = "open" /\ Waiting(conn[c].toR) => ResidentAccepts(conn[c].rs, Head(conn[c].toR))

Intact(c) == conn[c].r = "open" /\ Live(Now, c)
             /\ Closed \notin Range(conn[c].toG) \cup Range(conn[c].toR)
InFlight(c, v) == Len(SelectSeq(conn[c].toG, LAMBDA f :
                    f.type = "console.output" /\ f.viewer = v /\ f.what = "message"))

\* selected-viewer-broker.ts, the snapshot barrier: a browser whose selection is
\* ready shows the history of the resident it selected, up to the message frames
\* that are still in the socket; none is lost, repeated or of another viewer.
ViewIsCurrent == \A b \in Browsers :
  LET x == relay[b].sel IN
  (x.phase = "ready" /\ Intact(x.conn) /\ x.viewer \in Range(hub[conn[x.conn].owner].clients))
  => /\ relay[b].shown.viewer = x.viewer
     /\ relay[b].shown.n + InFlight(x.conn, x.viewer) = hub[conn[x.conn].owner].count

\* gateway-console-bridge.ts: a hub client is a viewer of the current link on
\* both ends, and a broker still selects it or has asked for its close.
NoGhostClient == \A r \in Residents : \A v \in Range(hub[r].clients) :
  LET c == ctl[r].live IN
  /\ c # NoConn /\ v \in conn[c].rs.viewers
  /\ Intact(c) => /\ v \in conn[c].gs.viewers
                  /\ \/ relay[v[1]].sel.viewer = v
                     \/ Request("viewer.close", v) \in conn[c].gs.pending

Settled(b, v) == relay[b].sel.viewer # v \/ relay[b].sel.phase = "ready"

\* The client was dropped for an oversize payload: its snapshot gets no answer.
Unanswered(v) == \E r \in Residents :
  LET c == ctl[r].live IN
  /\ c # NoConn /\ Request("viewer.snapshot", v) \in conn[c].rs.pending
  /\ v \notin Range(hub[r].clients) /\ \A x \in hub[r].snaps : x.viewer # v

\* selected-viewer-broker.ts: a selection becomes ready or ends, unless the
\* resident dropped its client without an answer.
SelectionSettles == \A v \in Viewers : ~Settled(v[1], v) ~> Settled(v[1], v) \/ Unanswered(v)

\* gateway-link.ts: a resident that lost its link is ready again, unless it is
\* stopped or met a local fault; the Gateway's stale registration does not keep
\* it out for ever.
Reconnects == \A r \in Residents :
  ctl[r].status \in {"connecting", "handshaking", "backoff"}
    ~> ctl[r].status \in {"ready", "stopped", "faulted"}

=============================================================================
