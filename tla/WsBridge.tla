------------------------------ MODULE WsBridge ------------------------------
(***************************************************************************)
(* One WebSocket connection through the gateway: bridgeUpstreamWebSocket   *)
(* in apps/gateway/src/gateway.ts and realtimeWebSocketHandler in          *)
(* realtime.ts.                                                            *)
(*                                                                         *)
(* The gateway dials the upstream first and upgrades the client only when  *)
(* that succeeded.  On a connection to the proxy, text frames go through a *)
(* promise chain, because a frame that asks for a compaction is answered   *)
(* by an awaited HTTP request; on the other routes, and for binary frames, *)
(* the message handler sends at once.                                      *)
(*                                                                         *)
(* Bun runs the close handler of a client socket inside ws.close(), so     *)
(* closing the client and handling that is one step here.  The upstream is *)
(* "closing" from the moment its readyState leaves OPEN until its close    *)
(* event is dispatched.  Frames are numbered as they come; the handshake   *)
(* queue of the code stays empty because an upstream is never CONNECTING   *)
(* after the dial.                                                         *)
(***************************************************************************)
EXTENDS Integers, Sequences

CONSTANT MaxFrames      \* bound on the frames a client sends

ASSUME MaxFramesAssumption == MaxFrames \in Nat

VARIABLES
    route,      \* routeKind of the connection; "realtime" has none
    stage,      \* how far bridgeUpstreamWebSocket came
    client,     \* the client's request, then its socket
    upstream,   \* readyState of the upstream socket
    relaying,   \* the upstream's onmessage, onerror and onclose are set
    received,   \* the kinds of the text frames received
    chain,      \* responseFrameQueue: numbers of the frames it holds
    summary,    \* the frame whose summary is awaited, 0 if none
    passed,     \* numbers of the text frames that took effect
    binaries,   \* how many binary frames were received
    log         \* the reference to the log file

sockets == <<stage, client, upstream, relaying>>
frames  == <<received, chain, summary, passed, binaries>>
wsVars    == <<route, sockets, frames, log>>

Routes == {"official", "cliproxy", "realtime"}

(* "plain": forwarded on every route.  "prefixed": names a proxy model.    *)
(* "local": names the model of a plugin.  "trigger": asks for compaction   *)
(* of a conversation with a model that is not a GPT model.                 *)
Kinds == {"plain", "prefixed", "local", "trigger"}

WsInit ==
    /\ route \in Routes
    /\ stage = "dialing" /\ client = "waiting" /\ upstream = "connecting"
    /\ relaying = FALSE
    /\ received = <<>> /\ chain = <<>> /\ summary = 0 /\ passed = <<>> /\ binaries = 0
    /\ log = "held"

-----------------------------------------------------------------------------
(* socket.close(): an open socket starts to close. *)
Closing(state) == IF state \in {"connecting", "open"} THEN "closing" ELSE state

(* ws.close and the close handler it runs: the upstream is closed and the  *)
(* log released; nothing happens when the client is already closed.        *)
CloseClient ==
    IF client = "open"
    THEN client' = "closed" /\ upstream' = Closing(upstream) /\ log' = "released"
    ELSE UNCHANGED <<client, upstream, log>>

-----------------------------------------------------------------------------
(* dialUpstreamWebSocket: open, error or the timeout settles it. *)
DialSucceeds ==
    /\ stage = "dialing"
    /\ stage' = "dialed" /\ upstream' = "open"
    /\ UNCHANGED <<route, client, relaying, frames, log>>

DialFails ==
    /\ stage = "dialing"
    /\ stage' = "refused" /\ upstream' = "closing"
    /\ client' = IF client = "waiting" THEN "answered" ELSE client
    /\ log' = "released"
    /\ UNCHANGED <<route, relaying, frames>>

(* The client goes away while its upgrade request is pending. *)
ClientAborts ==
    /\ client = "waiting"
    /\ client' = "gone"
    /\ UNCHANGED <<route, stage, upstream, relaying, frames, log>>

(* Variant: the open handler does not look at the upstream. *)
UpgradeUnchecked ==
    /\ stage = "dialed" /\ client = "waiting"
    /\ stage' = "bridged"
    /\ client' = "open" /\ relaying' = TRUE
    /\ UNCHANGED <<route, upstream, frames, log>>

(* server.upgrade succeeds and runs the open handler. *)
Upgrade ==
    /\ stage = "dialed" /\ client = "waiting"
    /\ stage' = "bridged"
    /\ IF upstream = "open"
       THEN client' = "open" /\ relaying' = TRUE /\ UNCHANGED <<upstream, log>>
       ELSE client' = "closed" /\ log' = "released" /\ UNCHANGED <<upstream, relaying>>
    /\ UNCHANGED <<route, frames>>

(* Variant: the dialled upstream is forgotten when the upgrade fails. *)
UpgradeFailsOpen ==
    /\ stage = "dialed" /\ client = "gone"
    /\ stage' = "refused"
    /\ log' = "released"
    /\ UNCHANGED <<route, client, upstream, relaying, frames>>

UpgradeFails ==
    /\ stage = "dialed" /\ client = "gone"
    /\ stage' = "refused"
    /\ upstream' = Closing(upstream)
    /\ log' = "released"
    /\ UNCHANGED <<route, client, relaying, frames>>

(* The upstream closes or fails ... *)
UpstreamDrops ==
    /\ upstream = "open"
    /\ upstream' = "closing"
    /\ UNCHANGED <<route, stage, client, relaying, frames, log>>

(* ... and its error and close events reach the handlers, if any are set. *)
UpstreamClosed ==
    /\ upstream = "closing"
    /\ upstream' = "closed"
    /\ IF relaying /\ client = "open"
       THEN client' = "closed" /\ log' = "released"
       ELSE UNCHANGED <<client, log>>
    /\ UNCHANGED <<route, stage, relaying, frames>>

ClientCloses ==
    /\ client = "open"
    /\ CloseClient
    /\ UNCHANGED <<route, stage, relaying, frames>>

-----------------------------------------------------------------------------
(* The message handler.                                                    *)

CanReceive == client = "open" /\ Len(received) + binaries < MaxFrames

(* checkFrameRouting: a plugin's model is refused on every Responses       *)
(* connection, a proxy model on a connection to the official upstream.     *)
Misrouted(kind) ==
    \/ kind = "local" /\ route # "realtime"
    \/ kind = "prefixed" /\ route = "official"

(* Reconnect and reject: both sockets are closed. *)
RefuseFrame(kind) ==
    /\ CanReceive /\ Misrouted(kind)
    /\ received' = Append(received, kind)
    /\ CloseClient
    /\ UNCHANGED <<route, stage, relaying, chain, summary, passed, binaries>>

(* The frame joins the promise chain of the connection. *)
ChainFrame(kind) ==
    /\ CanReceive /\ ~Misrouted(kind) /\ route = "cliproxy"
    /\ received' = Append(received, kind)
    /\ chain' = Append(chain, Len(received) + 1)
    /\ UNCHANGED <<route, sockets, summary, passed, binaries, log>>

(* A frame that is sent at once, or closes a client whose upstream left. *)
RelayFrame(kind) ==
    /\ CanReceive /\ ~Misrouted(kind) /\ route # "cliproxy"
    /\ received' = Append(received, kind)
    /\ IF upstream = "open"
       THEN passed' = Append(passed, Len(received) + 1) /\ UNCHANGED <<client, upstream, log>>
       ELSE passed' = passed /\ CloseClient
    /\ UNCHANGED <<route, stage, relaying, chain, summary, binaries>>

RelayBinary ==
    /\ CanReceive
    /\ binaries' = binaries + 1
    /\ IF upstream = "open" THEN UNCHANGED <<client, upstream, log>> ELSE CloseClient
    /\ UNCHANGED <<route, stage, relaying, received, chain, summary, passed>>

-----------------------------------------------------------------------------
(* processFrame, for the head of the chain, after all frames before it.    *)

ForwardHead ==
    /\ chain # <<>> /\ summary = 0 /\ received[Head(chain)] # "trigger"
    /\ chain' = Tail(chain)
    /\ IF upstream = "open"
       THEN passed' = Append(passed, Head(chain)) /\ UNCHANGED <<client, upstream, log>>
       ELSE passed' = passed /\ CloseClient
    /\ UNCHANGED <<route, stage, relaying, received, summary, binaries>>

(* handleResponsesWebSocketFrame posts the compaction request, whether or  *)
(* not the sockets are still open.                                         *)
RequestSummary ==
    /\ chain # <<>> /\ summary = 0 /\ received[Head(chain)] = "trigger"
    /\ summary' = Head(chain)
    /\ UNCHANGED <<route, sockets, received, chain, passed, binaries, log>>

SummaryArrives ==
    /\ summary # 0
    /\ summary' = 0 /\ chain' = Tail(chain)
    /\ passed' = IF client = "open" THEN Append(passed, summary) ELSE passed
    /\ UNCHANGED <<route, sockets, received, binaries, log>>

(* Variant: a failed summary is logged and the connection goes on. *)
SummaryFailsQuietly ==
    /\ summary # 0
    /\ summary' = 0 /\ chain' = Tail(chain)
    /\ UNCHANGED <<route, sockets, received, passed, binaries, log>>

(* The catch of the chain closes both sockets; the chain itself goes on    *)
(* with the frames that were already in it.                                *)
SummaryFails ==
    /\ summary # 0
    /\ summary' = 0 /\ chain' = Tail(chain)
    /\ IF client = "open"
       THEN CloseClient
       ELSE upstream' = Closing(upstream) /\ UNCHANGED <<client, log>>
    /\ UNCHANGED <<route, stage, relaying, received, passed, binaries>>

-----------------------------------------------------------------------------
Handshake == DialSucceeds \/ DialFails \/ ClientAborts \/ Upgrade \/ UpgradeFails

Frame(kind) == RefuseFrame(kind) \/ ChainFrame(kind) \/ RelayFrame(kind)

WsChainStep == ForwardHead \/ RequestSummary \/ SummaryArrives \/ SummaryFails

WsNext ==
    \/ Handshake
    \/ UpstreamDrops \/ UpstreamClosed \/ ClientCloses
    \/ \E kind \in Kinds : Frame(kind)
    \/ RelayBinary
    \/ WsChainStep

WsSpec == WsInit /\ [][WsNext]_wsVars

(* The dial has a timeout, the continuation of an await runs, a socket     *)
(* that closes dispatches its event.  The compaction request has no        *)
(* timeout, so nothing is assumed of it.                                   *)
WsFairness ==
    /\ WF_wsVars(DialSucceeds \/ DialFails)
    /\ WF_wsVars(Upgrade \/ UpgradeFails)
    /\ WF_wsVars(UpstreamClosed)

WsFairSpec == WsSpec /\ WsFairness

-----------------------------------------------------------------------------
(* Properties.                                                             *)

(* The awaited summary is that of the head of the chain. *)
WsTypeOK ==
    /\ route \in Routes
    /\ stage \in {"dialing", "dialed", "bridged", "refused"}
    /\ client \in {"waiting", "gone", "answered", "open", "closed"}
    /\ upstream \in {"connecting", "open", "closing", "closed"}
    /\ relaying \in BOOLEAN
    /\ received \in Seq(Kinds)
    /\ chain \in Seq(1..Len(received))
    /\ summary \in 0..Len(received)
    /\ summary # 0 => chain # <<>> /\ Head(chain) = summary
    /\ passed \in Seq(1..Len(received))
    /\ binaries \in 0..MaxFrames
    /\ log \in {"held", "released"}

(* While a summary is awaited, every frame before it took effect and none  *)
(* after it did: the request for it and the frames around it keep their    *)
(* order (realtime.ts, the comment on responseFrameQueue).                 *)
SummaryInOrder ==
    summary # 0 /\ client = "open" => passed = [k \in 1..(summary - 1) |-> k]

(* A client that is bridged to an upstream that left will hear of it: the  *)
(* upstream's handlers are in place and its close event is still to come.  *)
(* Whatever closes in whatever phase of the handshake, no client is left   *)
(* with a dead upstream and no upstream with a dead client.                *)
NeverHalfOpen ==
    /\ client = "open" => upstream = "open" \/ (upstream = "closing" /\ relaying)
    /\ client = "closed" \/ stage = "refused" => upstream \in {"closing", "closed"}

(* The log file of a connection is held exactly until it is over, on every *)
(* path: dial failure, failed upgrade, refused frame, either side closing  *)
(* (gateway.ts, the comment on retainLogFile).                             *)
LogHeldUntilOver ==
    log = "held" <=> stage \in {"dialing", "dialed"} \/ client = "open"

(* Both sides end together: a client that left or was closed costs its     *)
(* upstream connection, and an upstream that closed costs its client.      *)
Left == client \in {"gone", "closed", "answered"}
EndTogether == (Left \/ upstream = "closed") ~> (Left /\ upstream = "closed")

(* Text frames take effect in order, without gaps or repetition, and not   *)
(* after the connection ended: the bridge implements FramePipe.            *)
Effects == [k \in 1..Len(passed) |-> received[passed[k]]]

Pipe == INSTANCE FramePipe WITH
    Frames <- Kinds, in <- received, out <- Effects, up <- client \in {"waiting", "open"}

FramesPipe == Pipe!Spec
=============================================================================
