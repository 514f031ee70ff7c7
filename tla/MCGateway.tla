------------------------------ MODULE MCGateway ------------------------------
(* What the gateway process does by itself, for TLC: the reload of the model *)
(* configuration, and one bridged WebSocket connection.  The parts share no  *)
(* state: a behaviour is one of one part, beside which the other rests.      *)
EXTENDS ModelReload, WsBridge, TLC

CONSTANTS c1, u1, g1

VARIABLE part

OneCli     == {c1}
OneUi      == {u1}
OneGateway == {g1}

(* A gateway that serves, with nothing to do; a connection not yet dialed. *)
ReloadRest ==
    /\ content = <<None>> /\ catalog = 1
    /\ queue = {} /\ latestReq = None /\ results = <<>>
    /\ saver = [s \in Savers |-> "new"] /\ savedAt = [s \in Savers |-> 0]
    /\ snapshot = [s \in Savers |-> [version |-> 1, catalog |-> 1]]
    /\ gpc = [g \in Gateways |-> "idle"] /\ closed = [g \in Gateways |-> FALSE]
    /\ startup = [g \in Gateways |-> "ready"] /\ config = [g \in Gateways |-> 1]
    /\ next = [g \in Gateways |-> 1] /\ seenLatest = [g \in Gateways |-> None]
    /\ base = [g \in Gateways |-> <<>>] /\ batch = [g \in Gateways |-> {}]
    /\ outcome = [g \in Gateways |-> "loaded"] /\ answered = {} /\ faults = 0
BridgeRest == WsInit /\ route = "official"

GatewayInit ==
    \/ part = "reload" /\ Init   /\ BridgeRest
    \/ part = "bridge" /\ WsInit /\ ReloadRest
GatewayNext ==
    \/ part = "reload" /\ Next   /\ UNCHANGED <<part, wsVars>>
    \/ part = "bridge" /\ WsNext /\ UNCHANGED <<part, vars>>

(* GatewayFairness of a behaviour of the reload ... *)
ReloadFairness ==
    \A g \in Gateways :
        /\ WF_vars(part = "reload" /\ Boot(g))
        /\ WF_vars(part = "reload" /\ Bind(g))
        /\ WF_vars(part = "reload" /\ Exit(g))
        /\ WF_vars(part = "reload" /\ StartupReady(g))
        /\ WF_vars(part = "reload" /\ ChainStep(g))

(* ... and WsFairness of one of the bridge. *)
BridgeFairness ==
    /\ WF_wsVars(part = "bridge" /\ (DialSucceeds \/ DialFails))
    /\ WF_wsVars(part = "bridge" /\ (Upgrade \/ UpgradeFails))
    /\ WF_wsVars(part = "bridge" /\ UpstreamClosed)

GatewaySpec ==
    /\ GatewayInit /\ [][GatewayNext]_<<part, vars, wsVars>>
    /\ ReloadFairness /\ BridgeFairness
=============================================================================
