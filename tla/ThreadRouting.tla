--------------------------- MODULE ThreadRouting ---------------------------
(***************************************************************************)
(* Which upstream serves a request of a Codex session: decideThreadRoute   *)
(* and responsesWebSocketTarget of apps/gateway/src/gateway.ts, with the   *)
(* frames of open WebSocket connections (realtime.ts) that share their     *)
(* memory.                                                                 *)
(*                                                                         *)
(* A model with the prefix goes to the proxy.  Titles, subagents, system   *)
(* requests and images of the same session name other models, so the       *)
(* gateway remembers threads (without bound) and turns (at most MaxTurns,  *)
(* oldest out first), in memory only.  A decision is made in one piece of  *)
(* synchronous code; what interleaves are the decisions.                   *)
(***************************************************************************)
EXTENDS Integers, Sequences, FiniteSets

CONSTANTS
    Threads, Turns,     \* values of thread-id and turn_id
    Connections,        \* WebSocket connections open at once
    MaxTurns,           \* MAX_REMEMBERED_CPA_TURNS
    None                \* a header that is missing, empty or too long

ASSUME RoutingAssumption ==
    /\ MaxTurns \in Nat \ {0}
    /\ IsFiniteSet(Turns)
    /\ None \notin Threads /\ None \notin Turns

VARIABLES
    upstreamOnly,   \* the configuration's mode
    cpaThreads,     \* the threads remembered
    cpaTurns,       \* the turns remembered, in order of insertion
    conn,           \* the open connections: thread and routeKind
    \* What the clients saw; the code keeps none of it.
    answer,         \* the latest decision
    proxied,        \* threads that were served by the proxy or sent to it
    turnsServed,    \* turns of which a request was served by the proxy
    turnsNamed,     \* those of a request that named a proxy model, or of a
                    \* frame on a connection to the proxy
    later           \* for a turn served: the other turns served since

memory  == <<cpaThreads, cpaTurns>>
history == <<proxied, turnsServed, turnsNamed, later>>
vars    == <<upstreamOnly, memory, conn, answer, history>>

Models      == {"plain", "prefixed"}
MaybeThread == Threads \union {None}
MaybeTurn   == Turns \union {None}
Closed      == [open |-> FALSE, thread |-> None, route |-> "official"]
NoAnswer    == [to |-> "nobody", model |-> "plain", thread |-> None, parent |-> None,
                turn |-> None, route |-> "official"]

Init ==
    /\ upstreamOnly \in BOOLEAN
    /\ cpaThreads = {} /\ cpaTurns = <<>>
    /\ conn = [c \in Connections |-> Closed]
    /\ answer = NoAnswer
    /\ proxied = {} /\ turnsServed = {} /\ turnsNamed = {}
    /\ later = [u \in Turns |-> {}]

-----------------------------------------------------------------------------
Remembered(turn) == \E k \in 1..Len(cpaTurns) : cpaTurns[k] = turn

(* Variant: the newest turn makes room. *)
RememberOverNewest(turn) ==
    IF Remembered(turn) THEN cpaTurns
    ELSE IF Len(cpaTurns) >= MaxTurns
         THEN Append(SubSeq(cpaTurns, 1, Len(cpaTurns) - 1), turn)
         ELSE Append(cpaTurns, turn)

(* rememberCpaTurn: a turn that is remembered keeps its place. *)
Remember(turn) ==
    IF Remembered(turn) THEN cpaTurns
    ELSE IF Len(cpaTurns) >= MaxTurns THEN Append(Tail(cpaTurns), turn)
         ELSE Append(cpaTurns, turn)

Inherits(thread, parent, image) ==
    \/ thread \in cpaThreads \/ parent \in cpaThreads
    \/ image # None /\ Remembered(image)

(* The threads remembered together with one more; a missing id is not one. *)
With(set, thread) == IF thread = None THEN set ELSE set \union {thread}

(* Variant: a request pins the session that spawned it as well. *)
DecideForParent(model, thread, parent, turn, image) ==
    IF ~upstreamOnly /\ model = "prefixed"
    THEN /\ cpaThreads' = With(With(cpaThreads, thread), parent)
         /\ cpaTurns' = IF turn = None THEN cpaTurns ELSE Remember(turn)
    ELSE /\ cpaThreads' = IF ~upstreamOnly /\ Inherits(thread, parent, image)
                          THEN With(cpaThreads, thread) ELSE cpaThreads
         /\ UNCHANGED cpaTurns

(* decideThreadRoute; nothing is remembered in upstreamOnly mode. *)
Decide(model, thread, parent, turn, image) ==
    IF ~upstreamOnly /\ model = "prefixed"
    THEN /\ cpaThreads' = With(cpaThreads, thread)
         /\ cpaTurns' = IF turn = None THEN cpaTurns ELSE Remember(turn)
    ELSE /\ cpaThreads' = IF ~upstreamOnly /\ Inherits(thread, parent, image)
                          THEN With(cpaThreads, thread) ELSE cpaThreads
         /\ UNCHANGED cpaTurns

RouteOf(model, thread, parent, image) ==
    IF upstreamOnly \/ model = "prefixed" \/ Inherits(thread, parent, image)
    THEN "cliproxy" ELSE "official"

-----------------------------------------------------------------------------
(* History: the proxy served a request of the thread and the turn. *)
ServedByProxy(thread, turn, named) ==
    /\ proxied' = With(proxied, thread)
    /\ IF turn = None THEN UNCHANGED <<turnsServed, turnsNamed, later>>
       ELSE /\ turnsServed' = turnsServed \union {turn}
            /\ turnsNamed' = IF named THEN turnsNamed \union {turn} ELSE turnsNamed
            /\ later' = [u \in Turns |-> IF u \in turnsServed \ {turn}
                                         THEN later[u] \union {turn} ELSE later[u]]

(* An image, and a handshake that inherits its route, do not serve a turn. *)
IsOfTurn(to, model) == to \in {"request", "frame"} \/ (to = "handshake" /\ model = "prefixed")

Record(to, model, thread, parent, turn, route) ==
    /\ answer' = [to |-> to, model |-> model, thread |-> thread, parent |-> parent,
                  turn |-> turn, route |-> route]
    /\ IF route = "cliproxy"
       THEN ServedByProxy(thread, IF IsOfTurn(to, model) THEN turn ELSE None,
                          to = "frame" \/ model = "prefixed")
       ELSE UNCHANGED history

(* An HTTP request for a model. *)
Request(model, thread, parent, turn) ==
    /\ Decide(model, thread, parent, turn, None)
    /\ Record("request", model, thread, parent, turn, RouteOf(model, thread, parent, None))
    /\ UNCHANGED <<upstreamOnly, conn>>

(* A request to generate an image: no prefix, no thread, only the turn. *)
ImageRequest(turn) ==
    /\ Decide("plain", None, None, None, turn)
    /\ Record("image", "plain", None, None, turn, RouteOf("plain", None, None, turn))
    /\ UNCHANGED <<upstreamOnly, conn>>

(* A WebSocket handshake, its model taken from the routing hint.  What was *)
(* decided stays remembered when the dial fails.                           *)
Handshake(c, model, thread, parent, turn) ==
    LET route == RouteOf(model, thread, parent, None)
    IN  /\ ~conn[c].open
        /\ Decide(model, thread, parent, turn, None)
        /\ Record("handshake", model, thread, parent, turn, route)
        /\ \/ conn' = [conn EXCEPT ![c] = [open |-> TRUE, thread |-> thread, route |-> route]]
           \/ UNCHANGED conn
        /\ UNCHANGED upstreamOnly

-----------------------------------------------------------------------------
(* A frame for another model on a connection to the official upstream: the *)
(* thread is remembered and the client told to connect again.              *)

(* Variant: the thread is not remembered. *)
ReconnectForgetful(c, turn) ==
    /\ conn[c].open /\ conn[c].route = "official"
    /\ conn' = [conn EXCEPT ![c] = Closed]
    /\ answer' = [to |-> "frame", model |-> "prefixed", thread |-> conn[c].thread, parent |-> None,
                  turn |-> turn, route |-> "reconnect"]
    /\ proxied' = With(proxied, conn[c].thread)
    /\ UNCHANGED <<upstreamOnly, memory, turnsServed, turnsNamed, later>>

Reconnect(c, turn) ==
    /\ conn[c].open /\ conn[c].route = "official"
    /\ cpaThreads' = With(cpaThreads, conn[c].thread)
    /\ conn' = [conn EXCEPT ![c] = Closed]
    /\ answer' = [to |-> "frame", model |-> "prefixed", thread |-> conn[c].thread, parent |-> None,
                  turn |-> turn, route |-> "reconnect"]
    /\ proxied' = With(proxied, conn[c].thread)
    /\ UNCHANGED <<upstreamOnly, cpaTurns, turnsServed, turnsNamed, later>>

(* Any other frame is forwarded; on a connection to the proxy its turn is  *)
(* noted, whatever model it names.                                         *)
Forward(c, model, turn) ==
    /\ conn[c].open /\ (conn[c].route = "official" => model = "plain")
    /\ cpaTurns' = IF conn[c].route = "cliproxy" /\ turn # None THEN Remember(turn) ELSE cpaTurns
    /\ Record("frame", model, conn[c].thread, None, turn, conn[c].route)
    /\ UNCHANGED <<upstreamOnly, cpaThreads, conn>>

Disconnect(c) ==
    /\ conn[c].open
    /\ conn' = [conn EXCEPT ![c] = Closed]
    /\ answer' = NoAnswer
    /\ UNCHANGED <<upstreamOnly, memory, history>>

(* The process restarts, maybe with the other mode. *)
Restart ==
    /\ upstreamOnly' \in BOOLEAN
    /\ cpaThreads' = {} /\ cpaTurns' = <<>>
    /\ conn' = [c \in Connections |-> Closed]
    /\ answer' = NoAnswer
    /\ proxied' = {} /\ turnsServed' = {} /\ turnsNamed' = {}
    /\ later' = [u \in Turns |-> {}]

-----------------------------------------------------------------------------
Next ==
    \/ \E m \in Models, t \in MaybeThread, p \in MaybeThread, u \in MaybeTurn :
          \/ Request(m, t, p, u)
          \/ \E c \in Connections : Handshake(c, m, t, p, u)
    \/ \E u \in Turns : ImageRequest(u)
    \/ \E c \in Connections, u \in MaybeTurn :
          \/ Reconnect(c, u)
          \/ \E m \in Models : Forward(c, m, u)
    \/ \E c \in Connections : Disconnect(c)
    \/ Restart

Spec == Init /\ [][Next]_vars

-----------------------------------------------------------------------------
(* Properties.                                                             *)

Routes == {"official", "cliproxy"}

(* No turn is remembered twice, and there are never more than MaxTurns. *)
TypeOK ==
    /\ upstreamOnly \in BOOLEAN
    /\ cpaThreads \in SUBSET Threads
    /\ cpaTurns \in Seq(Turns) /\ Len(cpaTurns) <= MaxTurns
    /\ \A i, j \in 1..Len(cpaTurns) : cpaTurns[i] = cpaTurns[j] => i = j
    /\ conn \in [Connections -> [open : BOOLEAN, thread : MaybeThread, route : Routes]]
    /\ answer \in [to : {"nobody", "request", "image", "handshake", "frame"}, model : Models,
                   thread : MaybeThread, parent : MaybeThread, turn : MaybeTurn,
                   route : Routes \union {"reconnect"}]
    /\ proxied \in SUBSET Threads
    /\ turnsServed \in SUBSET Turns /\ turnsNamed \in SUBSET turnsServed
    /\ later \in [Turns -> SUBSET Turns]

Decision == answer'.to \in {"request", "handshake"}

(* A session that was served by the proxy, or told to connect again to be, *)
(* stays there, and so do its subagents and theirs: in particular a client *)
(* is not told twice to connect again (comment on checkFrameRouting).      *)
SessionStays ==
    [][Decision /\ (answer'.thread \in proxied \/ answer'.parent \in proxied)
          => answer'.route = "cliproxy"]_vars

(* A request that names no proxy model reaches the proxy only from a       *)
(* session, a parent or a turn that was there before: the official         *)
(* session of a user is not sent to another provider.                      *)
OfficialNotDiverted ==
    [][~upstreamOnly /\ answer'.to \in {"request", "image", "handshake"} /\ answer'.route = "cliproxy"
          => \/ answer'.thread \in proxied \/ answer'.parent \in proxied
             \/ answer'.to = "image" /\ answer'.turn \in turnsNamed
             \/ answer'.model = "prefixed"]_vars

(* The image of a turn that named a proxy model, or came over a connection *)
(* to the proxy, goes to the proxy unless MaxTurns other turns came since  *)
(* (comment on MAX_REMEMBERED_CPA_TURNS).                                  *)
ImagesFollowTurn ==
    [][answer'.to = "image" /\ answer'.turn \in turnsNamed /\ Cardinality(later[answer'.turn]) < MaxTurns
          => answer'.route = "cliproxy"]_vars

(* The image of any turn that the proxy served goes to the proxy, also     *)
(* when the turn came by HTTP and inherited its route from the session.    *)
ImagesFollowSession ==
    [][answer'.to = "image" /\ answer'.turn \in turnsServed /\ Cardinality(later[answer'.turn]) < MaxTurns
          => answer'.route = "cliproxy"]_vars
=============================================================================
