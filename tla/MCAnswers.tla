------------------------------ MODULE MCAnswers ------------------------------
(* A stream on its way to a client, and a request of the Qoder plugin until *)
(* it has one, for TLC.  The parts share no state: a behaviour is one of    *)
(* one part, beside which the others rest.                                  *)
EXTENDS ClientOutput, QoderQueue, QoderCatalog, TLC

CONSTANTS i1, i2, a1, f1

VARIABLE part

OneCliId     == {i1}
OneDesktopId == {i2}
OneAsker     == {a1}
OneForcer    == {f1}
SomeHints    == {0, 1, 3}

(* The client of the stream has left. *)
StreamRest ==
    /\ ParserInit /\ from = "chat" /\ json = FALSE /\ to = "chat"
    /\ phase = "over" /\ pending = <<>> /\ late = FALSE /\ suppressed = {} /\ passed = FALSE
    /\ items = <<>> /\ input = [c \in Calls |-> <<>>] /\ ended = {}
    /\ ending = None /\ result = "none" /\ canceled = TRUE /\ final = "none" /\ woken = TRUE
    /\ body = "canceled" /\ created = FALSE /\ status = "none" /\ orderly = TRUE
    /\ added = {} /\ done = {} /\ got = input

QueueRest ==
    stage = "answered" /\ left = Budget /\ nap = 0 /\ silent = 0 /\ streams = 0

CatalogRest ==
    QoderInit /\ cliLogin = NoLogin /\ desktopLogin = NoLogin /\ onDemand = TRUE /\ saved = NoCatalog

AnswersInit ==
    \/ part = "stream"  /\ Init       /\ QueueRest  /\ CatalogRest
    \/ part = "queue"   /\ QueueInit  /\ StreamRest /\ CatalogRest
    \/ part = "catalog" /\ QoderInit  /\ StreamRest /\ QueueRest

AnswersNext ==
    \/ part = "stream"  /\ Next       /\ UNCHANGED <<part, queueVars, qoderVars>>
    \/ part = "queue"   /\ QueueNext  /\ UNCHANGED <<part, vars, qoderVars>>
    \/ part = "catalog" /\ QoderNext  /\ UNCHANGED <<part, vars, queueVars>>

answerVars == <<part, vars, queueVars, qoderVars>>

AnswersSpec == AnswersInit /\ [][AnswersNext]_answerVars /\ Fairness /\ QueueFairness

(* Nothing is waited for in vain: an aborted stream ends, and so does a     *)
(* request in the queue (output.ts and queue.ts).                           *)
AnswersEnd == AbortEnds /\ QueueEnds
=============================================================================
