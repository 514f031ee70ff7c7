----------------------------- MODULE QoderQueue -----------------------------
(***************************************************************************)
(* A request of the Qoder plugin until its answer begins                   *)
(* (packages/qoder/src/queue.ts, and the idle timer of index.ts).  Under   *)
(* load the provider answers with a stream that only says that the request *)
(* queues; it is dropped and the request sent again after the time the     *)
(* provider names, until a budget is spent.  Every frame is a sign of life *)
(* that starts the idle timer anew.  Timers may fire late.                 *)
(***************************************************************************)
EXTENDS Integers

CONSTANTS
    Budget,     \* totalBudgetMs
    DelayCap,   \* retryDelayCapMs
    MinDelay,   \* minRetryDelayMs
    IdleLimit,  \* idleTimeoutMs
    Hints       \* values of retryAfterSeconds, 0 for none

ASSUME QueueAssumption ==
    {Budget, DelayCap, MinDelay, IdleLimit} \subseteq Nat /\ Hints \subseteq Nat /\ 0 \in Hints

VARIABLES
    stage,      \* where the request is
    left,       \* time until the deadline
    nap,        \* time left to sleep
    silent,     \* time since the last sign of life
    streams     \* streams of the provider that are open

queueVars == <<stage, left, nap, silent, streams>>

Busy  == {"sending", "peeking", "sleeping"}
Final == {"answered", "failed", "limited", "timed out", "canceled"}

QueueTypeOK ==
    /\ stage \in Busy \union Final /\ left \in 0..Budget
    /\ nap \in 0..Budget /\ silent \in 0..IdleLimit /\ streams \in 0..1

QueueInit ==
    stage = "sending" /\ left = Budget /\ nap = 0 /\ silent = 0 /\ streams = 0

Least(a, b) == IF a < b THEN a ELSE b

(* The request is over; an answer keeps its stream. *)
Leave(end) ==
    stage' = end /\ streams' = (IF end = "answered" THEN streams ELSE 0) /\ UNCHANGED <<left, nap>>

(* Response headers; an answer without a body is passed on as it is. *)
Reply ==
    /\ stage = "sending"
    /\ \/ stage' = "peeking" /\ streams' = streams + 1 /\ UNCHANGED <<left, nap>>
       \/ Leave("answered") \/ Leave("failed")
    /\ UNCHANGED silent

(* A frame without meaning: a comment, a heartbeat. *)
KeepAlive == stage = "peeking" /\ silent' = 0 /\ UNCHANGED <<stage, left, nap, streams>>

(* The first frame with content: the stream is handed on with what was     *)
(* read of it.                                                             *)
FirstContent == stage = "peeking" /\ silent' = 0 /\ Leave("answered")

(* A read fails, or what it brings is no text. *)
Break == stage = "peeking" /\ UNCHANGED silent /\ Leave("failed")

Desired(hint) == IF hint > 0 THEN hint ELSE MinDelay

(* Variant: the wait does not look at the deadline. *)
DelayEndless(hint) == Least(DelayCap, Desired(hint))

Delay(hint) == Least(Least(DelayCap, Desired(hint)), left)

(* The stream is dropped, and the request waits or gives up. *)
Retry(hint) ==
    IF Delay(hint) = 0 THEN Leave("limited")
    ELSE stage' = "sleeping" /\ nap' = Delay(hint) /\ streams' = 0 /\ UNCHANGED left

(* An envelope says that the request queues, or that it need not any more. *)
Queued(hint) == stage = "peeking" /\ silent' = 0 /\ Retry(hint)

(* The stream ends without a frame. *)
Eof == stage = "peeking" /\ UNCHANGED silent /\ Retry(0)

Wake == stage = "sleeping" /\ nap = 0 /\ stage' = "sending" /\ UNCHANGED <<left, nap, silent, streams>>

Down(n) == IF n > 0 THEN n - 1 ELSE 0

QueueTick ==
    /\ stage \in Busy
    /\ left' = Down(left) /\ nap' = Down(nap) /\ silent' = Least(silent + 1, IdleLimit)
    /\ UNCHANGED <<stage, streams>>

(* The idle timer aborts whatever the request waits for. *)
TimeOut == stage \in Busy /\ silent = IdleLimit /\ Leave("timed out") /\ UNCHANGED silent

(* So does the client, or the end of the plugin. *)
Withdraw == stage \in Busy /\ Leave("canceled") /\ UNCHANGED silent

QueueNext ==
    \/ Reply \/ KeepAlive \/ FirstContent \/ Break \/ Eof \/ Wake \/ QueueTick \/ TimeOut \/ Withdraw
    \/ \E hint \in Hints : Queued(hint)

QueueFairness == WF_queueVars(QueueTick) /\ WF_queueVars(Wake) /\ WF_queueVars(TimeOut)

QueueSpec == QueueInit /\ [][QueueNext]_queueVars /\ QueueFairness
-----------------------------------------------------------------------------
(* A request the provider keeps queueing, or does not answer, ends: by the *)
(* budget of the retries or by the idle timer, one of which must run out.  *)
(* Only a provider that sends heartbeats and nothing else holds it, since  *)
(* the deadline is not looked at while a stream is read (queue.ts:92).     *)
QueueEnds == <>(stage \in Final) \/ []<><<KeepAlive>>_queueVars
=============================================================================
