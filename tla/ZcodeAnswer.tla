---------------------------- MODULE ZcodeAnswer ----------------------------
(***************************************************************************)
(* The answer of a ZCode request: createZcodeResponse of                   *)
(* packages/zcode/src/response.ts turns the frames of an Anthropic stream  *)
(* into the events of a Responses stream.                                  *)
(*                                                                         *)
(* An answer may take several upstream legs: a call of a tool the gateway  *)
(* runs itself (analyze_image) is absorbed, shown as a card, executed when *)
(* the leg ends, shown as a second card, and the next leg is asked for     *)
(* with the result.  Output items and event numbers go on across legs.     *)
(* The client pulls one event at a time and may leave between any two.     *)
(***************************************************************************)
EXTENDS Naturals, Sequences, FiniteSets

CONSTANTS Indexes,        \* indexes of content blocks
          MaxContinued,   \* maxContinuations
          MaxBlocks,      \* bound: blocks of an answer
          NoReason        \* no stop_reason yet

ASSUME AnswerAssumption == MaxContinued \in Nat /\ MaxBlocks \in Nat

VARIABLES leg,       \* the upstream leg: blocks, searches, reason
          output,    \* output items: [kind, status]
          due,       \* events produced and not yet pulled
          kept,      \* events of a message_stop that has not returned
          told,      \* what the client saw: items added, items done, holes
          absorbed,  \* [pending, narrated, done]: calls the gateway runs
          legs,      \* continuations
          answer     \* "open", "running", "asking" or a final status

answerVars == <<leg, output, due, kept, told, absorbed, legs, answer>>

Kinds == {"text", "thinking", "call", "gateway", "search", "result", "unknown"}
Reasons == {"end_turn", "tool_use", "max_tokens"}
Finals == {"completed", "incomplete", "failed"}

NewLeg == [started |-> FALSE, reason |-> NoReason, blocks |-> [i \in {} |-> 0]]
AnswerInit ==
    /\ leg = NewLeg
    /\ output = <<>>
    /\ due = <<>>
    /\ kept = <<>>
    /\ told = [added |-> {}, done |-> {}, hole |-> FALSE, over |-> FALSE]
    /\ absorbed = [pending |-> 0, narrated |-> 0, done |-> 0]
    /\ legs = 0
    /\ answer = "open"

Used == DOMAIN leg.blocks
Added(n) == [type |-> "added", item |-> n]
Done(n) == [type |-> "done", item |-> n]
Terminal == [type |-> "terminal", item |-> 0]

\* synthesizeMessage: a card is an item with its whole life.
Card(out, kind) == Append(out, [kind |-> kind, status |-> "completed"])
CardEvents(n) == <<Added(n), Done(n)>>

---------------------------------------------------------------------------
(* finish: an answer ends once; what is not closed is marked.              *)

Marked(out, status) ==
    [n \in DOMAIN out |->
        IF out[n].status # "in_progress" THEN out[n]
        ELSE [out[n] EXCEPT !.status =
                IF out[n].kind = "search" /\ status = "completed"
                THEN "completed" ELSE "incomplete"]]

Finishes(status, out, events) ==
    /\ answer' = status
    /\ output' = Marked(out, status)
    /\ due' = events \o <<Terminal>>
    /\ kept' = <<>>

\* A frame the driver does not take: whatever it had produced is lost, and
\* the answer fails.
Throw == /\ Finishes("failed", output, <<>>)
         /\ told' = [told EXCEPT !.hole = @ \/ kept # <<>>]
         /\ UNCHANGED <<leg, absorbed, legs>>

Reads == answer = "open" /\ due = <<>>
Emit(events) == due' = events
Quiet == UNCHANGED <<kept, told, absorbed, legs, answer>>

---------------------------------------------------------------------------
(* Frames of the upstream.                                                 *)

MessageStart == /\ Reads
                /\ IF leg.started THEN Throw
                   ELSE /\ leg' = [leg EXCEPT !.started = TRUE]
                        /\ UNCHANGED <<output, due>> /\ Quiet

Put(i, b) == leg' = [leg EXCEPT !.blocks =
                        [j \in Used \cup {i} |-> IF j = i THEN b ELSE leg.blocks[j]]]

\* The search whose result a block may carry.
OpenSearches == {j \in Used : leg.blocks[j].kind = "search" /\ ~leg.blocks[j].arrived}

Block(kind, n) == [kind |-> kind, item |-> n, stopped |-> FALSE, arrived |-> FALSE,
                   of |-> 0]

\* content_block_start: a block, a search, the result of a search, a call of
\* the gateway's own tool, or something unknown that is skipped.
BlockStart(i, kind) ==
    /\ Reads /\ Len(output) < MaxBlocks
    /\ IF ~leg.started \/ i \in Used THEN Throw
       ELSE IF \/ kind \in {"gateway", "unknown"}
               \/ kind = "result" /\ OpenSearches = {}
       THEN /\ Put(i, Block(IF kind = "gateway" THEN kind ELSE "unknown", 0))
            /\ UNCHANGED <<output, due>> /\ Quiet
       ELSE IF kind = "result"
       THEN /\ \E j \in OpenSearches : Put(i, [Block(kind, 0) EXCEPT !.of = j])
            /\ UNCHANGED <<output, due>> /\ Quiet
       ELSE LET n == Len(output) + 1
            IN  /\ Put(i, Block(kind, n))
                /\ output' = Append(output, [kind |-> kind, status |-> "in_progress"])
                /\ Emit(<<Added(n)>>) /\ Quiet

\* content_block_delta: it must fit its block.
Delta(i, fits) ==
    /\ Reads
    /\ IF \/ ~leg.started \/ i \notin Used \/ ~fits
          \/ /\ leg.blocks[i].kind \notin {"unknown", "search", "result"}
             /\ leg.blocks[i].stopped
       THEN Throw
       ELSE UNCHANGED <<leg, output, due>> /\ Quiet

Stopped(i) == leg' = [leg EXCEPT !.blocks[i].stopped = TRUE]
ClosesItem(n, s) == output' = [output EXCEPT ![n].status = s]

\* content_block_stop; the arguments of a call must be whole JSON.
BlockStop(i, whole) ==
    /\ Reads
    /\ IF ~leg.started \/ i \notin Used THEN Throw
       ELSE LET b == leg.blocks[i]
                s == leg.blocks[b.of]
            IN  CASE b.kind = "unknown" -> UNCHANGED <<leg, output, due>> /\ Quiet
                  [] b.kind = "search" ->
                        IF b.stopped \/ ~whole THEN Throw
                        ELSE Stopped(i) /\ UNCHANGED <<output, due>> /\ Quiet
                  [] b.kind = "result" ->
                        IF s.arrived THEN UNCHANGED <<leg, output, due>> /\ Quiet
                        ELSE /\ leg' = [leg EXCEPT !.blocks[b.of].arrived = TRUE]
                             /\ ClosesItem(s.item, "completed")
                             /\ Emit(<<Done(s.item)>>) /\ Quiet
                  [] b.kind = "gateway" ->
                        IF b.stopped \/ ~whole THEN Throw
                        ELSE LET shown == legs < MaxContinued
                                 n == Len(output) + 1
                             IN  /\ Stopped(i)
                                 /\ output' = IF shown THEN Card(output, "asked") ELSE output
                                 /\ Emit(IF shown THEN CardEvents(n) ELSE <<>>)
                                 /\ absorbed' = [absorbed EXCEPT !.pending = @ + 1,
                                        !.narrated = @ + IF shown THEN 1 ELSE 0]
                                 /\ UNCHANGED <<kept, told, legs, answer>>
                  [] OTHER ->
                        IF b.stopped \/ (b.kind = "call" /\ ~whole) THEN Throw
                        ELSE /\ Stopped(i) /\ ClosesItem(b.item, "completed")
                             /\ Emit(<<Done(b.item)>>) /\ Quiet

MessageDelta(r) == /\ Reads
                   /\ IF ~leg.started THEN Throw
                      ELSE /\ leg' = [leg EXCEPT !.reason = r]
                           /\ UNCHANGED <<output, due>> /\ Quiet

---------------------------------------------------------------------------
(* message_stop: close the searches, then go on or finish.                 *)

Unstopped == {i \in Used : /\ leg.blocks[i].kind \notin {"unknown", "result"}
                           /\ ~leg.blocks[i].stopped}

\* Items are closed one after the other.
DoneEvents(items) ==
    LET order == CHOOSE f \in [1..Cardinality(items) -> items] :
                    \A n \in items : \E k \in DOMAIN f : f[k] = n
    IN  [k \in 1..Cardinality(items) |-> Done(order[k])]

\* Every search without a result is closed.
Unanswered == {leg.blocks[i].item : i \in OpenSearches}
Searched(status) ==
    [n \in DOMAIN output |-> IF n \in Unanswered
                             THEN [output[n] EXCEPT !.status = status] ELSE output[n]]

\* Result cards of calls that are not executed after all.
ResultCard == [kind |-> "answered", status |-> "completed"]
CardEvent(first, k) == IF k % 2 = 1 THEN Added(first + k \div 2)
                       ELSE Done(first + k \div 2 - 1)
Cards(out, events, n) ==
    <<out \o [k \in 1..n |-> ResultCard],
      events \o [k \in 1..(2 * n) |-> CardEvent(Len(out) + 1, k)]>>

\* Variant: the cards of calls that are not executed stay open.
NotExecuted(out, events) == <<out, events>>

\* Calls that were shown and are not executed get a result card.
Unexecuted(out, events) == Cards(out, events, absorbed.narrated)

MessageStop ==
    /\ Reads
    /\ IF ~leg.started \/ Unstopped # {} \/ leg.reason = NoReason THEN Throw
       ELSE LET events == DoneEvents(Unanswered)
                status == IF leg.reason = "max_tokens" THEN "incomplete" ELSE "completed"
                out == Searched(status)
                goesOn == /\ leg.reason = "tool_use" /\ absorbed.pending > 0
                          /\ legs < MaxContinued
                cards == Unexecuted(out, events)
            IN  IF goesOn
                THEN /\ answer' = "running"
                     /\ output' = out
                     /\ kept' = events
                     /\ UNCHANGED <<leg, due, told, absorbed, legs>>
                ELSE /\ Finishes(status, cards[1], cards[2])
                     /\ absorbed' = [pending |-> 0, narrated |-> 0, done |-> 0]
                     /\ UNCHANGED <<leg, told, legs>>

\* One absorbed call was executed, or failed: its card either way.
Executes ==
    /\ answer = "running" /\ absorbed.done < absorbed.pending
    /\ output' = Card(output, "answered")
    /\ kept' = kept \o CardEvents(Len(output) + 1)
    /\ absorbed' = [absorbed EXCEPT !.done = @ + 1]
    /\ UNCHANGED <<leg, due, told, legs, answer>>

Asks == /\ answer = "running" /\ absorbed.done = absorbed.pending
        /\ answer' = "asking"
        /\ absorbed' = [pending |-> 0, narrated |-> 0, done |-> 0]
        /\ legs' = legs + 1
        /\ UNCHANGED <<leg, output, due, kept, told>>

\* startLeg: what message_stop had produced is sent, the next leg is read.
StartLeg == /\ answer = "asking"
            /\ answer' = "open"
            /\ leg' = NewLeg
            /\ due' = kept /\ kept' = <<>>
            /\ UNCHANGED <<output, told, absorbed, legs>>

LegFails == answer = "asking" /\ Throw

\* An error frame, or the end of the stream before message_stop.
ErrorFrame == Reads /\ Throw

---------------------------------------------------------------------------
(* The client.                                                             *)

Pull == /\ due # <<>> /\ ~told.over
        /\ LET e == Head(due)
           IN  told' = CASE e.type = "added" -> [told EXCEPT !.added = @ \cup {e.item}]
                         [] e.type = "done" -> [told EXCEPT !.done = @ \cup {e.item}]
                         [] OTHER -> [told EXCEPT !.over = TRUE]
        /\ due' = Tail(due)
        /\ UNCHANGED <<leg, output, kept, absorbed, legs, answer>>

\* cancel, or the request's abort: the answer is failed and nothing more is
\* sent.
Leave == /\ answer \notin Finals
         /\ answer' = "failed"
         /\ output' = Marked(output, "failed")
         /\ due' = <<>> /\ kept' = <<>>
         /\ told' = [told EXCEPT !.over = TRUE]
         /\ UNCHANGED <<leg, absorbed, legs>>

AnswerNext == \/ MessageStart
              \/ \E i \in Indexes : \/ \E kind \in Kinds : BlockStart(i, kind)
                                    \/ \E b \in BOOLEAN : Delta(i, b) \/ BlockStop(i, b)
              \/ \E r \in Reasons : MessageDelta(r)
              \/ MessageStop \/ Executes \/ Asks \/ StartLeg \/ LegFails
              \/ ErrorFrame \/ Pull \/ Leave

AnswerSpec == AnswerInit /\ [][AnswerNext]_answerVars

---------------------------------------------------------------------------
(* Properties.                                                             *)

\* Type: items have a status, events refer to items.
AnswerTypeOK ==
    /\ \A n \in DOMAIN output :
            output[n].status \in {"in_progress", "completed", "incomplete"}
    /\ told.added \subseteq DOMAIN output /\ told.done \subseteq told.added
    /\ answer \in {"open", "running", "asking"} \cup Finals

Count(kind) == Cardinality({n \in DOMAIN output : output[n].kind = kind})

\* An answer that completed closed everything it showed, over all its legs:
\* each item that was added is done, no event was left out, and each call
\* that was shown as executing has its result card (message_stop, startLeg,
\* finish of response.ts).
AnswerCloses ==
    (answer \in {"completed", "incomplete"} /\ told.over) =>
        /\ told.added = DOMAIN output /\ told.done = told.added
        /\ \A n \in DOMAIN output : output[n].status # "in_progress"
        /\ Count("asked") = Count("answered")
        /\ ~told.hole
=============================================================================
