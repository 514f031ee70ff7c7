---------------------------- MODULE ClientOutput ----------------------------
(***************************************************************************)
(* One response of a provider on its way to the client: the four client    *)
(* outputs and the Responses shell of packages/llm-bridge/src/output.ts,   *)
(* driven by the events of UpstreamEvents.                                 *)
(*                                                                         *)
(* The body is a stream with no buffer: the client pulls a chunk, a        *)
(* generator runs until it has one, taking events from the parser as it    *)
(* needs them.  Between two chunks, and while the parser waits for the     *)
(* provider, the signal may be aborted or the client may cancel.           *)
(***************************************************************************)
EXTENDS UpstreamEvents

VARIABLES
    to,         \* the client's protocol
    phase,      \* where the generator is; "tail": it has only frames left to give
    pending,    \* frames it gives next
    late,       \* an abort left a failed terminal in the shell
    suppressed, \* calls of tools the client did not declare
    passed,     \* passedToolCall
    items,      \* the items of the output in order: key, and whether open
    input,      \* per call: the pieces of its arguments the output holds
    ended,      \* the custom calls whose end came
    ending,     \* the stop reason of message_end, or None
    result,     \* the terminal status the output decided on, or "none"
    canceled,   \* the signal was aborted, or the client is gone
    final,      \* what the final promise is resolved with, or "pending"
    woken,      \* options.abort was called
    \* What the client saw; the code keeps none of it.
    body,       \* "open", "closed", "canceled"
    created,    \* response.created or its like came
    status,     \* the terminal status it was given, or "none"
    orderly,    \* the output began with message_start, and before any abort
    added,      \* the items it was shown
    done,       \* the items that were closed
    got         \* per call: the pieces of arguments it has

shell  == <<pending, late, items, input, ended, ending, result>>
client == <<body, created, status, added, done, got>>
vars   == <<parser, to, phase, shell, suppressed, passed, canceled, final, woken, orderly, client>>

Clients == {"responses", "chat", "anthropic", "gemini"}

Created      == [type |-> "created"]
Delta        == [type |-> "delta"]
Added(key)   == [type |-> "added", key |-> key]
Input(c, ps) == [type |-> "input", key |-> c, pieces |-> ps]
Done(key)    == [type |-> "done", key |-> key]
Terminal(st) == [type |-> "terminal", status |-> st]
Failed       == Terminal("failed")

Incomplete(reason) == reason \in {"length", "content_filter"}
Outcome(reason)    == IF Incomplete(reason) THEN "incomplete" ELSE "completed"

(* The shell keeps the input of custom calls until the response is over;   *)
(* the other outputs know no custom calls.                                 *)
Custom(c) == to = "responses" /\ c \in Calls /\ call[c].tool = "custom"

Init ==
    /\ ParserInit /\ to \in Clients
    /\ phase = "new" /\ pending = <<>> /\ late = FALSE /\ suppressed = {} /\ passed = FALSE
    /\ items = <<>> /\ input = [c \in Calls |-> <<>>] /\ ended = {}
    /\ ending = None /\ result = "none" /\ canceled = FALSE /\ final = "pending" /\ woken = FALSE
    /\ body = "open" /\ created = FALSE /\ status = "none" /\ orderly = TRUE
    /\ added = {} /\ done = {} /\ got = [c \in Calls |-> <<>>]

-----------------------------------------------------------------------------
(* The generator: it asks for the next event when it has nothing to give.  *)

Asking == phase \in {"first", "looping"} /\ pending = <<>>

(* The first pull. *)
Begin ==
    /\ phase = "new" /\ orderly' = (orderly /\ ~canceled)
    /\ phase' = IF canceled THEN "tail" ELSE IF to = "responses" THEN "first" ELSE "looping"
    /\ pending' = IF ~canceled /\ to \in {"chat", "anthropic"} THEN <<Created>> ELSE <<>>
    /\ UNCHANGED <<parser, to, late, items, input, ended, ending, result, suppressed, passed,
                   canceled, final, woken, client>>

Parse ==
    /\ Asking /\ Read
    /\ UNCHANGED <<to, phase, shell, suppressed, passed, canceled, final, woken, orderly, client>>

Taken ==
    /\ queue' = Tail(queue)
    /\ UNCHANGED <<from, json, reader, started, stop, blocks, call, order, texts, said>>

NextIs(event) == Asking /\ queue # <<>> /\ event = Head(queue)

(* After an abort an event is taken and nothing made of it. *)
Live == phase = "first" \/ ~canceled

(* Variant: the shell never starts. *)
GiveUnstarted(fs) ==
    /\ pending' = IF phase = "first" THEN (IF late THEN <<Failed>> ELSE <<>>) \o fs ELSE fs
    /\ late' = IF phase = "first" THEN FALSE ELSE late
    /\ orderly' = (orderly /\ (phase = "first" => Head(queue).type = "start" /\ ~canceled))
    /\ phase' = "looping"

(* The frames an event makes; those of the first come before the created   *)
(* ones, which the shell gives whatever it was.                            *)
Give(fs) ==
    /\ pending' = IF phase = "first" THEN (IF late THEN <<Failed>> ELSE <<>>) \o fs \o <<Created>>
                  ELSE fs
    /\ late' = IF phase = "first" THEN FALSE ELSE late
    /\ orderly' = (orderly /\ (phase = "first" => Head(queue).type = "start" /\ ~canceled))
    /\ phase' = "looping"

(* The final promise is settled, once. *)
Settle(value) == final' = IF final = "pending" THEN value ELSE final

(* The terminal status is fixed; the shell settles the promise with it,    *)
(* the other outputs when the generator is over.                           *)
Decide(st) ==
    /\ result' = IF result = "none" THEN st ELSE result
    /\ IF to = "responses" THEN Settle(result') ELSE UNCHANGED final

Undecided == UNCHANGED <<result, final>>

(* The generator ends by an error: a failed terminal, if there is none. *)
Fail ==
    /\ phase' = "tail" /\ Decide("failed")
    /\ pending' = IF result = "none" /\ ~canceled THEN <<Failed>> ELSE <<>>
    /\ orderly' = (orderly /\ phase # "first") /\ UNCHANGED late
-----------------------------------------------------------------------------
(* Events.                                                                 *)

(* tolerateUndeclaredToolCalls: the call of an unknown tool becomes a text *)
(* that says so.                                                           *)
Unknown(event) == event.type = "call" /\ call[event.call].tool = "undeclared"

Suppress(event) ==
    suppressed' = IF Unknown(event) THEN suppressed \union {event.call} ELSE suppressed

(* ... and the rest of it is skipped. *)
Skipped ==
    queue # <<>> /\ Head(queue).type \in {"args", "call end"} /\ Head(queue).call \in suppressed

Skip ==
    /\ Asking /\ Skipped /\ Taken
    /\ UNCHANGED <<to, phase, shell, suppressed, passed, canceled, final, woken, orderly, client>>

TakeCanceled ==
    /\ Asking /\ queue # <<>> /\ ~Live /\ ~Skipped
    /\ Taken /\ phase' = "tail"
    /\ UNCHANGED <<to, shell, suppressed, passed, canceled, final, woken, orderly, client>>

TakeStart ==
    /\ NextIs(Start) /\ Live
    /\ Taken /\ Give(<<>>)
    /\ UNCHANGED <<to, items, input, ended, ending, result, suppressed, passed, canceled, final, woken, client>>

(* A text or a refusal goes on with the message item; Anthropic goes on    *)
(* with the last block only, Chat and Gemini have no items of text.        *)
Fresh(key) ==
    CASE to = "responses" -> \A i \in DOMAIN items : items[i].key # key
      [] to = "anthropic" -> items = <<>> \/ items[Len(items)] # [key |-> key, open |-> TRUE]
      [] OTHER -> FALSE

AddItem(key) == items' = Append(items, [key |-> key, open |-> TRUE])

TakeContent(event, what) ==
    /\ NextIs(event) /\ Live
    /\ event = Content(what) \/ (Unknown(event) /\ what = "text")
    /\ LET key == IF what = "thinking" THEN "thinking" ELSE "text" IN
       IF Fresh(key) THEN AddItem(key) /\ Give(<<Added(key), Delta>>)
       ELSE Give(IF to = "gemini" /\ what = "refusal" THEN <<>> ELSE <<Delta>>) /\ UNCHANGED items
    /\ Suppress(event) /\ Taken
    /\ UNCHANGED <<to, input, ended, ending, result, passed, canceled, final, woken, client>>

TakeCall(c) ==
    /\ NextIs(CallStart(c)) /\ Live /\ ~Unknown(CallStart(c))
    /\ passed' = TRUE
    /\ AddItem(c) /\ Give(IF to = "gemini" THEN <<>> ELSE <<Added(c)>>)
    /\ Taken
    /\ UNCHANGED <<to, input, ended, ending, result, suppressed, canceled, final, woken, client>>

(* Gemini shows a call with the last frame. *)
TakeArgs(c, ps) ==
    /\ NextIs(Args(c, ps)) /\ Live /\ c \notin suppressed
    /\ input' = [input EXCEPT ![c] = @ \o ps]
    /\ Give(IF to = "gemini" \/ Custom(c) \/ ps = <<>> THEN <<>> ELSE <<Input(c, ps)>>)
    /\ Taken
    /\ UNCHANGED <<to, items, ended, ending, result, suppressed, passed, canceled, final, woken, client>>

Close(keys) ==
    items' = [i \in DOMAIN items |->
                 IF items[i].key \in keys THEN [items[i] EXCEPT !.open = FALSE] ELSE items[i]]

(* Chat and Anthropic do not look at the arguments. *)
Broken(c) == to \in {"responses", "gemini"} /\ ~call[c].whole

EndItem(c) ==
    Close({c}) /\ Give(IF to = "gemini" THEN <<>> ELSE <<Done(c)>>) /\ Undecided

(* Variant: a custom call is closed when its end comes. *)
TakeCallEndAtOnce(c) ==
    /\ NextIs(CallEnd(c)) /\ Live /\ c \notin suppressed
    /\ \/ /\ to = "chat" \/ Broken(c)
          /\ IF to = "chat" THEN Give(<<>>) /\ Undecided ELSE Fail
          /\ UNCHANGED items
       \/ to # "chat" /\ ~Broken(c) /\ EndItem(c)
    /\ Taken
    /\ UNCHANGED <<to, input, ended, ending, suppressed, passed, canceled, woken, client>>

(* The end of a call closes its item, if its arguments can be read; a      *)
(* custom call waits for the end of all.                                   *)
TakeCallEnd(c) ==
    /\ NextIs(CallEnd(c)) /\ Live /\ c \notin suppressed
    /\ ended' = IF Custom(c) THEN ended \union {c} ELSE ended
    /\ CASE to = "chat" \/ Custom(c) -> Give(<<>>) /\ Undecided /\ UNCHANGED items
         [] to # "chat" /\ ~Custom(c) /\ Broken(c) -> Fail /\ UNCHANGED items
         [] OTHER -> EndItem(c)
    /\ Taken
    /\ UNCHANGED <<to, input, ending, suppressed, passed, canceled, woken, client>>

(* Variant: the reason is passed on as it is. *)
TakeEndVerbatim(reason) ==
    /\ NextIs(End(reason)) /\ Live
    /\ IF reason = "other" THEN Fail /\ UNCHANGED ending
       ELSE ending' = reason /\ Give(<<>>) /\ Undecided
    /\ Taken
    /\ UNCHANGED <<to, items, input, ended, suppressed, passed, canceled, woken, client>>

(* "tool_calls" without a call that was passed on is a plain stop. *)
TakeEnd(reason) ==
    /\ NextIs(End(reason)) /\ Live
    /\ IF reason = "other" THEN Fail /\ UNCHANGED ending
       ELSE /\ ending' = IF reason = "tool_calls" /\ ~passed THEN "stop" ELSE reason
            /\ Give(<<>>) /\ Undecided
    /\ Taken
    /\ UNCHANGED <<to, items, input, ended, suppressed, passed, canceled, woken, client>>

(* The provider's error.  If it is the first event, the shell starts after *)
(* it all the same.                                                        *)
TakeError ==
    /\ NextIs(Error) /\ Live
    /\ IF phase = "first" THEN Give(IF result = "none" THEN <<Failed>> ELSE <<>>) /\ Decide("failed")
       ELSE Fail
    /\ Taken
    /\ UNCHANGED <<to, items, input, ended, ending, suppressed, passed, canceled, woken, client>>

-----------------------------------------------------------------------------
(* The end of the events.                                                  *)

Sound(item) == item.key \in Calls => call[item.key].whole

(* Variant: custom calls are never closed. *)
ClosableOthers(item) == item.open /\ ~Custom(item.key)

(* closeAllBlocks: of an incomplete response custom calls stay open. *)
Closable(item) == item.open /\ ~(Custom(item.key) /\ Incomplete(ending))

ToClose == {i \in DOMAIN items : Closable(items[i])}

Place(i) == Cardinality({j \in ToClose : j <= i})

(* The items that are closed now, in their order. *)
Closing == [n \in 1..Cardinality(ToClose) |-> items[CHOOSE i \in ToClose : Place(i) = n]]

DoneFrames(upto) == [i \in 1..upto |-> Done(Closing[i].key)]

Keys(upto) == {Closing[i].key : i \in 1..upto}

(* What ends the output without an error: the open items in their order,   *)
(* up to the first whose arguments are no object, then the terminal.       *)
EndResponses ==
    \/ /\ \A i \in DOMAIN Closing : Sound(Closing[i])
       /\ pending' = Append(DoneFrames(Len(Closing)), Terminal(Outcome(ending)))
       /\ Close(Keys(Len(Closing))) /\ Decide(Outcome(ending))
    \/ \E b \in DOMAIN Closing :
          /\ ~Sound(Closing[b]) /\ \A i \in 1..(b - 1) : Sound(Closing[i])
          /\ pending' = Append(DoneFrames(b - 1), Failed)
          /\ Close(Keys(b - 1)) /\ Decide("failed")

EndOthers ==
    /\ Decide(Outcome(ending))
    /\ IF to = "anthropic"
       THEN /\ Close(Keys(Len(Closing)))
            /\ pending' = Append(DoneFrames(Len(Closing)), Terminal(Outcome(ending)))
       ELSE pending' = <<Terminal(Outcome(ending))>> /\ UNCHANGED items

Unfinished == \E i \in DOMAIN items : Custom(items[i].key) /\ items[i].key \notin ended

(* An output that was over before is left alone; a response without an     *)
(* end, or with a custom call without one, has failed.                     *)
Conclude ==
    CASE canceled \/ result # "none" -> Undecided /\ UNCHANGED <<pending, items, late, orderly>> /\ phase' = "tail"
      [] ~canceled /\ result = "none" /\ to = "responses" /\ (ending = None \/ (~Incomplete(ending) /\ Unfinished)) ->
            Fail /\ UNCHANGED items
      [] OTHER -> /\ IF to = "responses" THEN EndResponses ELSE EndOthers
                  /\ phase' = "tail" /\ UNCHANGED <<late, orderly>>

SourceEnds ==
    /\ Asking /\ queue = <<>> /\ reader = "returned" /\ phase = "looping"
    /\ Conclude
    /\ UNCHANGED <<parser, to, input, ended, ending, suppressed, passed, canceled, woken, client>>

(* The parser threw: no message_end, an end it does not know, a broken     *)
(* frame; also what an abort makes of the read it wakes.                   *)
SourceThrows ==
    /\ Asking /\ queue = <<>> /\ reader = "thrown"
    /\ Fail
    /\ UNCHANGED <<parser, to, items, input, ended, ending, suppressed, passed, canceled, woken, client>>

(* finally: the final promise is settled and the body closed; a failed     *)
(* terminal an abort left is still given.                                  *)
Finish ==
    /\ phase = "tail" /\ pending = <<>> /\ body = "open"
    /\ phase' = "over" /\ body' = "closed" /\ woken' = TRUE /\ late' = FALSE
    /\ status' = IF late /\ status = "none" THEN "failed" ELSE status
    /\ Settle(IF to = "responses" \/ result # "failed" THEN result ELSE "none")
    /\ UNCHANGED <<parser, to, pending, items, input, ended, ending, result, suppressed, passed,
                   canceled, orderly, created, added, done, got>>

-----------------------------------------------------------------------------
(* The client.                                                             *)

(* A chunk is pulled.  Gemini's body is closed with an error frame, its    *)
(* generator left where it is; its last frame brings the calls.            *)
Pull ==
    /\ pending # <<>> /\ body = "open"
    /\ pending' = Tail(pending)
    /\ LET f == Head(pending)
           calls == IF to = "gemini" /\ f.type = "terminal" /\ f.status # "failed"
                    THEN {c \in Calls : \E i \in DOMAIN items : items[i] = [key |-> c, open |-> FALSE]} ELSE {}
       IN /\ created' = (created \/ f.type = "created")
          /\ status' = IF f.type = "terminal" /\ status = "none" THEN f.status ELSE status
          /\ added' = IF f.type = "added" THEN added \union {f.key} ELSE added \union calls
          /\ done'  = IF f.type = "done" THEN done \union {f.key} ELSE done \union calls
          /\ got'   = IF f.type = "input" THEN [got EXCEPT ![f.key] = @ \o f.pieces]
                      ELSE [c \in Calls |-> IF c \in calls \/ (f.type = "done" /\ f.key = c) THEN input[c] ELSE got[c]]
          /\ body' = IF to = "gemini" /\ f.type = "terminal" /\ f.status = "failed" THEN "closed" ELSE body
    /\ UNCHANGED <<parser, to, phase, late, items, input, ended, ending, result, suppressed, passed,
                   canceled, final, woken, orderly>>

(* handleAbort: nothing after the end; the read in progress is woken. *)
Listening == ~canceled /\ IF to = "responses" THEN result = "none" ELSE final = "pending"

(* Variant: nobody settles the final promise. *)
HandleAbortUnsettled ==
    IF Listening
    THEN /\ canceled' = TRUE /\ late' = (to = "responses")
         /\ result' = (IF to = "responses" THEN "failed" ELSE result)
         /\ UNCHANGED final
    ELSE UNCHANGED <<canceled, late, result, final>>

HandleAbort ==
    IF Listening
    THEN /\ canceled' = TRUE /\ late' = (to = "responses")
         /\ IF to = "responses" THEN Decide("failed") ELSE Settle("none") /\ UNCHANGED result
    ELSE UNCHANGED <<canceled, late, result, final>>

(* Variant: the read in progress is left waiting. *)
AbortAsleep ==
    /\ phase # "over" /\ Listening
    /\ HandleAbort
    /\ UNCHANGED <<parser, to, phase, pending, items, input, ended, ending, suppressed, passed, woken,
                   orderly, client>>

Abort ==
    /\ phase # "over" /\ Listening
    /\ HandleAbort /\ woken' = TRUE
    /\ UNCHANGED <<parser, to, phase, pending, items, input, ended, ending, suppressed, passed, orderly, client>>

Cancel ==
    /\ body = "open"
    /\ HandleAbort /\ woken' = TRUE
    /\ body' = "canceled" /\ phase' = "over"
    /\ UNCHANGED <<parser, to, pending, items, input, ended, ending, suppressed, passed, orderly,
                   created, status, added, done, got>>

-----------------------------------------------------------------------------
Take ==
    \/ Skip \/ TakeCanceled \/ TakeStart \/ TakeError
    \/ \E c \in Calls :
          \/ TakeCall(c) \/ TakeCallEnd(c) \/ TakeContent(CallStart(c), "text")
          \/ queue # <<>> /\ Head(queue).type = "args" /\ TakeArgs(c, Head(queue).pieces)
    \/ \E what \in Contents : TakeContent(Content(what), what)
    \/ \E reason \in AllReasons : TakeEnd(reason)

Generate == Begin \/ Take \/ SourceEnds \/ SourceThrows \/ Finish

Next == Parse \/ Generate \/ Pull \/ Abort \/ Cancel

Spec == Init /\ [][Next]_vars

(* The client reads on, generators run when they can, and a read that was  *)
(* woken ends: by an error, or with what had come before it.               *)
Fairness ==
    /\ WF_vars(Pull) /\ WF_vars(Generate)
    /\ WF_vars(woken /\ Parse)
    /\ WF_vars(woken /\ Asking /\ ReadBroken
               /\ UNCHANGED <<to, phase, shell, suppressed, passed, canceled, final, woken, orderly, client>>)

FairSpec == Spec /\ Fairness
-----------------------------------------------------------------------------
Statuses == {"none", "completed", "incomplete", "failed"}
ItemKeys == Calls \union {"text", "thinking"}

(* The types of the state: parser, output, client. *)
TypeOK ==
    /\ from \in Protocols /\ json \in BOOLEAN /\ to \in Clients
    /\ reader \in {"reading", "flushing", "ended", "returned", "thrown"}
    /\ started \in BOOLEAN /\ stop \in AllReasons \union {None} /\ blocks \in BOOLEAN
    /\ texts \in 0..MaxTexts /\ order \in Seq(Calls)
    /\ \A c \in Calls : /\ call[c].state \in {"none", "waiting", "open", "ended"}
                        /\ call[c].tool \in Tools /\ call[c].held \in 0..call[c].sent
    /\ phase \in {"new", "first", "looping", "tail", "over"}
    /\ late \in BOOLEAN /\ passed \in BOOLEAN /\ canceled \in BOOLEAN /\ woken \in BOOLEAN
    /\ \A i \in DOMAIN items : items[i].key \in ItemKeys /\ items[i].open \in BOOLEAN
    /\ suppressed \subseteq Calls /\ ended \subseteq Calls
    /\ ending \in AllReasons \union {None} /\ result \in Statuses /\ status \in Statuses
    /\ final \in Statuses \union {"pending"} /\ body \in {"open", "closed", "canceled"}
    /\ {added, done} \subseteq SUBSET ItemKeys

(* What the protocol of the provider says of a message that is complete. *)
EndSaid ==
    CASE json -> "document" \in said
      [] ~json /\ from = "chat" -> "done" \in said \/ {"stop", "eof"} \subseteq said
      [] ~json /\ from = "anthropic" -> "stop" \in said /\ said \intersect {"message stop", "done"} # {}
      [] ~json /\ from = "gemini" -> "stop" \in said /\ said \intersect {"done", "eof"} # {}
      [] OTHER -> "completed" \in said

(* A client is told that a response is complete only if the provider said  *)
(* so in its own protocol, reported no error and left no call open: a      *)
(* connection that ends early is a failure to every client.  A response    *)
(* that is complete leaves no item or block open, and one that ends for    *)
(* its tool calls has one the client was shown: an agent that is told to   *)
(* run tools is never left without any.                                    *)
TrueCompletion ==
    status = "completed" =>
        /\ EndSaid /\ "error" \notin said /\ OpenCalls = {}
        /\ done \subseteq added
        /\ to \in {"responses", "anthropic"} => added \subseteq done
        /\ ending = "tool_calls" => added \intersect Calls # {}

(* The client gets the pieces of a call's arguments in their order, none   *)
(* twice and none left out: what came before the name and what the parser  *)
(* kept included.                                                          *)
ArgumentsInOrder ==
    \A c \in Calls :
        /\ got[c] = [k \in 1..Len(got[c]) |-> k]
        /\ call[c].state = "ended" /\ (c \in done \/ (status = "completed" /\ c \in added))
              => Len(got[c]) = call[c].sent

(* The input of a custom call, which the client would run, reaches it only *)
(* when the provider's response is over and was not cut short, and only as *)
(* a whole (output.ts:572).                                                *)
CustomInputWhole ==
    \A c \in Calls \intersect done :
        Custom(c) => /\ reader = "returned" /\ ending # None /\ ~Incomplete(ending)
                     /\ call[c].state = "ended" /\ call[c].whole

(* The final promise is settled when the body is over (but for Gemini) and *)
(* tells of a result only what the client was told.                        *)
FinalAgrees ==
    /\ body # "open" /\ to # "gemini" => final # "pending"
    /\ body = "closed" /\ final \in {"completed", "incomplete"} => status = final
    /\ body = "closed" /\ status = "completed" /\ ~canceled => final = "completed"

(* What the client was given and what the gateway takes the answer for are *)
(* the provider's answer (output.ts).                                      *)
AnswerWhole == ArgumentsInOrder /\ FinalAgrees

(* A stream that begins with the start of the provider's message, before   *)
(* any abort, starts, then shows items, then ends, and nothing follows.    *)
StreamOrder ==
    [][orderly' /\ to # "gemini" =>
           /\ (added' # {} \/ status' # "none") => created'
           /\ status # "none" => UNCHANGED <<created, status, added, done, got>>]_vars

(* An aborted response ends, however long the provider stays silent. *)
AbortEnds == canceled ~> body # "open"

(* Nothing follows the terminal event of a response (output.ts:4). *)
TerminalLast ==
    [][status # "none" => UNCHANGED <<created, status, added, done, got>>]_vars
=============================================================================
