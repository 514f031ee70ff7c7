--------------------------- MODULE UpstreamEvents ---------------------------
(***************************************************************************)
(* The parsers of packages/llm-bridge/src/events.ts: what a provider sends *)
(* in one of four protocols, as a stream of frames or one JSON document,   *)
(* becomes one kind of events.  A parser is a generator: it reads the next *)
(* frame when the events of the last one are taken.                        *)
(*                                                                         *)
(* The provider may send any frame at any time, repeat none of its calls'  *)
(* identifiers, and stop or fail anywhere.  A frame with several parts is  *)
(* several frames.  The text of arguments is a number of pieces; whether   *)
(* they make a JSON object so far is chosen with each piece.               *)
(***************************************************************************)
EXTENDS Integers, Sequences, FiniteSets

CONSTANTS
    Calls,      \* identifiers (or indexes) of tool calls in one response
    Contents,   \* kinds of content the provider sends
    Reasons,    \* kinds of stop reason it names
    MaxTexts,   \* bound on the texts and pieces of arguments in one response
    None

AllReasons == {"stop", "tool_calls", "length", "content_filter", "other"}

ASSUME StreamAssumption ==
    /\ Contents \subseteq {"text", "thinking", "refusal"} /\ Reasons \subseteq AllReasons
    /\ MaxTexts \in Nat /\ IsFiniteSet(Calls) /\ None \notin Calls \union AllReasons
    /\ Calls \intersect {"text", "thinking"} = {}

VARIABLES
    from,       \* the provider's protocol
    json,       \* does it answer with one document?
    reader,     \* "reading", "flushing", "ended", "returned", "thrown"
    started,    \* message_start was given
    stop,       \* the stop reason the provider named, or None
    blocks,     \* Anthropic: is a block of text or thinking open?
    call,       \* per call: how far it is, the tool, the pieces sent and those held back
    order,      \* the calls in the order they came
    queue,      \* events not yet taken
    texts,      \* texts and pieces of arguments read
    said        \* history: the signals about its end the provider sent

parser == <<from, json, reader, started, stop, blocks, call, order, queue, texts, said>>

Protocols == {"chat", "anthropic", "gemini", "responses"}

(* What the name of a tool resolves to in toolIdentities. *)
Tools == {"function", "custom", "undeclared"}

(* "waiting": the name is missing.  native: a custom call in Responses. *)
NoCall == [state |-> "none", tool |-> "undeclared", native |-> FALSE,
           sent |-> 0, held |-> 0, whole |-> TRUE]

Start         == [type |-> "start"]
Content(what) == [type |-> "content", what |-> what]
CallStart(c)  == [type |-> "call", call |-> c]
Args(c, ps)   == [type |-> "args", call |-> c, pieces |-> ps]
CallEnd(c)    == [type |-> "call end", call |-> c]
End(reason)   == [type |-> "end", reason |-> reason]
Error         == [type |-> "error"]

ParserInit ==
    /\ from \in Protocols /\ json \in BOOLEAN
    /\ reader = "reading" /\ started = FALSE /\ stop = None /\ blocks = FALSE
    /\ call = [c \in Calls |-> NoCall] /\ order = <<>>
    /\ queue = <<>> /\ texts = 0 /\ said = {}

-----------------------------------------------------------------------------
(* The next frame is read; it may hold a text. *)
Frame == reader = "reading" /\ queue = <<>>

Text(n) == texts + n <= MaxTexts /\ texts' = texts + n

(* Nothing of the message was read. *)
Untouched == ~started /\ texts = 0 /\ order = <<>>

Emit(events)   == queue' = events /\ UNCHANGED reader
Return(events) == queue' = events /\ reader' = "returned"
Throw          == queue' = <<>> /\ reader' = "thrown"

(* Chat, Gemini and every document but that of Responses name the message *)
(* before anything else in it.                                            *)
Opening == IF ~started /\ (from \in {"chat", "gemini"} \/ (json /\ from # "responses"))
           THEN <<Start>> ELSE <<>>

(* started, once the opening is given. *)
Opened == started' = (started \/ Opening # <<>>)

Open(c) == call[c].state \in {"waiting", "open"}

(* Text, thinking and refusals go straight through. *)
ReadContent(what) ==
    /\ Frame /\ Text(1)
    /\ what = "refusal" => from = "chat" \/ (from = "responses" /\ ~json)
    /\ Emit(Opening \o <<Content(what)>>) /\ Opened
    /\ UNCHANGED <<from, json, stop, blocks, call, order, said>>

(* A frame that only opens the message: message_start, response.created,   *)
(* the role alone.                                                         *)
ReadStart ==
    /\ Frame /\ ~json
    /\ Emit(IF started THEN <<>> ELSE <<Start>>) /\ started' = TRUE
    /\ UNCHANGED <<from, json, stop, blocks, call, order, said, texts>>

(* Blocks without a call, of which the parser remembers only that they are open. *)
ReadBlock ==
    /\ Frame /\ from = "anthropic" /\ ~json
    /\ blocks' = ~blocks /\ Emit(<<>>)
    /\ UNCHANGED <<from, json, started, stop, call, order, said, texts>>

(* A finish reason (Chat, Gemini), message_delta. *)
ReadStop(reason) ==
    /\ Frame /\ from # "responses" /\ ~json
    /\ stop' = reason /\ said' = said \union {"stop"}
    /\ Emit(Opening) /\ Opened
    /\ UNCHANGED <<from, json, blocks, call, order, texts>>

-----------------------------------------------------------------------------
(* Tool calls.                                                             *)

(* A piece more; its text makes a JSON object now, or not. *)
Longer(record) == {[record EXCEPT !.sent = @ + 1, !.whole = w] : w \in BOOLEAN}

(* Variant: arguments that came before the name are dropped. *)
ChatEventsDropping(c, new) ==
    IF new.state # "open" THEN <<>>
    ELSE (IF call[c].state = "open" THEN <<>> ELSE <<CallStart(c)>>)
         \o (IF new.sent > call[c].sent THEN <<Args(c, <<new.sent>>)>> ELSE <<>>)

(* What a frame of call c yields: its start as soon as the name is known,  *)
(* the pieces held back until then, the piece of the frame.                *)
ChatEvents(c, new) ==
    IF new.state # "open" THEN <<>>
    ELSE (IF call[c].state = "open" THEN <<>>
          ELSE <<CallStart(c)>> \o [k \in 1..call[c].held |-> Args(c, <<k>>)])
         \o (IF new.sent > call[c].sent THEN <<Args(c, <<new.sent>>)>> ELSE <<>>)

(* Chat: the identifier, the name and the pieces of a call come in any     *)
(* frames; a frame without identifier for an unknown index is skipped.     *)
ReadChatCall(c, tool, piece) ==
    /\ Frame /\ Text(IF piece THEN 1 ELSE 0) /\ from = "chat" /\ ~json
    /\ tool # None => call[c].state # "open"
    /\ LET state == IF tool # None \/ call[c].state = "open" THEN "open" ELSE "waiting"
           named == [call[c] EXCEPT !.state = state, !.tool = IF tool # None THEN tool ELSE @]
       IN \E new \in IF piece THEN Longer(named) ELSE {named} :
             /\ Emit(Opening \o ChatEvents(c, new)) /\ Opened
             /\ call' = [call EXCEPT ![c] = IF state = "open" THEN [new EXCEPT !.held = 0]
                                             ELSE [new EXCEPT !.held = new.sent]]
    /\ order' = IF call[c].state = "none" THEN Append(order, c) ELSE order
    /\ UNCHANGED <<from, json, stop, blocks, said>>

(* Anthropic's content_block_start, Responses' output_item.added: a call   *)
(* with its name; Responses takes it for the start of the message.         *)
ReadCallStart(c, tool, native) ==
    /\ Frame /\ from \in {"anthropic", "responses"} /\ ~json
    /\ call[c].state = "none" /\ (native => from = "responses")
    /\ call' = [call EXCEPT ![c] = [NoCall EXCEPT !.state = "open", !.tool = tool, !.native = native]]
    /\ order' = Append(order, c)
    /\ IF from = "responses" /\ ~started
       THEN Emit(<<Start, CallStart(c)>>) /\ started' = TRUE
       ELSE Emit(<<CallStart(c)>>) /\ UNCHANGED started
    /\ UNCHANGED <<from, json, stop, blocks, said, texts>>

(* A piece goes through, but the free text of a custom call in Responses   *)
(* is kept until its end.                                                  *)
ReadPiece(c) ==
    /\ Frame /\ Text(1) /\ from \in {"anthropic", "responses"} /\ ~json
    /\ call[c].state = "open"
    /\ \E new \in Longer(call[c]) :
          /\ call' = [call EXCEPT ![c] = IF call[c].native THEN [new EXCEPT !.held = new.sent, !.whole = TRUE]
                                         ELSE new]
          /\ Emit(IF call[c].native THEN <<>> ELSE <<Args(c, <<new.sent>>)>>)
    /\ UNCHANGED <<from, json, started, stop, blocks, order, said>>

(* content_block_stop, custom_tool_call_input.done, output_item.done. *)
ReadCallEnd(c) ==
    /\ Frame /\ from \in {"anthropic", "responses"} /\ ~json
    /\ call[c].state = "open"
    /\ call' = [call EXCEPT ![c].state = "ended", ![c].held = 0]
    /\ Emit(IF call[c].native THEN <<Args(c, [k \in 1..call[c].held |-> k]), CallEnd(c)>>
            ELSE <<CallEnd(c)>>)
    /\ UNCHANGED <<from, json, started, stop, blocks, order, said, texts>>

(* Gemini, and every document: a call at once.  Documents of Chat and     *)
(* Responses hold its arguments as text.                                  *)
ReadWholeCall(c, tool, whole) ==
    /\ Frame /\ Text(1) /\ (json \/ from = "gemini")
    /\ call[c].state = "none" /\ (~whole => json /\ from \in {"chat", "responses"})
    /\ call' = [call EXCEPT ![c] = [NoCall EXCEPT !.state = "ended", !.tool = tool,
                                                  !.sent = 1, !.whole = whole]]
    /\ order' = Append(order, c)
    /\ Emit(Opening \o <<CallStart(c), Args(c, <<1>>), CallEnd(c)>>) /\ Opened
    /\ UNCHANGED <<from, json, stop, blocks, said>>

-----------------------------------------------------------------------------
(* The end.                                                                *)

SawCall == order # <<>>
OpenCalls == {c \in Calls : Open(c)}

(* [DONE]; only Chat and Gemini end by it without more ado. *)
ReadDone ==
    /\ reader = "reading" /\ queue = <<>> /\ ~json
    /\ said' = said \union {"done"}
    /\ CASE from = "chat" /\ started -> reader' = "flushing" /\ queue' = <<>>
         [] from = "anthropic" /\ started /\ stop # None /\ ~blocks /\ OpenCalls = {} -> Return(<<End(stop)>>)
         [] from = "gemini" /\ started /\ stop # None -> Return(<<End(stop)>>)
         [] OTHER -> Throw
    /\ UNCHANGED <<from, json, started, stop, blocks, call, order, texts>>

(* Variant: the end of the connection is taken for the end of the message. *)
ReadEofLenient ==
    /\ reader = "reading" /\ queue = <<>> /\ ~json
    /\ said' = said \union {"eof"}
    /\ CASE from = "chat" /\ started -> reader' = "flushing" /\ queue' = <<>>
         [] from = "gemini" /\ started /\ stop # None -> Return(<<End(stop)>>)
         [] OTHER -> Throw
    /\ UNCHANGED <<from, json, started, stop, blocks, call, order, texts>>

(* The connection ends; a message is complete only if its reason came. *)
ReadEof ==
    /\ reader = "reading" /\ queue = <<>> /\ ~json
    /\ said' = said \union {"eof"}
    /\ CASE from = "chat" /\ started /\ stop # None -> reader' = "flushing" /\ queue' = <<>>
         [] from = "gemini" /\ started /\ stop # None -> Return(<<End(stop)>>)
         [] OTHER -> Throw
    /\ UNCHANGED <<from, json, started, stop, blocks, call, order, texts>>

(* message_stop. *)
ReadMessageStop ==
    /\ reader = "reading" /\ queue = <<>> /\ from = "anthropic" /\ ~json
    /\ said' = said \union {"message stop"}
    /\ IF started /\ stop # None /\ ~blocks /\ OpenCalls = {} THEN Return(<<End(stop)>>) ELSE Throw
    /\ UNCHANGED <<from, json, started, stop, blocks, call, order, texts>>

(* Gemini's blockReason ends the message at once. *)
ReadBlocked ==
    /\ reader = "reading" /\ queue = <<>> /\ from = "gemini" /\ (json => Untouched)
    /\ said' = said \union {"blocked"}
    /\ Return(Opening \o <<End("content_filter")>>) /\ Opened
    /\ UNCHANGED <<from, json, stop, blocks, call, order, texts>>

(* Chat's calls end with the stream, one after the other; one that never   *)
(* got a name starts without.                                              *)
Flush ==
    /\ reader = "flushing" /\ queue = <<>>
    /\ IF order = <<>>
       THEN Return(<<End(IF stop = None THEN "stop" ELSE stop)>>) /\ UNCHANGED <<call, order>>
       ELSE LET c == Head(order) IN
            /\ Emit((IF call[c].state = "open" THEN <<>>
                     ELSE <<CallStart(c)>> \o [k \in 1..call[c].held |-> Args(c, <<k>>)])
                    \o <<CallEnd(c)>>)
            /\ call' = [call EXCEPT ![c].state = "ended", ![c].held = 0]
            /\ order' = Tail(order)
    /\ UNCHANGED <<from, json, started, stop, blocks, texts, said>>

(* response.completed and response.incomplete: the reason is derived. *)
ReadTerminal(status, reason) ==
    /\ reader = "reading" /\ queue = <<>> /\ from = "responses" /\ ~json
    /\ reason \in (IF status = "completed" THEN {IF SawCall THEN "tool_calls" ELSE "stop"}
                   ELSE {"length", "content_filter"})
    /\ said' = said \union {status}
    /\ IF \/ status = "completed" /\ started /\ OpenCalls = {}
          \/ status = "incomplete" /\ \A c \in OpenCalls : call[c].native
       THEN /\ queue' = (IF started THEN <<>> ELSE <<Start>>) \o <<End(reason)>>
            /\ reader' = "ended" /\ started' = TRUE
       ELSE Throw /\ UNCHANGED started
    /\ UNCHANGED <<from, json, stop, blocks, call, order, texts>>

(* After it only [DONE] or the end of the connection may come. *)
ReadAfterTerminal ==
    /\ reader = "ended" /\ queue = <<>>
    /\ reader' \in {"returned", "thrown"}
    /\ UNCHANGED <<from, json, started, stop, blocks, call, order, queue, texts, said>>

(* The end of a document: Responses names the message only here.  A       *)
(* missing reason counts as stop.                                         *)
ReadDocumentEnd(reason) ==
    /\ reader = "reading" /\ queue = <<>> /\ json
    /\ from = "responses" =>
          reason \in {"length", "content_filter", IF SawCall THEN "tool_calls" ELSE "stop"}
    /\ said' = said \union {"document"}
    /\ Return(Opening \o (IF from = "responses" THEN <<Start>> ELSE <<>>) \o <<End(reason)>>)
    /\ started' = TRUE
    /\ UNCHANGED <<from, json, stop, blocks, call, order, texts>>

(* An error the provider reports: in a stream at any time (Chat's frame   *)
(* opens the message), in a document instead of anything else (a document *)
(* of Anthropic has none).                                                *)
ReadError ==
    /\ reader = "reading" /\ queue = <<>>
    /\ json => Untouched /\ from # "anthropic"
    /\ said' = said \union {"error"}
    /\ Return((IF from = "chat" /\ ~json THEN Opening ELSE <<>>) \o <<Error>>)
    /\ UNCHANGED <<from, json, started, stop, blocks, call, order, texts>>

(* A frame cannot be read, contradicts the ones before, or is cut off; the *)
(* connection breaks.  A document is read as a whole, but Responses looks  *)
(* at the input of a custom call only when it comes to it.                 *)
ReadBroken ==
    /\ reader = "reading" /\ queue = <<>> /\ (json => Untouched \/ from = "responses")
    /\ Throw
    /\ UNCHANGED <<from, json, started, stop, blocks, call, order, texts, said>>

MaybeTool == Tools \union {None}

Read ==
    \/ \E what \in Contents : ReadContent(what)
    \/ ReadStart \/ ReadBlock
    \/ \E reason \in Reasons : ReadStop(reason)
    \/ \E reason \in Reasons \union {"stop"} : ReadDocumentEnd(reason)
    \/ \E c \in Calls :
          \/ \E tool \in MaybeTool, piece \in BOOLEAN : ReadChatCall(c, tool, piece)
          \/ \E tool \in Tools, b \in BOOLEAN : ReadCallStart(c, tool, b) \/ ReadWholeCall(c, tool, b)
          \/ ReadPiece(c) \/ ReadCallEnd(c)
    \/ ReadDone \/ ReadEof \/ ReadMessageStop \/ ReadBlocked \/ Flush
    \/ \E status \in {"completed", "incomplete"}, reason \in Reasons \union {"stop"} : ReadTerminal(status, reason)
    \/ ReadAfterTerminal \/ ReadError \/ ReadBroken
=============================================================================
