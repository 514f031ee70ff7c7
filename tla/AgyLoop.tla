------------------------------- MODULE AgyLoop -------------------------------
(***************************************************************************)
(* One turn of a conversation through the Antigravity plugin, there and    *)
(* back: the upstream's frames become the items of a Responses answer      *)
(* (response.ts, streamResponses), the items are rendered for the client's *)
(* protocol (renderChatClient, renderGeminiClient, renderAnthropicClient), *)
(* the client calls the tools and sends the turn back, and the history is  *)
(* normalised and converted to the upstream's contents (request.ts).       *)
(*                                                                         *)
(* What matters is what must survive the round trip: each call, under its  *)
(* own number, its result, and the thought signature that the upstream     *)
(* demands back with the call it was issued for.  Text is one word.        *)
(***************************************************************************)
EXTENDS Naturals, Sequences, FiniteSets

CONSTANTS
    AgyTools,       \* the tools the request declares
    AgyCustom,      \* those of them that take free text
    Signatures,     \* thought signatures of the upstream
    NoSig,          \* the absence of one
    MaxParts        \* bound: the parts of one answer

ASSUME AgyAssumption ==
    AgyCustom \subseteq AgyTools /\ NoSig \notin Signatures /\ MaxParts \in Nat

VARIABLES
    agyClient,      \* the protocol of the caller
    agyPhase,       \* "streaming", "ended" or "replayed"
    agyParts,       \* how many parts the upstream has sent
    agyMade,        \* the calls of the answer: tool, and signature in its frame
    agyCache,       \* pendingSignature, of the frame being read
    agyOwed,        \* the signature sent alone since the last call
    agyOutput,      \* output: the items of the Responses answer
    agyShown,       \* what the client has been given
    agyOpen,        \* blockKind of the Anthropic renderer
    agyStatus,      \* finalResponse: the end of the answer
    agyBack         \* the contents the next request is converted to

agyVars == <<agyClient, agyPhase, agyParts, agyMade, agyCache, agyOwed,
             agyOutput, agyShown, agyOpen, agyStatus, agyBack>>

AgyClients == {"responses", "chat-completions", "gemini", "anthropic"}
Piece(k, n, s) == [kind |-> k, n |-> n, sig |-> s]
Word(k) == Piece(k, 0, NoSig)
CallKind(t) == IF t \in AgyCustom THEN "custom" ELSE "function"
Holds(s, k) == \E i \in DOMAIN s : s[i].kind = k
Only(s, K) ==
    LET kept[i \in 0..Len(s)] ==
            IF i = 0 THEN <<>>
            ELSE IF s[i].kind \in K THEN Append(kept[i - 1], s[i]) ELSE kept[i - 1]
    IN kept[Len(s)]

Nothing == [contents |-> <<>>, sig |-> NoSig, open |-> FALSE, called |-> {},
            answered |-> {}, ok |-> TRUE]

AgyInit ==
    /\ agyClient \in AgyClients /\ agyPhase = "streaming" /\ agyParts = 0
    /\ agyMade = <<>> /\ agyCache = NoSig /\ agyOwed = NoSig
    /\ agyOutput = <<>> /\ agyShown = <<>> /\ agyOpen = "none"
    /\ agyStatus = "none" /\ agyBack = Nothing

-----------------------------------------------------------------------------
(* The renderers: what one event adds to what the client has.               *)

(* Chat: content and calls; envelopes and custom calls have no chunk.       *)
ChatShows(shown, p) ==
    IF p.kind \in {"message", "thought", "function"} THEN Append(shown, p) ELSE shown

(* Gemini: a part for each delta; the calls are kept for the end, so here   *)
(* they are behind the text in the same sequence.                           *)
GeminiShows(shown, p) ==
    CASE p.kind \in {"message", "thought"} ->
             Only(shown, {"message", "thought"}) \o <<p>> \o Only(shown, {"function"})
      [] p.kind = "function" -> Append(shown, p)
      [] OTHER -> shown

(* Variant: a second call goes on in the block of the first. *)
AnthropicShowsJoined(shown, p) ==
    CASE p.kind \in {"message", "thought", "function"} ->
             IF agyOpen = p.kind THEN shown ELSE Append(shown, p)
      [] p.kind = "envelope" -> Append(shown, p)
      [] OTHER -> shown

(* Anthropic: a block goes on while its kind does; an envelope is a thinking*)
(* block of its own, without words and closed at once.                      *)
AnthropicShows(shown, p) ==
    CASE p.kind \in {"message", "thought"} ->
             IF agyOpen = p.kind THEN shown ELSE Append(shown, p)
      [] p.kind \in {"envelope", "function"} -> Append(shown, p)
      [] OTHER -> shown
OpenAfter(p) ==
    CASE agyClient = "anthropic" /\ p.kind \in {"message", "thought", "function"} -> p.kind
      [] agyClient = "anthropic" /\ p.kind = "envelope" -> "none"
      [] OTHER -> agyOpen

Shows(shown, p) ==
    CASE agyClient = "chat-completions" -> ChatShows(shown, p)
      [] agyClient = "gemini" -> GeminiShows(shown, p)
      [] agyClient = "anthropic" -> AnthropicShows(shown, p)
      [] OTHER -> shown

-----------------------------------------------------------------------------
(* The answer.                                                              *)

Streaming == agyPhase = "streaming" /\ agyParts < MaxParts /\ agyParts' = agyParts + 1

(* The next frame: the signature that waits is a variable of the frame.     *)
NextFrame ==
    /\ Streaming /\ agyCache # NoSig
    /\ agyCache' = NoSig
    /\ UNCHANGED <<agyClient, agyPhase, agyMade, agyOwed, agyOutput,
                   agyShown, agyOpen, agyStatus, agyBack>>

(* A part that is only a signature.                                         *)
LoneSignature(s) ==
    /\ Streaming /\ agyCache' = s /\ agyOwed' = s
    /\ UNCHANGED <<agyClient, agyPhase, agyMade, agyOutput, agyShown, agyOpen,
                   agyStatus, agyBack>>

(* Text and thought: one item of each, made where the first word arrives.   *)
AppendWord(k) ==
    /\ Streaming
    /\ agyOutput' = IF Holds(agyOutput, k) THEN agyOutput ELSE Append(agyOutput, Word(k))
    /\ agyShown' = Shows(agyShown, Word(k)) /\ agyOpen' = OpenAfter(Word(k))
    /\ UNCHANGED <<agyClient, agyPhase, agyMade, agyCache, agyOwed,
                   agyStatus, agyBack>>

(* A call: its signature travels in an envelope item of its own before it.  *)
OpenToolCall(t, s) ==
    LET n == Len(agyMade) + 1
        used == IF s # NoSig THEN s ELSE agyCache
        envelope == Piece("envelope", 0, used)
        call == Piece(CallKind(t), n, NoSig)
    IN /\ Streaming
       /\ agyMade' = Append(agyMade, [tool |-> t, sig |-> used])
       /\ agyCache' = NoSig /\ agyOwed' = NoSig
       /\ agyOutput' = Append(IF used # NoSig THEN Append(agyOutput, envelope) ELSE agyOutput, call)
       /\ agyShown' = Shows(IF used # NoSig THEN Shows(agyShown, envelope) ELSE agyShown, call)
       /\ agyOpen' = OpenAfter(call)
       /\ UNCHANGED <<agyClient, agyPhase, agyStatus, agyBack>>

(* finish: the first end is the end.  The finish reasons come in three      *)
(* dispositions; an error frame, a broken stream and an abort fail it.      *)
AgyFinish(status) ==
    /\ agyPhase = "streaming" /\ agyStatus = "none"
    /\ agyPhase' = "ended" /\ agyStatus' = status
    /\ agyCache' = NoSig /\ agyOwed' = NoSig
    /\ UNCHANGED <<agyClient, agyParts, agyMade, agyOutput, agyShown, agyOpen,
                   agyBack>>

-----------------------------------------------------------------------------
(* The history: the turn as the client sends it back, made Responses items. *)

Results(calls) == [i \in DOMAIN calls |-> Piece("output", calls[i].n, NoSig)]

AgyResponsesItems == agyOutput \o Results(Only(agyOutput, {"function", "custom"}))
AgyChatItems ==
    (IF Holds(agyShown, "message") THEN <<Word("message")>> ELSE <<>>)
      \o Only(agyShown, {"function"}) \o Results(Only(agyShown, {"function"}))

(* Calls of a Gemini history have no identity: a response takes the last    *)
(* call of its name, and leaves none for another of that name.              *)
AgyGeminiItems ==
    LET calls == Only(agyShown, {"function"})
        tool(i) == agyMade[calls[i].n].tool
        same(i) == {j \in DOMAIN calls : tool(j) = tool(i)}
        lastOf(i) == CHOOSE j \in same(i) : \A k \in same(i) : k <= j
        paired == [i \in DOMAIN calls |->
                     IF \E j \in 1..(i - 1) : tool(j) = tool(i)
                     THEN Word("unpaired") ELSE Piece("output", calls[lastOf(i)].n, NoSig)]
    IN Only(agyShown, {"message", "function"}) \o paired

(* One Anthropic message: its text, then its signatures, then its calls; of *)
(* the message with results nothing else is kept.                           *)
AgyAnthropicItems ==
    LET calls == Only(agyShown, {"function"})
    IN (IF Holds(agyShown, "message") \/ Holds(agyShown, "thought") THEN <<Word("message")>> ELSE <<>>)
         \o Only(agyShown, {"envelope"}) \o calls \o Results(calls)

Items ==
    CASE agyClient = "responses" -> AgyResponsesItems
      [] agyClient = "chat-completions" -> AgyChatItems
      [] agyClient = "gemini" -> AgyGeminiItems
      [] OTHER -> AgyAnthropicItems

-----------------------------------------------------------------------------
(* translateAgyRequest: one item of the history after the other.            *)

AsModel(acc, p) ==
    IF acc.open
    THEN [acc EXCEPT !.contents[Len(acc.contents)].parts = Append(@, p)]
    ELSE [acc EXCEPT !.contents = Append(@, [role |-> "model", parts |-> <<p>>]), !.open = TRUE]
AsUser(acc, p) ==
    [acc EXCEPT !.contents = Append(@, [role |-> "user", parts |-> <<p>>]), !.open = FALSE]

(* Variant: a signature stays for the calls that follow. *)
ConvertCallSticky(acc, p) ==
    IF p.n \in acc.called THEN [acc EXCEPT !.ok = FALSE]
    ELSE [AsModel(acc, Piece(p.kind, p.n, acc.sig)) EXCEPT !.called = @ \union {p.n}]

ConvertCall(acc, p) ==
    IF p.n \in acc.called THEN [acc EXCEPT !.ok = FALSE]
    ELSE [AsModel(acc, Piece(p.kind, p.n, acc.sig)) EXCEPT
            !.called = @ \union {p.n}, !.sig = NoSig]

ConvertOutput(acc, p) ==
    IF p.n \notin acc.called \/ p.n \in acc.answered THEN [acc EXCEPT !.ok = FALSE]
    ELSE [AsUser(acc, p) EXCEPT !.answered = @ \union {p.n}]

ConvertItem(acc, p) ==
    IF ~acc.ok THEN acc
    ELSE CASE p.kind \in {"envelope", "thought"} ->
                 [acc EXCEPT !.sig = IF p.sig # NoSig THEN p.sig ELSE @, !.open = FALSE]
           [] p.kind = "message" -> AsModel(acc, p)
           [] p.kind \in {"function", "custom"} -> ConvertCall(acc, p)
           [] p.kind = "output" -> ConvertOutput(acc, p)
           [] OTHER -> [acc EXCEPT !.ok = FALSE]

(* The next request: the question, the turn and its results.                *)
Converted(items) ==
    LET converted[k \in 0..Len(items)] ==
            IF k = 0 THEN AsUser(Nothing, Word("message"))
            ELSE ConvertItem(converted[k - 1], items[k])
    IN converted[Len(items)]

Replay ==
    /\ agyPhase = "ended" /\ agyStatus = "completed"
    /\ agyPhase' = "replayed"
    /\ agyBack' = Converted(Items)
    /\ UNCHANGED <<agyClient, agyParts, agyMade, agyCache, agyOwed, agyOutput,
                   agyShown, agyOpen, agyStatus>>

AgyNext ==
    \/ NextFrame
    \/ \E s \in Signatures : LoneSignature(s)
    \/ \E k \in {"message", "thought"} : AppendWord(k)
    \/ \E t \in AgyTools, s \in Signatures \union {NoSig} : OpenToolCall(t, s)
    \/ \E st \in {"completed", "incomplete", "failed"} : AgyFinish(st)
    \/ Replay

AgySpec == AgyInit /\ [][AgyNext]_agyVars

-----------------------------------------------------------------------------
AgyKinds == {"message", "thought", "envelope", "function", "custom", "output", "unpaired"}
PieceType == [kind : AgyKinds, n : 0..MaxParts, sig : Signatures \union {NoSig}]
AgyTypeOK ==
    /\ agyClient \in AgyClients /\ agyPhase \in {"streaming", "ended", "replayed"}
    /\ agyParts \in 0..MaxParts
    /\ \A i \in DOMAIN agyMade : agyMade[i].tool \in AgyTools
    /\ \A i \in DOMAIN agyOutput : agyOutput[i] \in PieceType
    /\ \A i \in DOMAIN agyShown : agyShown[i] \in PieceType
    /\ {agyCache, agyOwed} \subseteq Signatures \union {NoSig}

Numbers(s) == [i \in DOMAIN s |-> s[i].n]
FlatParts ==
    LET upto[k \in 0..Len(agyBack.contents)] ==
            IF k = 0 THEN <<>> ELSE upto[k - 1] \o agyBack.contents[k].parts
    IN upto[Len(agyBack.contents)]
Distinct == \A i, j \in DOMAIN agyMade : i # j => agyMade[i].tool # agyMade[j].tool

(* A completed turn comes back whole: the conversion accepts it, every call *)
(* the client was able to see is in it once, in the order the upstream made *)
(* them, and each call is answered after it is made.  A Gemini client is    *)
(* promised this only when no tool is called twice in the turn, and only a  *)
(* Responses client sees the free-text tools (createAgyClientResponse and   *)
(* translateAgyRequest).                                                    *)
TurnComesBack ==
    agyPhase = "replayed" /\ (agyClient = "gemini" => Distinct) =>
      LET flat == FlatParts
          kinds == IF agyClient = "responses" THEN {"function", "custom"} ELSE {"function"}
          made == Only([i \in DOMAIN agyMade |-> Piece(CallKind(agyMade[i].tool), i, NoSig)], kinds)
      IN /\ agyBack.ok
         /\ Numbers(Only(flat, {"function", "custom"})) = Numbers(made)
         /\ \A i \in DOMAIN made : \E j, k \in DOMAIN flat :
              j < k /\ flat[j].n = made[i].n /\ flat[j].kind = made[i].kind
                    /\ flat[k] = Piece("output", made[i].n, NoSig)

(* A signature that the client was given with a call comes back with that   *)
(* very call and no other, since the upstream refuses the turn without it   *)
(* (openToolCall, and pendingSignature of translateAgyRequest).  Of an      *)
(* Anthropic turn this holds while only its first call is signed: the       *)
(* signatures of a message are gathered before its calls.                   *)
SignaturesReturn ==
    agyPhase = "replayed"
      /\ (\/ agyClient = "responses"
          \/ agyClient = "anthropic" /\ \A i \in DOMAIN agyMade :
                /\ agyMade[i].tool \notin AgyCustom
                /\ i > 1 => agyMade[i].sig = NoSig) =>
      \A i \in DOMAIN FlatParts : FlatParts[i].kind \in {"function", "custom"} =>
        FlatParts[i].sig = agyMade[FlatParts[i].n].sig

(* What went out to the client and back is the turn that was made: its      *)
(* calls, their results and their signatures.                               *)
TurnReplayed == TurnComesBack /\ SignaturesReturn
=============================================================================
